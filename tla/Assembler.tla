----------------------------- MODULE Assembler -----------------------------
(***************************************************************************)
(* internal/capture/engine.go: a capture worker and its Assembler.  The    *)
(* packets of the connections that hash to the worker arrive one after the *)
(* other; each goes to the stream of its connection, which is made when it *)
(* is missing.  The worker keeps MaxStreams streams and evicts the one     *)
(* idle for longest; a ticker drops those that have been idle too long; a  *)
(* FIN or RST from either side ends one; the end of the capture ends all.  *)
(* a.mu and the streams' own locks are never contended: a stream belongs   *)
(* to one worker.                                                          *)
(*                                                                         *)
(* The connections (`net`) are external: clients send requests, servers    *)
(* answer them in order, and the segments of the two directions are seen   *)
(* in an order in which an answer follows its request.  A packet may be    *)
(* lost on the way to the worker (its channel of 256 is full) or be seen   *)
(* twice (a TCP retransmission): the code looks at no sequence number.     *)
(***************************************************************************)
EXTENDS TCPStream, FiniteSets

CONSTANTS
    Conns,          \* connections whose packets this worker gets
    MaxStreams,     \* limit of the worker's streams
    Kinds,          \* kinds of responses on each connection
    Styles,         \* what each may be: "serial", "pipelined", "tls", "unnamed"
    MaxExchanges    \* requests on each (bound)

\* Answers to HEAD, and 304, that look like one with a body which never follows:
\* with a Content-Length, without any length, and of an event stream.
BareKinds == {"bareFramed", "bareOpen", "bareEvents"}

\* Not HTTP: the first segment has the name of the server in it, or has not.
TLSStyles == {"tls", "unnamed"}

ASSUME AssemblerAssumption ==
    /\ IsFiniteSet(Conns)
    /\ MaxStreams \in Nat \ {0}
    /\ MaxExchanges \in [Conns -> Nat]
    /\ Kinds \in [Conns -> SUBSET ({"framed", "large", "empty", "continue", "sse", "close"}
                                    \cup BareKinds)]
    /\ Styles \in [Conns -> SUBSET ({"serial", "pipelined"} \cup TLSStyles)]

VARIABLES
    streams,    \* a.streams
    order,      \* its connections, the longest idle first (lastActive)
    out,        \* out[c]: what the last step sent out for connection c
    times,      \* times[c][n]: how often request n of c has been recorded
    net,        \* net[c]: where the two ends of c are
    intact,     \* intact[c]: one stream saw all of c, and no packet was lost
    cut,        \* cut[c]: the request waiting when a buffer of c was first cut
    stopped     \* the worker's channel is closed and the worker has left

vars == <<streams, order, out, times, net, intact, cut, stopped>>

Numbers(c) == 0..MaxExchanges[c]
Never(c)   == MaxExchanges[c] + 1     \* the number of no exchange of c

TypeOK ==
    /\ DOMAIN streams \subseteq Conns
    /\ \A c \in DOMAIN streams :
         /\ {streams[c].pending, streams[c].sse} \subseteq Numbers(c)
         /\ \A b \in {streams[c].client, streams[c].server, streams[c].sseBuf} :
              Len(b) <= MaxLen
    /\ IsInjective(order)
    /\ \A c \in Conns : net[c].sent \in Numbers(c) /\ net[c].begun \in 0..net[c].sent
    /\ \A c \in Conns : {net[c].bare, cut[c]} \subseteq 0..Never(c)
    /\ intact \in [Conns -> BOOLEAN] /\ stopped \in BOOLEAN

Init ==
    /\ streams = <<>>
    /\ order = <<>>
    /\ out = [c \in Conns |-> <<>>]
    /\ times = [c \in Conns |-> [n \in 1..MaxExchanges[c] |-> 0]]
    /\ \E style \in {f \in [Conns -> UNION Range(Styles)] : \A c \in Conns : f[c] \in Styles[c]} :
         net = [c \in Conns |-> [style |-> style[c], sent |-> 0, begun |-> 0, todo |-> <<>>,
                                 bare |-> Never(c), final |-> FALSE, again |-> FALSE,
                                 open |-> TRUE]]
    /\ intact = [c \in Conns |-> TRUE]
    /\ cut = [c \in Conns |-> Never(c)]
    /\ stopped = FALSE

-----------------------------------------------------------------------------
(***************************************************************************)
(* Assemble: the whole way of one packet                                   *)
(***************************************************************************)
\* Fault: the limit is checked after the stream has been added.
Victims_OffByOne(c) ==
    IF c \notin DOMAIN streams /\ Cardinality(DOMAIN streams) > MaxStreams
    THEN {Head(order)} ELSE {}

\* evictOldestIdleStream
Victims(c) ==
    IF c \notin DOMAIN streams /\ Cardinality(DOMAIN streams) >= MaxStreams
    THEN {Head(order)} ELSE {}

Records(o, n) == o.req = n /\ (o.to \in {"ring", "lost"} \/ (o.to = "row" /\ o.body = <<>>))

\* What a step sends out, and what it means for the requests.
SendOut(o) ==
    /\ out' = o
    /\ times' = [d \in Conns |-> [n \in DOMAIN times[d] |->
                    times[d][n] + Len(SelectSeq(o[d], LAMBDA r : Records(r, n)))]]

\* The requests waiting when a buffer was cut.
CutAt(o) == {o[i].req : i \in {j \in DOMAIN o : o[j].to = "cut"}}

\* Whether a save answers: only event streams of S are saved at once, so that
\* only theirs may fail here.
Outcomes(S, tokens) ==
    IF \E s \in S : s.sse # 0 \/ \E t \in ToSet(s.server \o tokens) : t.kind = "sse"
    THEN BOOLEAN ELSE {TRUE}

Assemble(c, tokens, fromClient, fin) ==
    LET victims == Victims(c)
        new == c \notin DOMAIN streams
        old == IF new THEN NewStream ELSE streams[c]
    IN \E ok \in Outcomes({streams[d] : d \in victims} \cup {old}, tokens) :
        LET fed  == IF tokens = <<>> THEN old ELSE Feed(old, tokens, fromClient, ok)
            end  == IF fin THEN Finish(fed, ok) ELSE fed
            gone == victims \cup IF fin THEN {c} ELSE {}
        IN  /\ streams' = [d \in (DOMAIN streams \cup {c}) \ gone |->
                              IF d = c THEN [end EXCEPT !.out = <<>>] ELSE streams[d]]
            /\ order' = SelectSeq(
                  IF new \/ tokens # <<>> THEN Append(Remove(order, c), c) ELSE order,
                  LAMBDA d : d \notin gone)
            /\ SendOut([d \in Conns |-> IF d = c THEN end.out
                                        ELSE IF d \in victims THEN Finish(streams[d], ok).out
                                        ELSE <<>>])
            /\ intact' = [intact EXCEPT ![c] = @ /\ ~(new /\ net[c].sent > 0)]
            /\ cut' = [cut EXCEPT ![c] = Min({@} \cup CutAt(end.out))]

\* One stream saw all of d, and held it.
Undisturbed(d) == intact[d] /\ cut[d] = Never(d)

TLS(c) == net[c].style \in TLSStyles

\* The worker's channel is full, and packetLoop drops the packet.  (Bound: one
\* loss, on a connection that is not TLS, while every connection is undisturbed.)
Lose(c) ==
    /\ ~TLS(c) /\ \A d \in Conns : Undisturbed(d)
    /\ intact' = [intact EXCEPT ![c] = FALSE]
    /\ out' = [d \in Conns |-> <<>>]
    /\ UNCHANGED <<streams, order, times, cut>>

Packet(c, tokens, fromClient, fin) ==
    /\ ~stopped
    /\ Assemble(c, tokens, fromClient, fin) \/ Lose(c)
    /\ UNCHANGED stopped

(***************************************************************************)
(* The connections                                                         *)
(***************************************************************************)
\* A body that no buffer of the capture can hold.
Bodies(n) == [k \in 1..(MaxLen + 1) |-> Body(n, k)]

Script(n, kind) ==
    CASE kind = "tls"      -> <<Body(n, 1)>>
      [] kind = "framed"   -> <<Res(n, kind, 1), Body(n, 1)>>
      [] kind = "large"    -> <<Res(n, kind, MaxLen + 1)>> \o Bodies(n)
      [] kind = "empty"    -> <<Res(n, kind, 0)>>
      [] kind = "bareFramed" -> <<Res(n, "framed", 1)>>
      [] kind = "bareOpen"   -> <<Res(n, "close", 0)>>
      [] kind = "bareEvents" -> <<Res(n, "sse", 0)>>
      [] kind = "continue" -> <<Res(n, "info", 0), Res(n, "framed", 1), Body(n, 1)>>
      [] kind = "sse"      -> <<Res(n, kind, 0)>> \o Bodies(n)
      [] kind = "close"    -> <<Res(n, kind, 0), Body(n, 1)>>

Opening(c, n) ==
    CASE net[c].style = "tls"     -> Hello(n, "named")
      [] net[c].style = "unnamed" -> Hello(n, "unnamed")
      [] OTHER                    -> Req(n)

\* The client sends the next request; a serial one waits for the answer first.
ClientSends(c) ==
    /\ net[c].open /\ ~net[c].final
    /\ net[c].sent < IF TLS(c) THEN 1 ELSE MaxExchanges[c]
    /\ net[c].style = "serial" => net[c].begun = net[c].sent /\ net[c].todo = <<>>
    /\ LET n == net[c].sent + 1
       IN  /\ net' = [net EXCEPT ![c].sent = n]
           /\ Packet(c, <<Opening(c, n)>>, TRUE, FALSE)

\* The server sends a segment: one token, or all that is left of the answer.
Segment(c, script, n, final, bare) ==
    \E k \in {1, Len(script)} :
        /\ net' = [net EXCEPT ![c].begun = n, ![c].todo = From(script, k + 1),
                              ![c].final = @ \/ final,
                              ![c].bare = IF bare THEN Min({@, n}) ELSE @]
        /\ Packet(c, Upto(script, k), FALSE, FALSE)

Answers(c) ==
    /\ net[c].open /\ net[c].todo = <<>> /\ net[c].begun < net[c].sent
    /\ \E kind \in IF TLS(c) THEN {"tls"} ELSE Kinds[c] :
         /\ kind \in {"sse", "close"} => net[c].begun + 1 = net[c].sent
         /\ Segment(c, Script(net[c].begun + 1, kind), net[c].begun + 1,
                    kind \in {"sse", "close"}, kind \in BareKinds)

Continues(c) ==
    /\ net[c].open /\ net[c].todo # <<>>
    /\ Segment(c, net[c].todo, net[c].begun, FALSE, FALSE)

\* A RST, or the FIN of the server, alone or with the rest of an answer:
\* nothing follows.
Close(c) ==
    /\ net[c].open
    /\ net' = [net EXCEPT ![c].open = FALSE, ![c].todo = <<>>, ![c].final = TRUE]
    /\ \E rest \in {<<>>, net[c].todo} : Packet(c, rest, FALSE, TRUE)

\* The FIN of the client: the server may go on.
HalfClose(c) ==
    /\ net[c].open /\ ~net[c].final
    /\ net' = [net EXCEPT ![c].final = TRUE]
    /\ Packet(c, <<>>, TRUE, TRUE)

\* A packet without payload (SYN, ACK, keep-alive), also after a FIN: it only
\* matters when it makes a stream.
Ack(c) ==
    /\ c \notin DOMAIN streams
    /\ UNCHANGED net
    /\ Packet(c, <<>>, FALSE, FALSE)

\* The last request is seen a second time.  (Bound: once, on an undisturbed
\* connection that will send no other.)
Retransmit(c) ==
    /\ net[c].open /\ 0 < net[c].sent /\ net[c].sent = MaxExchanges[c]
    /\ ~net[c].again /\ Undisturbed(c) /\ ~TLS(c)
    /\ ~stopped
    /\ net' = [net EXCEPT ![c].again = TRUE]
    /\ Assemble(c, <<Req(net[c].sent)>>, TRUE, FALSE)
    /\ UNCHANGED stopped

-----------------------------------------------------------------------------
(***************************************************************************)
(* The worker's ticker, and its end                                        *)
(***************************************************************************)
Drop(gone) ==
    \E ok \in [gone -> Outcomes({streams[d] : d \in gone}, <<>>)] :
        /\ streams' = [d \in DOMAIN streams \ gone |-> streams[d]]
        /\ order' = SelectSeq(order, LAMBDA d : d \notin gone)
        /\ SendOut([d \in Conns |-> IF d \in gone THEN Finish(streams[d], ok[d]).out ELSE <<>>])

\* FlushOlderThan: the streams that are not HTTP, and those idle for too long.
GC ==
    /\ ~stopped
    /\ \E n \in 0..Len(order) :
         LET gone == ToSet(Upto(order, n)) \cup {c \in DOMAIN streams : streams[c].nonHTTP}
         IN  gone # {} /\ Drop(gone)
    /\ UNCHANGED <<net, intact, cut, stopped>>

\* FlushAllWithPending, when the worker's channel has been closed.
Stop ==
    /\ ~stopped
    /\ Drop(DOMAIN streams)
    /\ stopped' = TRUE
    /\ UNCHANGED <<net, intact, cut>>

Next ==
    \/ \E c \in Conns :
         \/ ClientSends(c) \/ Answers(c) \/ Continues(c)
         \/ Close(c) \/ HalfClose(c) \/ Ack(c) \/ Retransmit(c)
    \/ GC
    \/ Stop

Spec == Init /\ [][Next]_vars

-----------------------------------------------------------------------------
(***************************************************************************)
(* Properties                                                              *)
(***************************************************************************)
\* The worker never keeps more than MaxStreams streams, and knows for every
\* one of them how long it has been idle (NewAssembler: 单 worker 最大并发流数).
WithinLimit ==
    /\ Cardinality(DOMAIN streams) <= MaxStreams
    /\ ToSet(order) = DOMAIN streams

\* A request whose bytes are seen once is never recorded twice, whatever
\* evictions, ticks, FINs and packets after a FIN do to its stream.
RecordedOnce ==
    \A c \in Conns : ~net[c].again => \A n \in 1..MaxExchanges[c] : times[c][n] <= 1

Inv == TypeOK /\ WithinLimit /\ RecordedOnce

\* As long as a connection's bytes all go through one stream, what is recorded
\* for a request is its own answer, or none: the head is the head of its exchange
\* and the body is a run of that exchange's body (tryExtractHTTP pairs by position
\* alone).  That ends in two ways.  A buffer that overflows is cut, and the
\* request waiting then is the first that may get a wrong answer; and an answer
\* that announces a body which never follows (HEAD, 304) keeps its head, but takes the
\* next answer for its body, so that nothing is said of the requests behind it.
PairsMatch ==
    \A c \in Conns : intact[c] /\ ~net[c].again =>
        \A i \in DOMAIN out[c] :
            LET o == out[c][i]
            IN  o.to \in {"ring", "row"} /\ o.req < cut[c] /\ o.req <= net[c].bare =>
                    /\ o.res \in {0, o.req}
                    /\ o.req < net[c].bare \/ net[c].begun <= net[c].bare =>
                         \A k \in DOMAIN o.body :
                             o.body[k].n = o.req /\ o.body[k].k = o.body[1].k + k - 1

\* No request leaves without a trace: when the stream of such a connection is
\* gone (closed, evicted, idle, or at the end), every request that was seen
\* on it is recorded, answered or not, or its save has failed; also the one
\* whose answer no buffer could hold, or whose answer lacks its body.  Three
\* exceptions: what follows behind such a request is dropped by
\* tryExtractHTTPOnClose, as are pipelined requests behind the first; and a TLS
\* connection is recorded only if its first segment names the server.
NothingMissed ==
    \A c \in Conns :
        /\ intact[c] /\ ~net[c].again /\ c \notin DOMAIN streams
        /\ net[c].style \notin {"pipelined", "unnamed"}
        => \A n \in 1..net[c].sent :
               n <= cut[c] /\ n <= net[c].bare => times[c][n] > 0
=============================================================================
