----------------------------- MODULE TCPStream -----------------------------
(***************************************************************************)
(* internal/capture/engine.go: what one TCPStream makes of the bytes of a  *)
(* connection.  The bytes of a direction are a sequence of tokens: a whole *)
(* request, the head of a response, one piece of a body, a TLS ClientHello.*)
(* The operators give the stream after a call; what the call sends out is  *)
(* appended to its field `out`.  An `ok` says whether the store answers.   *)
(***************************************************************************)
EXTENDS Integers, Sequences, SequencesExt

CONSTANTS
    MaxLen,     \* maxResBytes, the limit of every buffer, in tokens
    FlushLen,   \* events that make Feed write them to the row (4096 bytes)
    Window      \* how far into a cut buffer a head is looked for (4096 bytes)

ASSUME StreamAssumption == {MaxLen, FlushLen, Window} \subseteq Nat \ {0}

(***************************************************************************)
(* Tokens.  `n` is the exchange on the connection it belongs to, `len` the *)
(* number of body tokens a head announces, `k` the place of a body token.  *)
(***************************************************************************)
Req(n)          == [is |-> "req",  n |-> n, kind |-> "request", len |-> 0, k |-> 0]
Res(n, kd, len) == [is |-> "res",  n |-> n, kind |-> kd, len |-> len, k |-> 0]
Body(n, k)      == [is |-> "body", n |-> n, kind |-> "body", len |-> 0, k |-> k]
\* `kd` is "named" when extractSNI finds a name in it: a server name, and all up
\* to it in this segment.
Hello(n, kd)    == [is |-> "tls",  n |-> n, kind |-> kd, len |-> 0, k |-> 0]

\* What goes out: a record for the ring (its response is 0 when there is
\* none) or a version of the row of a streaming response.  For the properties
\* only, "lost" is a request that a failed save loses, and "cut" the request that
\* was waiting when a buffer was truncated.
Out(to, req, res, body) == [to |-> to, req |-> req, res |-> res, body |-> body]

Upto(b, n) == SubSeq(b, 1, n)
From(b, n) == SubSeq(b, n, Len(b))

Heads(b) == {i \in DOMAIN b : b[i].is \in {"req", "res"}}
First(S) == CHOOSE i \in S : \A j \in S : i <= j

\* findHTTPMessageEnd: where the first message ends, 0 if it is not complete.
MessageEnd(b) ==
    IF Heads(b) = {} THEN 0
    ELSE LET h == First(Heads(b))
         IN  IF h + b[h].len <= Len(b) THEN h + b[h].len ELSE 0

\* truncateBuffer: the end of the buffer, from behind the first head in it if
\* that is near.
Truncated(b) ==
    IF Len(b) <= MaxLen THEN b
    ELSE LET kept == From(b, Len(b) - MaxLen + 1)
             near == {i \in Heads(kept) : i <= Window}
         IN  IF near = {} THEN kept ELSE From(kept, First(near) + 1)

NewStream ==
    [client |-> <<>>, server |-> <<>>, pending |-> 0, nonHTTP |-> FALSE,
     firstData |-> FALSE, sse |-> 0, sseBuf |-> <<>>, out |-> <<>>]

Send(s, o)    == [s EXCEPT !.out = Append(@, o)]
GiveUp(s)     == [s EXCEPT !.nonHTTP = TRUE, !.client = <<>>, !.server = <<>>]

-----------------------------------------------------------------------------
(***************************************************************************)
(* tryExtractHTTP                                                          *)
(***************************************************************************)
TakeRequest(s) ==
    LET end == MessageEnd(s.client)
    IN  IF s.pending # 0 \/ end = 0 THEN s
        ELSE [s EXCEPT !.client = From(@, end + 1),
                       !.pending = IF s.client[end].is = "req" THEN s.client[end].n ELSE 0]

Complete(s) ==
    /\ s.server # <<>> /\ Head(s.server).is = "res"
    /\ MessageEnd(s.server) # 0

\* The head of an event stream makes a row at once; if that fails the stream
\* is given up, and its request with it.
StartSSE(s, ok) ==
    LET left == [s EXCEPT !.server = Tail(@), !.pending = 0]
    IN  IF ok
        THEN Send([left EXCEPT !.sse = s.pending],
                  Out("row", s.pending, Head(s.server).n, <<>>))
        ELSE Send(GiveUp(left), Out("lost", s.pending, 0, <<>>))

\* Fault: an interim response is taken for the answer.
Answer_Interim(s, ok) ==
    LET h == Head(s.server) end == MessageEnd(s.server)
    IN  CASE h.kind = "sse"   -> StartSSE(s, ok)
          [] h.kind = "close" -> s
          [] OTHER -> Send([s EXCEPT !.server = From(@, end + 1), !.pending = 0],
                           Out("ring", s.pending, h.n, SubSeq(s.server, 2, end)))

\* A response without length and without an exception is only complete when
\* the connection is; an interim response (1xx) is skipped.
Answer(s, ok) ==
    LET h == Head(s.server) end == MessageEnd(s.server)
    IN  CASE h.kind = "sse"   -> StartSSE(s, ok)
          [] h.kind = "close" -> s
          [] h.kind = "info"  -> [s EXCEPT !.server = From(@, end + 1)]
          [] OTHER -> Send([s EXCEPT !.server = From(@, end + 1), !.pending = 0],
                           Out("ring", s.pending, h.n, SubSeq(s.server, 2, end)))

Round(s, ok) ==
    LET t == TakeRequest(s)
    IN  IF t.pending # 0 /\ Complete(t) THEN Answer(t, ok) ELSE t

\* Every round but the last takes a token, so as many rounds as there are
\* tokens are the whole loop.
Extract(s, ok) ==
    FoldLeft(LAMBDA t, token : Round(t, ok), s, s.client \o s.server)

\* flushSSEEvents: the row gets everything in the buffer, which stays.
FlushSSE(s, ok) ==
    IF s.sseBuf # <<>> /\ ok THEN Send(s, Out("row", s.sse, s.sse, s.sseBuf)) ELSE s

\* tryExtractHTTPOnClose: a request that is still waiting goes out with what
\* there is of its response, if the buffer starts with one.
OnClose(s, ok) ==
    LET t == Extract(s, ok)
    IN  IF t.pending = 0 THEN t
        ELSE LET answered == t.server # <<>> /\ Head(t.server).is = "res"
             IN  Send([t EXCEPT !.pending = 0, !.client = <<>>, !.server = <<>>],
                      IF answered THEN Out("ring", t.pending, Head(t.server).n, Tail(t.server))
                                  ELSE Out("ring", t.pending, 0, <<>>))

\* Fault: only what is complete goes out, as before tryExtractHTTPOnClose.
Finish_CompleteOnly(s, ok) ==
    CASE s.nonHTTP  -> s
      [] s.sse # 0  -> FlushSSE(s, ok)
      [] OTHER      -> Extract(s, ok)

\* What HandleClose, FlushOlderThan, FlushAllWithPending and flushEvictedStream
\* do with a stream that goes.
Finish(s, ok) ==
    CASE s.nonHTTP  -> s
      [] s.sse # 0  -> FlushSSE(s, ok)
      [] OTHER      -> OnClose(s, ok)

(***************************************************************************)
(* Feed                                                                    *)
(***************************************************************************)
FeedSSE(s, tokens, ok) ==
    LET t == [s EXCEPT !.sseBuf = @ \o tokens]
        u == IF Len(t.sseBuf) >= FlushLen THEN FlushSSE(t, ok) ELSE t
    IN  [u EXCEPT !.sseBuf = IF Len(@) > MaxLen THEN From(@, Len(@) - MaxLen + 1) ELSE @]

\* The first bytes decide whether this is HTTP; a ClientHello is recorded if there
\* is a name in it.
NotHTTP(s, token) ==
    IF token.is = "tls" /\ token.kind = "named"
    THEN Send(GiveUp(s), Out("ring", token.n, 0, <<>>))
    ELSE GiveUp(s)

Feed(s, tokens, fromClient, ok) ==
    IF s.nonHTTP THEN s
    ELSE IF s.sse # 0 /\ ~fromClient THEN FeedSSE(s, tokens, ok)
    ELSE LET t == [s EXCEPT !.firstData = TRUE,
                            !.client = IF fromClient THEN @ \o tokens ELSE @,
                            !.server = IF fromClient THEN @ ELSE @ \o tokens]
         IN  IF ~s.firstData /\ Head(tokens).is \notin {"req", "res"}
             THEN NotHTTP(t, Head(tokens))
             ELSE LET u == Extract(t, ok)
                      v == [u EXCEPT !.client = Truncated(@), !.server = Truncated(@)]
                  IN  IF v = u THEN v ELSE Send(v, Out("cut", v.pending, 0, <<>>))
=============================================================================
