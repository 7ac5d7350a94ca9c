----------------------------- MODULE WSHubProofs -----------------------------
(***************************************************************************)
(* Proofs about WSHub, for any number of browsers and events and channels  *)
(* of any capacity.                                                        *)
(***************************************************************************)
EXTENDS WSHub, FiniteSetTheorems, TLAPS

-----------------------------------------------------------------------------
(***************************************************************************)
(* The inductive invariant                                                 *)
(***************************************************************************)
\* Nothing reaches a client before it is registered, and its pumps start when
\* handleWebSocket ends.
Untouched ==
    \A c \in Clients :
        /\ serve[c] \in {"new", "register"} =>
             c \notin clients /\ send[c] = <<>> /\ written[c] = <<>> /\ ~closed[c]
        /\ serve[c] # "done" => writer[c] = "none"

\* What run is handing out is the latest of what it has taken; a hub that is gone
\* hands out nothing.
HandingOut ==
    /\ hub = "gone" => todo = {}
    /\ todo # {} /\ msg.kind = New => relayed # <<>> /\ msg.n = relayed[Len(relayed)]

\* The new requests in a stream s are those of the sequence rel from the place
\* `from` on.
GapFree(s, from, rel) ==
    \A i \in 1 .. Len(s) : s[i].kind = New =>
        from + Rank(s, i) <= Len(rel) /\ s[i].n = rel[from + Rank(s, i)]

AllGapFree ==
    \A c \in Clients : since[c] <= Len(relayed) /\ GapFree(Stream(c), since[c], relayed)

\* What a registered client has not been given of what was taken since then: the
\* event run is handing out, when it has not come to the client yet.
Missing(c) == IF c \in todo /\ msg.kind = New THEN 1 ELSE 0

Count(c) == Rank(Stream(c), Len(Stream(c)))

Exact ==
    \A c \in clients : writer[c] # "done" => since[c] + Count(c) + Missing(c) = Len(relayed)

IInv ==
    /\ TypeOK
    /\ RegisteredAreOpen
    /\ Untouched
    /\ HandingOut
    /\ AllGapFree
    /\ Exact

-----------------------------------------------------------------------------
(***************************************************************************)
(* Ranks                                                                   *)
(***************************************************************************)
\* The number of new requests up to a place, and that it counts its own.
LEMMA RankNat ==
    ASSUME NEW s, NEW i \in Nat
    PROVE  /\ IsFiniteSet(NewUpTo(s, i)) /\ Rank(s, i) \in Nat
           /\ i >= 1 /\ s[i].kind = New => Rank(s, i) >= 1
<1>1. IsFiniteSet(1 .. i)
  BY FS_Interval
<1>2. IsFiniteSet(NewUpTo(s, i))
  BY <1>1, FS_Subset DEF NewUpTo
<1>3. Rank(s, i) \in Nat
  BY <1>2, FS_CardinalityType DEF Rank
<1>4. ASSUME i >= 1, s[i].kind = New PROVE Rank(s, i) >= 1
  <2>1. i \in NewUpTo(s, i)
    BY <1>4 DEF NewUpTo
  <2>2. Rank(s, i) # 0
    BY <1>2, <2>1, FS_EmptySet DEF Rank
  <2> QED
    BY <1>3, <2>2
<1> QED
  BY <1>2, <1>3, <1>4

\* The rank of a place does not depend on what follows it.
LEMMA RankPrefix ==
    ASSUME NEW s, NEW t, NEW n \in Nat, \A j \in 1 .. n : s[j] = t[j]
    PROVE  \A i \in 1 .. n : Rank(s, i) = Rank(t, i)
<1> SUFFICES ASSUME NEW i \in 1 .. n PROVE NewUpTo(s, i) = NewUpTo(t, i)
  BY DEF Rank
<1> QED
  BY DEF NewUpTo

\* One event more.
LEMMA RankAppend ==
    ASSUME NEW s \in Seq(Event), NEW e \in Event
    PROVE  /\ \A i \in 1 .. Len(s) : Rank(Append(s, e), i) = Rank(s, i)
           /\ Rank(Append(s, e), Len(s) + 1)
                = Rank(s, Len(s)) + (IF e.kind = New THEN 1 ELSE 0)
<1> DEFINE a == Append(s, e)
           n == Len(s)
<1>1. /\ n \in Nat /\ \A j \in 1 .. n : a[j] = s[j]
      /\ a[n + 1] = e
  OBVIOUS
<1> HIDE DEF a, n
<1>2. \A i \in 1 .. n : Rank(a, i) = Rank(s, i)
  BY <1>1, RankPrefix
<1>3. n + 1 \notin NewUpTo(s, n) /\ IsFiniteSet(NewUpTo(s, n)) /\ Rank(s, n) \in Nat
  <2>1. IsFiniteSet(NewUpTo(s, n)) /\ Rank(s, n) \in Nat
    BY <1>1, RankNat
  <2>2. n + 1 \notin NewUpTo(s, n)
    BY <1>1 DEF NewUpTo
  <2> QED
    BY <2>1, <2>2
<1>4. CASE e.kind = New
  <2>1. NewUpTo(a, n + 1) = NewUpTo(s, n) \cup {n + 1}
    BY <1>1, <1>4 DEF NewUpTo
  <2>2. Cardinality(NewUpTo(s, n) \cup {n + 1}) = Cardinality(NewUpTo(s, n)) + 1
    BY <1>3, FS_AddElement
  <2> QED
    BY <1>2, <1>4, <2>1, <2>2 DEF Rank, a, n
<1>5. CASE e.kind # New
  <2>1. NewUpTo(a, n + 1) = NewUpTo(s, n)
    BY <1>1, <1>5 DEF NewUpTo
  <2> QED
    BY <1>2, <1>3, <1>5, <2>1 DEF Rank, a, n
<1> QED
  BY <1>4, <1>5

\* A stream that is cut off has no gap either.
LEMMA GapFreePrefix ==
    ASSUME NEW w \in Seq(Event), NEW u \in Seq(Event), NEW from \in Nat, NEW rel \in Seq(Nat),
           GapFree(w \o u, from, rel)
    PROVE  GapFree(w, from, rel)
<1> DEFINE s == w \o u
<1>1. /\ Len(w) \in Nat /\ Len(u) \in Nat /\ Len(s) = Len(w) + Len(u)
      /\ \A j \in 1 .. Len(w) : s[j] = w[j]
      /\ GapFree(s, from, rel)
  OBVIOUS
<1> HIDE DEF s
<1>2. \A i \in 1 .. Len(w) : Rank(s, i) = Rank(w, i)
  BY <1>1, RankPrefix
<1> QED
  BY <1>1, <1>2 DEF GapFree

\* The next event is the next of what was taken.
LEMMA GapFreeAppend ==
    ASSUME NEW s \in Seq(Event), NEW e \in Event, NEW from \in Nat, NEW rel \in Seq(Nat),
           GapFree(s, from, rel),
           e.kind = New => /\ from + Rank(s, Len(s)) + 1 = Len(rel)
                           /\ e.n = rel[Len(rel)]
    PROVE  GapFree(Append(s, e), from, rel)
<1> DEFINE a == Append(s, e)
<1>1. /\ Len(s) \in Nat /\ Len(a) = Len(s) + 1
      /\ \A i \in 1 .. Len(s) : a[i] = s[i]
      /\ a[Len(s) + 1] = e
  OBVIOUS
<1>2. /\ \A i \in 1 .. Len(s) : Rank(a, i) = Rank(s, i)
      /\ Rank(a, Len(s) + 1) = Rank(s, Len(s)) + (IF e.kind = New THEN 1 ELSE 0)
  BY RankAppend
<1>3. Rank(s, Len(s)) \in Nat
  BY <1>1, RankNat
<1> HIDE DEF a
<1>4. SUFFICES ASSUME NEW i \in 1 .. Len(a), a[i].kind = New
               PROVE  from + Rank(a, i) <= Len(rel) /\ a[i].n = rel[from + Rank(a, i)]
  BY DEF GapFree, a
<1>5. CASE i \in 1 .. Len(s)
  BY <1>1, <1>2, <1>4, <1>5 DEF GapFree
<1>6. CASE i = Len(s) + 1
  <2>1. e.kind = New /\ from + Rank(a, i) = Len(rel)
    BY <1>1, <1>2, <1>3, <1>4, <1>6
  <2> QED
    BY <1>1, <1>6, <2>1
<1> QED
  BY <1>1, <1>4, <1>5, <1>6

\* Taking one more does not change what is before it.
LEMMA GapFreeGrows ==
    ASSUME NEW s \in Seq(Event), NEW from \in Nat, NEW rel \in Seq(Nat), NEW n \in Nat,
           GapFree(s, from, rel)
    PROVE  GapFree(s, from, Append(rel, n))
<1>1. /\ Len(s) \in Nat /\ Len(rel) \in Nat /\ Len(Append(rel, n)) = Len(rel) + 1
      /\ \A j \in 1 .. Len(rel) : Append(rel, n)[j] = rel[j]
  OBVIOUS
<1>2. ASSUME NEW i \in 1 .. Len(s), s[i].kind = New
      PROVE  /\ from + Rank(s, i) <= Len(Append(rel, n))
             /\ s[i].n = Append(rel, n)[from + Rank(s, i)]
  <2>1. Rank(s, i) \in Nat /\ Rank(s, i) >= 1
    BY <1>1, <1>2, RankNat
  <2>2. from + Rank(s, i) <= Len(rel) /\ s[i].n = rel[from + Rank(s, i)]
    BY <1>2 DEF GapFree
  <2>3. from + Rank(s, i) \in 1 .. Len(rel)
    BY <1>1, <2>1, <2>2
  <2> QED
    BY <1>1, <2>2, <2>3
<1> QED
  BY <1>2 DEF GapFree

-----------------------------------------------------------------------------
(***************************************************************************)
(* Streams                                                                 *)
(***************************************************************************)
\* The channel and the connection of a client together are a sequence of events.
LEMMA StreamType ==
    ASSUME TypeOK, NEW c \in Clients
    PROVE  /\ Stream(c) \in Seq(Event) /\ written[c] \in Seq(Event) /\ send[c] \in Seq(Event)
           /\ since[c] \in Nat /\ relayed \in Seq(Nat) /\ Count(c) \in Nat
<1>1. /\ written[c] \in Seq(Event) /\ send[c] \in Seq(Event)
      /\ since[c] \in Nat /\ relayed \in Seq(Nat)
  BY DEF TypeOK
<1>2. \A w, s \in Seq(Event) : w \o s \in Seq(Event) /\ w \o <<>> \in Seq(Event)
  OBVIOUS
<1>3. Stream(c) \in Seq(Event)
  BY <1>1, <1>2 DEF Stream
<1>4. Len(Stream(c)) \in Nat
  BY <1>3
<1>5. Count(c) \in Nat
  BY <1>4, RankNat DEF Count
<1> QED
  BY <1>1, <1>3, <1>5

\* What is put into a channel comes last.
LEMMA PutLast ==
    ASSUME NEW w \in Seq(Event), NEW s \in Seq(Event), NEW e \in Event
    PROVE  w \o Append(s, e) = Append(w \o s, e)
OBVIOUS

\* writePump moves an event from the channel to the connection, and a closed
\* channel adds nothing.
LEMMA Concats ==
    ASSUME NEW w \in Seq(Event), NEW s \in Seq(Event)
    PROVE  /\ w \o <<>> = w
           /\ s # <<>> => /\ Append(w, Head(s)) \o Tail(s) = w \o s
                          /\ Head(s) \in Event /\ Tail(s) \in Seq(Event)
<1>1. w \o <<>> = w
  OBVIOUS
<1>2. ASSUME s # <<>> PROVE Append(w, Head(s)) \o Tail(s) = w \o s
  <2> DEFINE a == Append(w, Head(s)) \o Tail(s)
             b == w \o s
  <2>1. /\ a \in Seq(Event) /\ b \in Seq(Event)
        /\ Len(a) = Len(w) + 1 + (Len(s) - 1) /\ Len(b) = Len(w) + Len(s)
        /\ Len(w) \in Nat /\ Len(s) \in Nat /\ Len(s) >= 1
    BY <1>2
  <2>2. ASSUME NEW i \in 1 .. Len(w) + Len(s) PROVE a[i] = b[i]
    BY <1>2, <2>2
  <2>3. Len(a) = Len(b)
    BY <2>1
  <2> HIDE DEF a, b
  <2>4. a = b
    BY <2>1, <2>2, <2>3
  <2> QED
    BY <2>4 DEF a, b
<1>3. s # <<>> => Head(s) \in Event /\ Tail(s) \in Seq(Event)
  OBVIOUS
<1> QED
  BY <1>1, <1>2, <1>3

\* close(c.send), for some clients.
LEMMA CloseFacts ==
    ASSUME closed \in [Clients -> BOOLEAN], NEW C, Close(C)
    PROVE  /\ closed' \in [Clients -> BOOLEAN]
           /\ \A d \in Clients : closed'[d] <=> closed[d] \/ d \in C
BY DEF Close

\* Neither the lists nor the streams change.
LEMMA SameStreams ==
    ASSUME AllGapFree, Exact,
           UNCHANGED <<written, send, relayed, since, clients, todo, msg>>,
           \A c \in Clients : writer'[c] = "done" <=> writer[c] = "done",
           clients \subseteq Clients
    PROVE  AllGapFree' /\ Exact'
<1>1. \A c \in Clients : Stream(c)' = Stream(c)
  BY DEF Stream
<1>2. AllGapFree'
  BY <1>1 DEF AllGapFree, GapFree
<1>3. \A c \in Clients : Count(c)' = Count(c) /\ Missing(c)' = Missing(c)
  BY <1>1 DEF Count, Missing
<1>4. Exact'
  BY <1>3 DEF Exact
<1> QED
  BY <1>2, <1>4

-----------------------------------------------------------------------------
(***************************************************************************)
(* Each step preserves the invariant                                       *)
(***************************************************************************)
\* The hub before its first event.
LEMMA InitOK == Init => IInv
<1> SUFFICES ASSUME Init PROVE IInv
  OBVIOUS
<1>1. TypeOK
  <2>1. /\ \A k \in Kinds : Len(<<>>) <= ChCap[k]
        /\ \A c \in Clients : Len(<<>>) <= SendCap
        /\ <<>> \in Seq(Nat) /\ <<>> \in Seq(Event)
    BY HubAssumption
  <2>2. [kind |-> New, n |-> 0] \in Event
    BY HubAssumption DEF Event
  <2> QED
    BY <2>1, <2>2 DEF Init, TypeOK
<1>2. RegisteredAreOpen /\ Untouched /\ HandingOut /\ Exact
  BY DEF Init, RegisteredAreOpen, Untouched, HandingOut, Exact
<1>3. AllGapFree
  <2> SUFFICES ASSUME NEW c \in Clients
               PROVE  since[c] <= Len(relayed) /\ GapFree(Stream(c), since[c], relayed)
    BY DEF AllGapFree
  <2>1. Stream(c) = <<>>
    BY DEF Init, Stream
  <2> QED
    BY <2>1 DEF Init, GapFree
<1> QED
  BY <1>1, <1>2, <1>3 DEF IInv

\* Producers, Stop, handleWebSocket, readPump and the peer touch no stream, nor
\* does the hub's own end.
LEMMA QuietOK ==
    ASSUME IInv, NEW c, NEW k \in Kinds,
           \/ Broadcast(k) \/ Stop \/ Gone
           \/ Connect(c) \/ Rejected(c) \/ StartPumps(c) \/ PeerDies(c) \/ ReadPump(c)
    PROVE  IInv'
<1> USE HubAssumption
        DEF IInv, TypeOK, events, loop, pumps, queues, ReadPump
<1>1. /\ UNCHANGED <<written, send, relayed, since, clients, todo, msg>>
      /\ \A d \in Clients : writer'[d] = "done" <=> writer[d] = "done"
  <2>1. CASE StartPumps(c)
    BY <2>1 DEF StartPumps, Untouched
  <2>2. CASE ~StartPumps(c)
    BY <2>2 DEF Broadcast, Stop, Gone, Connect, Rejected, PeerDies, ReadFails,
                LeaveStopped, ReaderCloses
  <2> QED
    BY <2>1, <2>2
<1>2. AllGapFree' /\ Exact'
  <2> HIDE DEF IInv, TypeOK
  <2> QED
    BY <1>1, SameStreams DEF IInv, TypeOK
<1>3. RegisteredAreOpen' /\ Untouched' /\ HandingOut'
  <2>1. CASE Broadcast(k) \/ Stop
    <3>1. UNCHANGED <<hub, clients, closed, serve, writer, send, written, todo, msg, relayed>>
      BY <2>1 DEF Broadcast, Stop
    <3> QED
      BY <3>1 DEF RegisteredAreOpen, Untouched, HandingOut
  <2>2. CASE Gone
    <3>1. \A d \in Clients : closed'[d] <=> closed[d] \/ d \in clients
      BY <2>2, CloseFacts DEF Gone
    <3> QED
      BY <2>2, <3>1 DEF RegisteredAreOpen, Untouched, HandingOut, Gone, Selecting
  <2>3. CASE Connect(c) \/ Rejected(c) \/ StartPumps(c)
    <3>1. UNCHANGED <<hub, clients, closed, send, written, todo, msg, relayed>>
      BY <2>3 DEF Connect, Rejected, StartPumps
    <3>2. \A d \in Clients :
            /\ serve'[d] \in {"new", "register"} => serve[d] \in {"new", "register"}
            /\ serve'[d] # "done" => writer'[d] = "none"
      <4>1. CASE Connect(c)
        BY <4>1 DEF Connect, Untouched
      <4>2. CASE Rejected(c)
        BY <4>2 DEF Rejected, Untouched
      <4>3. CASE StartPumps(c)
        BY <4>3 DEF StartPumps, Untouched
      <4> QED
        BY <2>3, <4>1, <4>2, <4>3
    <3> QED
      BY <3>1, <3>2 DEF RegisteredAreOpen, Untouched, HandingOut
  <2>4. CASE PeerDies(c) \/ ReadFails(c) \/ LeaveStopped(c) \/ ReaderCloses(c)
    <3>1. UNCHANGED <<hub, clients, closed, serve, writer, send, written, todo, msg, relayed>>
      BY <2>4 DEF PeerDies, ReadFails, LeaveStopped, ReaderCloses
    <3> QED
      BY <3>1 DEF RegisteredAreOpen, Untouched, HandingOut
  <2> QED
    BY <2>1, <2>2, <2>3, <2>4
<1>4. TypeOK'
  <2>1. CASE Broadcast(k)
    <3>1. Append(ch[k], made[k] + 1) \in Seq(Nat)
          /\ Len(Append(ch[k], made[k] + 1)) = Len(ch[k]) + 1
      OBVIOUS
    <3>2. ch' \in [Kinds -> Seq(Nat)] /\ \A j \in Kinds : Len(ch'[j]) <= ChCap[j]
      <4>1. CASE Len(ch[k]) < ChCap[k]
        <5>1. ch' = [ch EXCEPT ![k] = Append(ch[k], made[k] + 1)]
          BY <2>1, <4>1 DEF Broadcast
        <5>2. Len(ch[k]) \in Nat /\ ChCap[k] \in Nat
          OBVIOUS
        <5> QED
          BY <3>1, <4>1, <5>1, <5>2
      <4>2. CASE ~(Len(ch[k]) < ChCap[k])
        BY <2>1, <4>2 DEF Broadcast
      <4> QED
        BY <4>1, <4>2
    <3>3. made' \in [Kinds -> Nat]
      BY <2>1 DEF Broadcast
    <3> QED
      BY <2>1, <3>2, <3>3 DEF Broadcast
  <2>2. CASE Stop \/ Gone
    BY <2>2 DEF Stop, Gone, Close
  <2>3. CASE Connect(c) \/ Rejected(c) \/ StartPumps(c) \/ PeerDies(c) \/ ReadPump(c)
    BY <2>3 DEF Connect, Rejected, StartPumps, PeerDies, ReadFails, LeaveStopped, ReaderCloses
  <2> QED
    BY <2>1, <2>2, <2>3
<1> QED
  BY <1>2, <1>3, <1>4

\* run takes a client in, with what it has taken so far behind it ...
LEMMA RegisterOK ==
    ASSUME IInv, NEW c \in Clients, Register(c)
    PROVE  IInv'
<1>1. /\ hub = "running" /\ todo = {} /\ serve[c] = "register"
      /\ clients' = clients \cup {c}
      /\ since' = [since EXCEPT ![c] = Len(relayed)]
      /\ serve' = [serve EXCEPT ![c] = "registered"]
      /\ UNCHANGED <<made, ch, hub, msg, todo, relayed, stopped, reader, writer, conn, send,
                     closed, written>>
  BY DEF Register, Selecting, events
<1>2. /\ c \notin clients /\ send[c] = <<>> /\ written[c] = <<>> /\ ~closed[c]
      /\ writer[c] = "none"
  BY <1>1 DEF IInv, Untouched
<1>3. \A d \in Clients : Stream(d)' = Stream(d)
  BY <1>1 DEF Stream
<1>4. Stream(c) = <<>>
  BY <1>2 DEF Stream
<1>5. relayed \in Seq(Nat) /\ Len(relayed) \in Nat
  BY DEF IInv, TypeOK
<1>6. TypeOK'
  BY <1>1, <1>5 DEF IInv, TypeOK
<1>7. RegisteredAreOpen' /\ Untouched' /\ HandingOut'
  BY <1>1, <1>2 DEF IInv, TypeOK, RegisteredAreOpen, Untouched, HandingOut
<1>8. AllGapFree'
  <2> SUFFICES ASSUME NEW d \in Clients
               PROVE  since'[d] <= Len(relayed) /\ GapFree(Stream(d), since'[d], relayed)
    BY <1>1, <1>3 DEF AllGapFree, GapFree
  <2>1. CASE d = c
    <3>1. since'[d] = Len(relayed)
      BY <1>1, <2>1 DEF IInv, TypeOK
    <3>2. Len(Stream(d)) = 0
      BY <1>4, <2>1
    <3> QED
      BY <1>5, <3>1, <3>2 DEF GapFree
  <2>2. CASE d # c
    BY <1>1, <2>2 DEF IInv, TypeOK, AllGapFree
  <2> QED
    BY <2>1, <2>2
<1>9. Exact'
  <2> SUFFICES ASSUME NEW d \in clients \cup {c}, writer[d] # "done"
               PROVE  since'[d] + Count(d) + 0 = Len(relayed)
    BY <1>1, <1>3 DEF Exact, Count, Missing, IInv, TypeOK
  <2>1. CASE d = c
    <3>1. since'[d] = Len(relayed)
      BY <1>1, <2>1 DEF IInv, TypeOK
    <3>2. NewUpTo(Stream(d), 0) = {} /\ Len(Stream(d)) = 0
      BY <1>4, <2>1 DEF NewUpTo
    <3>3. Count(d) = 0
      BY <3>2, FS_EmptySet DEF Count, Rank
    <3> QED
      BY <1>5, <3>1, <3>3
  <2>2. CASE d # c
    <3>1. since[d] + Count(d) + 0 = Len(relayed) /\ since'[d] = since[d]
      BY <1>1, <2>2 DEF IInv, TypeOK, Exact, Missing
    <3> QED
      BY <3>1
  <2> QED
    BY <2>1, <2>2
<1> QED
  BY <1>6, <1>7, <1>8, <1>9 DEF IInv

\* ... and lets one go.
LEMMA UnregisterOK ==
    ASSUME IInv, NEW c \in Clients, Unregister(c)
    PROVE  IInv'
<1>1. /\ hub = "running" /\ todo = {}
      /\ clients' = clients \ {c}
      /\ reader' = [reader EXCEPT ![c] = "closing"]
      /\ UNCHANGED <<made, ch, hub, msg, todo, relayed, stopped, serve, writer, conn, send,
                     written, since>>
  BY DEF Unregister, Selecting, events
<1>2. closed' \in [Clients -> BOOLEAN]
      /\ \A d \in Clients : closed'[d] <=> closed[d] \/ d \in {c} \cap clients
  BY CloseFacts DEF Unregister, IInv, TypeOK
<1>3. \A d \in Clients : Stream(d)' = Stream(d)
  BY <1>1 DEF Stream
<1>4. TypeOK'
  BY <1>1, <1>2 DEF IInv, TypeOK
<1>5. RegisteredAreOpen' /\ Untouched' /\ HandingOut'
  BY <1>1, <1>2 DEF IInv, TypeOK, RegisteredAreOpen, Untouched, HandingOut
<1>6. AllGapFree'
  BY <1>1, <1>3 DEF IInv, AllGapFree, GapFree
<1>7. Exact'
  BY <1>1, <1>3 DEF IInv, TypeOK, Exact, Count, Missing
<1> QED
  BY <1>4, <1>5, <1>6, <1>7 DEF IInv

\* Everyone registered misses the new request that run has just taken.
LEMMA TakeOK ==
    ASSUME IInv, NEW k \in Kinds, Take(k)
    PROVE  IInv'
<1> DEFINE n == Head(ch[k])
<1>1. /\ hub = "running" /\ todo = {} /\ ch[k] # <<>>
      /\ msg' = [kind |-> k, n |-> n]
      /\ ch' = [ch EXCEPT ![k] = Tail(ch[k])]
      /\ todo' = clients
      /\ relayed' = IF k = New THEN Append(relayed, n) ELSE relayed
      /\ UNCHANGED <<made, hub, clients, stopped, serve, reader, writer, conn, send, closed,
                     written, since>>
  BY DEF Take, Selecting, pumps, queues
<1>2. /\ ch[k] \in Seq(Nat) /\ n \in Nat /\ Tail(ch[k]) \in Seq(Nat)
      /\ Len(Tail(ch[k])) <= Len(ch[k]) /\ Len(Tail(ch[k])) \in Nat /\ Len(ch[k]) \in Nat
  BY <1>1 DEF IInv, TypeOK
<1>3. /\ relayed \in Seq(Nat) /\ Len(relayed) \in Nat
      /\ Append(relayed, n) \in Seq(Nat) /\ Append(relayed, n) # <<>>
      /\ Len(Append(relayed, n)) = Len(relayed) + 1
      /\ Append(relayed, n)[Len(relayed) + 1] = n
  <2>1. relayed \in Seq(Nat) /\ n \in Nat
    BY <1>2 DEF IInv, TypeOK
  <2> HIDE DEF n
  <2> QED
    BY <2>1
<1> HIDE DEF n
<1>4. msg' \in Event /\ msg'.kind = k /\ msg'.n = n
  BY <1>1, <1>2 DEF Event
<1>5. \A d \in Clients : Stream(d)' = Stream(d)
  BY <1>1 DEF Stream
<1>6. TypeOK'
  <2>1. ch' \in [Kinds -> Seq(Nat)] /\ \A j \in Kinds : Len(ch'[j]) <= ChCap[j]
    <3>1. \A j \in Kinds : ch'[j] = IF j = k THEN Tail(ch[k]) ELSE ch[j]
      BY <1>1 DEF IInv, TypeOK
    <3>2. \A j \in Kinds : ChCap[j] \in Nat /\ Len(ch[j]) <= ChCap[j] /\ ch[j] \in Seq(Nat)
      BY HubAssumption DEF IInv, TypeOK
    <3>3. ch' \in [Kinds -> Seq(Nat)]
      BY <1>1, <1>2 DEF IInv, TypeOK
    <3>4. ASSUME NEW j \in Kinds PROVE Len(ch'[j]) <= ChCap[j]
      <4>1. CASE j = k
        <5>1. ch'[j] = Tail(ch[k]) /\ Len(ch[k]) <= ChCap[j] /\ ChCap[j] \in Nat
          BY <3>1, <3>2, <4>1
        <5> HIDE DEF IInv
        <5> QED
          BY <1>2, <5>1, SMT
      <4>2. CASE j # k
        BY <3>1, <3>2, <4>2, Zenon
      <4> QED
        BY <4>1, <4>2
    <3> QED
      BY <3>3, <3>4, Zenon
  <2>2. relayed' \in Seq(Nat)
    BY <1>1, <1>3
  <2> QED
    BY <1>1, <1>4, <2>1, <2>2 DEF IInv, TypeOK
<1>7. RegisteredAreOpen' /\ Untouched' /\ HandingOut'
  BY <1>1, <1>3, <1>4 DEF IInv, RegisteredAreOpen, Untouched, HandingOut
<1>8. AllGapFree'
  <2> SUFFICES ASSUME NEW d \in Clients
               PROVE  since[d] <= Len(relayed') /\ GapFree(Stream(d), since[d], relayed')
    BY <1>1, <1>5 DEF AllGapFree, GapFree
  <2>1. /\ since[d] <= Len(relayed) /\ GapFree(Stream(d), since[d], relayed)
        /\ since[d] \in Nat /\ Stream(d) \in Seq(Event)
    BY StreamType DEF IInv, AllGapFree
  <2>2. GapFree(Stream(d), since[d], Append(relayed, n))
    BY <1>2, <1>3, <2>1, GapFreeGrows
  <2> QED
    BY <1>1, <1>3, <2>1, <2>2
<1>9. Exact'
  <2> SUFFICES ASSUME NEW d \in clients, writer[d] # "done"
               PROVE  since[d] + Count(d) + (IF k = New THEN 1 ELSE 0) = Len(relayed')
    BY <1>1, <1>4, <1>5 DEF Exact, Count, Missing, IInv, TypeOK
  <2>1. since[d] + Count(d) + 0 = Len(relayed) /\ since[d] \in Nat /\ Count(d) \in Nat
    BY <1>1, StreamType DEF IInv, TypeOK, Exact, Missing
  <2> QED
    BY <1>1, <1>3, <2>1
<1> QED
  BY <1>6, <1>7, <1>8, <1>9 DEF IInv

\* The client gets the event; or its channel is full, and then it is let go if the
\* event is a new request, and just misses it otherwise.
LEMMA DeliverOK ==
    ASSUME IInv, NEW c \in Clients, Deliver(c)
    PROVE  IInv'
<1>1. /\ c \in todo /\ todo' = todo \ {c} /\ c \in clients
      /\ UNCHANGED <<made, ch, hub, msg, relayed, stopped, serve, reader, writer, conn,
                     written, since>>
  BY DEF Deliver, events, pumps, IInv, TypeOK
<1>2. /\ hub = "running" /\ ~closed[c] /\ serve[c] \notin {"new", "register"}
      /\ msg \in Event
      /\ msg.kind = New => relayed # <<>> /\ msg.n = relayed[Len(relayed)]
  BY <1>1 DEF IInv, TypeOK, HandingOut, RegisteredAreOpen, Untouched
<1>3. CASE Len(send[c]) < SendCap /\ send' = [send EXCEPT ![c] = Append(@, msg)]
           /\ UNCHANGED <<clients, closed>>
  <2>1. /\ send[c] \in Seq(Event) /\ Len(send[c]) \in Nat /\ SendCap \in Nat
        /\ Append(send[c], msg) \in Seq(Event)
        /\ Len(Append(send[c], msg)) = Len(send[c]) + 1
    BY <1>2, HubAssumption DEF IInv, TypeOK
  <2>2. /\ send'[c] = Append(send[c], msg)
        /\ \A d \in Clients : d # c => send'[d] = send[d]
        /\ send' \in [Clients -> Seq(Event)]
    BY <1>3, <2>1 DEF IInv, TypeOK
  <2>3. /\ \A d \in Clients : d # c => Stream(d)' = Stream(d)
        /\ writer[c] = "done" => Stream(c)' = Stream(c)
        /\ writer[c] # "done" => Stream(c)' = Append(Stream(c), msg)
    <3>1. \A d \in Clients : d # c => Stream(d)' = Stream(d)
      BY <1>1, <2>2 DEF Stream
    <3>2. writer[c] = "done" => Stream(c)' = Stream(c)
      BY <1>1 DEF Stream
    <3>3. ASSUME writer[c] # "done" PROVE Stream(c)' = Append(Stream(c), msg)
      <4>1. Stream(c) = written[c] \o send[c] /\ Stream(c)' = written[c] \o Append(send[c], msg)
        BY <1>1, <2>2, <3>3 DEF Stream
      <4>2. written[c] \in Seq(Event)
        BY DEF IInv, TypeOK
      <4>3. written[c] \o Append(send[c], msg) = Append(written[c] \o send[c], msg)
        <5>1. msg \in Event /\ send[c] \in Seq(Event)
          BY <1>2, <2>1
        <5> QED
          BY <4>2, <5>1, PutLast, Zenon
      <4> QED
        BY <4>1, <4>3, Zenon
    <3> QED
      BY <3>1, <3>2, <3>3
  <2>4. /\ Stream(c) \in Seq(Event) /\ since[c] \in Nat /\ relayed \in Seq(Nat)
        /\ Count(c) \in Nat /\ Len(relayed) \in Nat
    BY StreamType DEF IInv
  <2>5. ASSUME writer[c] # "done"
        PROVE  since[c] + Count(c) + (IF msg.kind = New THEN 1 ELSE 0) = Len(relayed)
    BY <1>1, <2>5 DEF IInv, Exact, Missing
  <2>6. TypeOK'
    <3>1. \A d \in Clients : Len(send'[d]) <= SendCap
      BY <1>3, <2>1, <2>2 DEF IInv, TypeOK
    <3> QED
      BY <1>1, <1>3, <2>2, <3>1 DEF IInv, TypeOK
  <2>7. RegisteredAreOpen' /\ Untouched' /\ HandingOut'
    BY <1>1, <1>2, <1>3, <2>2 DEF IInv, TypeOK, RegisteredAreOpen, Untouched, HandingOut
  <2>8. AllGapFree'
    <3> SUFFICES ASSUME NEW d \in Clients
                 PROVE  since[d] <= Len(relayed) /\ GapFree(Stream(d)', since[d], relayed)
      BY <1>1 DEF AllGapFree, GapFree
    <3>1. since[d] <= Len(relayed) /\ GapFree(Stream(d), since[d], relayed)
      BY DEF IInv, AllGapFree
    <3>2. CASE d = c /\ writer[c] # "done"
      <4>1. msg.kind = New => /\ since[c] + Rank(Stream(c), Len(Stream(c))) + 1 = Len(relayed)
                              /\ msg.n = relayed[Len(relayed)]
        BY <1>2, <2>5, <3>2 DEF Count
      <4>2. GapFree(Append(Stream(c), msg), since[c], relayed)
        BY <1>2, <2>4, <3>1, <3>2, <4>1, GapFreeAppend
      <4> QED
        BY <2>3, <3>1, <3>2, <4>2
    <3> QED
      BY <2>3, <3>1, <3>2
  <2>9. Exact'
    <3> SUFFICES ASSUME NEW d \in clients, writer[d] # "done"
                 PROVE  since[d] + Rank(Stream(d)', Len(Stream(d)'))
                          + (IF d \in todo \ {c} /\ msg.kind = New THEN 1 ELSE 0) = Len(relayed)
      BY <1>1, <1>3 DEF Exact, Count, Missing, Rank, NewUpTo
    <3>1. d \in Clients
      BY DEF IInv, TypeOK
    <3>2. CASE d = c
      <4>1. Stream(d)' = Append(Stream(c), msg)
        BY <2>3, <3>2
      <4>2. /\ Len(Append(Stream(c), msg)) = Len(Stream(c)) + 1
            /\ Rank(Append(Stream(c), msg), Len(Stream(c)) + 1)
                 = Count(c) + (IF msg.kind = New THEN 1 ELSE 0)
        BY <1>2, <2>4, RankAppend DEF Count
      <4> QED
        BY <2>4, <2>5, <3>2, <4>1, <4>2
    <3>3. CASE d # c
      <4>1. Stream(d)' = Stream(d)
        BY <2>3, <3>1, <3>3
      <4>2. since[d] + Count(d) + Missing(d) = Len(relayed)
        BY DEF IInv, Exact
      <4> QED
        BY <3>3, <4>1, <4>2 DEF Missing, Count
    <3> QED
      BY <3>2, <3>3
  <2> QED
    BY <2>6, <2>7, <2>8, <2>9 DEF IInv
<1>4. CASE Len(send[c]) >= SendCap /\ UNCHANGED send
           /\ IF msg.kind = New THEN Close({c}) /\ clients' = clients \ {c}
                                ELSE UNCHANGED <<clients, closed>>
  <2>1. /\ closed' \in [Clients -> BOOLEAN]
        /\ \A d \in Clients : closed'[d] => closed[d] \/ (d = c /\ msg.kind = New)
    <3>1. CASE msg.kind = New
      BY <1>4, <3>1, CloseFacts DEF IInv, TypeOK
    <3>2. CASE msg.kind # New
      BY <1>4, <3>2 DEF IInv, TypeOK
    <3> QED
      BY <3>1, <3>2
  <2>2. clients' = IF msg.kind = New THEN clients \ {c} ELSE clients
    BY <1>4
  <2>3. \A d \in Clients : Stream(d)' = Stream(d)
    BY <1>1, <1>4 DEF Stream
  <2>4. TypeOK'
    BY <1>1, <1>4, <2>1, <2>2 DEF IInv, TypeOK
  <2>5. RegisteredAreOpen' /\ Untouched' /\ HandingOut'
    BY <1>1, <1>2, <1>4, <2>1, <2>2 DEF IInv, TypeOK, RegisteredAreOpen, Untouched, HandingOut
  <2>6. AllGapFree'
    BY <1>1, <2>3 DEF IInv, AllGapFree, GapFree
  <2>7. Exact'
    <3> SUFFICES ASSUME NEW d \in clients', writer[d] # "done"
                 PROVE  since[d] + Count(d)
                          + (IF d \in todo \ {c} /\ msg.kind = New THEN 1 ELSE 0) = Len(relayed)
      BY <1>1, <2>2, <2>3 DEF Exact, Count, Missing, IInv, TypeOK
    <3>1. d \in clients /\ (d = c => msg.kind # New)
      BY <2>2
    <3>2. since[d] + Count(d) + Missing(d) = Len(relayed)
      BY <3>1 DEF IInv, Exact
    <3> QED
      BY <3>1, <3>2 DEF Missing
  <2> QED
    BY <2>4, <2>5, <2>6, <2>7 DEF IInv
<1> QED
  BY <1>3, <1>4 DEF Deliver

\* writePump: what it writes was in the channel, and when it leaves, an end of the
\* stream is cut off.
LEMMA WriterOK ==
    ASSUME IInv, NEW c \in Clients, WritePump(c)
    PROVE  IInv'
<1> DEFINE w == written[c]
           s == send[c]
<1>1. /\ writer[c] = "running"
      /\ UNCHANGED <<made, ch, hub, clients, msg, todo, relayed, stopped, serve, reader, closed, since>>
  BY DEF WritePump, WriteOk, WriteFails, SeesClosed, PingFails, WriterLeaves, events, loop, pumps
<1>2. /\ w \in Seq(Event) /\ s \in Seq(Event) /\ Stream(c) = w \o s
      /\ since[c] \in Nat /\ relayed \in Seq(Nat) /\ serve[c] = "done"
  BY <1>1 DEF IInv, TypeOK, Stream, Untouched
<1>3. s # <<>> => /\ Head(s) \in Event /\ Tail(s) \in Seq(Event)
                  /\ Append(w, Head(s)) \in Seq(Event)
                  /\ Len(Tail(s)) <= Len(s) /\ Len(Tail(s)) \in Nat /\ Len(s) \in Nat
  BY <1>2
<1> HIDE DEF w, s
<1>4. \/ /\ s # <<>> /\ writer' = writer /\ conn' = conn
         /\ send' = [send EXCEPT ![c] = Tail(s)]
         /\ written' = [written EXCEPT ![c] = Append(w, Head(s))]
      \/ /\ writer' = [writer EXCEPT ![c] = "done"] /\ conn' = [conn EXCEPT ![c] = "closed"]
         /\ written' = written
         /\ \/ send' = send
            \/ s # <<>> /\ send' = [send EXCEPT ![c] = Tail(s)]
  BY DEF WritePump, WriteOk, WriteFails, SeesClosed, PingFails, WriterLeaves, pumps, w, s
<1>5. \A d \in Clients : d # c =>
        /\ Stream(d)' = Stream(d) /\ send'[d] = send[d] /\ written'[d] = written[d]
        /\ writer'[d] = writer[d]
  BY <1>4 DEF Stream, IInv, TypeOK
<1>6. \/ Stream(c)' = Stream(c) /\ writer'[c] = "running"
      \/ Stream(c)' = w /\ writer'[c] = "done"
  <2>1. CASE writer' = writer
    <3>1. s # <<>> /\ send'[c] = Tail(s) /\ written'[c] = Append(w, Head(s))
      BY <1>1, <1>4, <2>1 DEF IInv, TypeOK
    <3>2. Stream(c)' = Append(w, Head(s)) \o Tail(s)
      BY <1>1, <2>1, <3>1 DEF Stream
    <3>3. Append(w, Head(s)) \o Tail(s) = w \o s
      BY <1>2, <3>1, Concats
    <3> QED
      BY <1>1, <1>2, <2>1, <3>2, <3>3, Zenon
  <2>2. CASE writer' # writer
    <3>1. writer'[c] = "done" /\ written'[c] = w
      BY <1>4, <2>2 DEF IInv, TypeOK, w
    <3>2. Stream(c)' = w \o <<>>
      BY <3>1 DEF Stream
    <3>3. w \o <<>> = w
      BY <1>2, Concats
    <3> QED
      BY <3>1, <3>2, <3>3, Zenon
  <2> QED
    BY <2>1, <2>2
<1>7. TypeOK'
  <2>1. send' \in [Clients -> Seq(Event)] /\ \A d \in Clients : Len(send'[d]) <= SendCap
    <3>1. \A d \in Clients : Len(send[d]) <= SendCap
      BY DEF IInv, TypeOK
    <3>2. CASE send' = send
      BY <3>1, <3>2 DEF IInv, TypeOK
    <3>3. CASE s # <<>> /\ send' = [send EXCEPT ![c] = Tail(s)]
      <4>1. send' \in [Clients -> Seq(Event)]
        BY <1>3, <3>3 DEF IInv, TypeOK
      <4>2. send'[c] = Tail(s)
        BY <3>3 DEF IInv, TypeOK
      <4>3. Len(Tail(s)) <= SendCap /\ SendCap \in Nat
        BY <1>3, <3>1, <3>3, HubAssumption DEF s
      <4> QED
        BY <1>5, <3>1, <4>1, <4>2, <4>3
    <3> QED
      BY <1>4, <3>2, <3>3
  <2>2. written' \in [Clients -> Seq(Event)]
    BY <1>3, <1>4 DEF IInv, TypeOK
  <2>3. /\ writer' \in [Clients -> {"none", "running", "done"}]
        /\ conn' \in [Clients -> {"open", "dead", "closed"}]
    BY <1>4 DEF IInv, TypeOK
  <2> QED
    BY <1>1, <2>1, <2>2, <2>3 DEF IInv, TypeOK
<1>8. RegisteredAreOpen' /\ Untouched' /\ HandingOut'
  BY <1>1, <1>2, <1>5 DEF IInv, RegisteredAreOpen, Untouched, HandingOut
<1>9. AllGapFree'
  <2> SUFFICES ASSUME NEW d \in Clients
               PROVE  since[d] <= Len(relayed) /\ GapFree(Stream(d)', since[d], relayed)
    BY <1>1 DEF AllGapFree, GapFree
  <2>1. since[d] <= Len(relayed) /\ GapFree(Stream(d), since[d], relayed)
    BY DEF IInv, AllGapFree
  <2>2. CASE d = c /\ Stream(c)' = w
    <3>1. GapFree(w \o s, since[c], relayed)
      BY <1>2, <2>1, <2>2
    <3>2. GapFree(w, since[c], relayed)
      BY <1>2, <3>1, GapFreePrefix, Zenon
    <3> QED
      BY <2>1, <2>2, <3>2
  <2> QED
    BY <1>5, <1>6, <2>1, <2>2
<1>10. Exact'
  <2> SUFFICES ASSUME NEW d \in clients, writer'[d] # "done"
               PROVE  since[d] + Rank(Stream(d)', Len(Stream(d)')) + Missing(d) = Len(relayed)
    BY <1>1 DEF Exact, Count, Missing, Rank, NewUpTo
  <2>1. d \in Clients
    BY DEF IInv, TypeOK
  <2>2. Stream(d)' = Stream(d) /\ writer[d] # "done"
    BY <1>1, <1>5, <1>6, <2>1
  <2> QED
    BY <2>2 DEF IInv, Exact, Count
<1> QED
  BY <1>7, <1>8, <1>9, <1>10 DEF IInv

\* Nothing moves.
LEMMA StutterOK == IInv /\ UNCHANGED vars => IInv'
<1> SUFFICES ASSUME IInv, UNCHANGED vars PROVE IInv'
  OBVIOUS
<1> USE DEF vars, events, loop, pumps, queues
<1>1. TypeOK' /\ RegisteredAreOpen' /\ Untouched' /\ HandingOut'
  BY DEF IInv, TypeOK, RegisteredAreOpen, Untouched, HandingOut
<1>2. AllGapFree' /\ Exact'
  BY SameStreams DEF IInv, TypeOK
<1> QED
  BY <1>1, <1>2 DEF IInv

-----------------------------------------------------------------------------
(***************************************************************************)
(* The theorems                                                            *)
(***************************************************************************)
\* Producers, hub, handlers, both pumps of every browser and the browsers.
LEMMA StepOK == IInv /\ [Next]_vars => IInv'
<1> SUFFICES ASSUME IInv, Next PROVE IInv'
  BY StutterOK
<1>1. New \in Kinds
  BY HubAssumption
<1>2. CASE \E k \in Kinds : Take(k)
  BY <1>2, TakeOK
<1>3. CASE \E c \in Clients : Register(c) \/ Unregister(c) \/ Deliver(c)
  BY <1>3, RegisterOK, UnregisterOK, DeliverOK
<1>4. CASE \E c \in Clients : WritePump(c)
  BY <1>4, WriterOK
<1>5. CASE \E c \in Clients : Connect(c) \/ Rejected(c) \/ StartPumps(c) \/ PeerDies(c) \/ ReadPump(c)
  BY <1>1, <1>5, QuietOK
<1>6. CASE Stop \/ Gone \/ \E k \in Kinds : Broadcast(k)
  BY <1>1, <1>6, QuietOK
<1> QED
  BY <1>2, <1>3, <1>4, <1>5, <1>6 DEF Next, Run

\* For any number of browsers, of events and of room for them: run hands out what
\* it has taken last, and a stream plus what is still to be handed out is what
\* was taken since the registration.
THEOREM Invariance == Spec => []IInv
BY InitOK, StepOK, PTL DEF Spec

\* ws.go:92-104: the types, and no browser gets a new request after one that it has
\* not got; what it misses is at the end.
THEOREM Safety == Spec => []Inv
<1>1. IInv => NewRequestsGapFree
  <2> SUFFICES ASSUME IInv, NEW c \in Clients, NEW i \in DOMAIN Stream(c),
                      Stream(c)[i].kind = New
               PROVE  /\ since[c] + Rank(Stream(c), i) <= Len(relayed)
                      /\ Stream(c)[i].n = relayed[since[c] + Rank(Stream(c), i)]
    BY DEF NewRequestsGapFree
  <2>1. Stream(c) \in Seq(Event)
    BY StreamType DEF IInv
  <2>2. i \in 1 .. Len(Stream(c))
    BY <2>1
  <2> QED
    BY <2>2 DEF IInv, AllGapFree, GapFree
<1>2. IInv => Inv
  BY <1>1 DEF IInv, Inv
<1> QED
  BY <1>2, Invariance, PTL

\* ws.go:92, :94 and :142: a client that stays registered has got, or has in its channel,
\* every new request since then; a slow one is let go instead of missing one, and
\* only then, or when it leaves, its channel is closed: no send meets a closed one.
THEOREM NobodyFallsBehind == Spec => []RegisteredAreServed
<1>1. IInv => RegisteredAreUpToDate
  <2> SUFFICES ASSUME IInv, NEW c \in clients \ todo, writer[c] # "done"
               PROVE  since[c] + Rank(Stream(c), Len(Stream(c))) = Len(relayed)
    BY DEF RegisteredAreUpToDate
  <2>1. since[c] + Count(c) + Missing(c) = Len(relayed)
    BY DEF IInv, Exact
  <2>2. Missing(c) = 0
    BY DEF Missing
  <2>3. c \in Clients
    BY DEF IInv, TypeOK
  <2>4. since[c] \in Nat /\ Count(c) \in Nat
    BY <2>3, StreamType DEF IInv
  <2> QED
    BY <2>1, <2>2, <2>4 DEF Count
<1>2. IInv => RegisteredAreServed
  BY <1>1 DEF IInv, RegisteredAreServed
<1> QED
  BY <1>2, Invariance, PTL
=============================================================================
