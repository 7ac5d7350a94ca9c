----------------------- MODULE AsyncWriterPoolProofs ------------------------
(***************************************************************************)
(* Theorems about AsyncWriterPool for any number of requests and workers   *)
(* and any capacity, chunk size and number of attempts: no captured        *)
(* request vanishes between the ring and the database, a Stop leaves       *)
(* nothing behind, and the pool implements CaptureSink.                    *)
(***************************************************************************)
EXTENDS AsyncWriterPool, TLAPS

-----------------------------------------------------------------------------
(***************************************************************************)
(* Queues of requests, seen as sets of distinct elements                   *)
(***************************************************************************)
\* e is somewhere in the queue s.
In(s, e) == \E i \in 1..Len(s) : s[i] = e

\* No element is in s twice.
Distinct(s) == \A i, j \in 1..Len(s) : s[i] = s[j] => i = j

\* A queue built by Append holds one element more, at its end.
LEMMA AppendIn ==
    ASSUME NEW S, NEW s \in Seq(S), NEW e \in S
    PROVE  /\ Append(s, e) \in Seq(S)
           /\ Append(s, e) # <<>>
           /\ Len(Append(s, e)) = Len(s) + 1
           /\ \A x : In(Append(s, e), x) <=> In(s, x) \/ x = e
           /\ Distinct(s) /\ ~In(s, e) => Distinct(Append(s, e))
<1>1. /\ Append(s, e) \in Seq(S)
      /\ Append(s, e) # <<>>
      /\ Len(Append(s, e)) = Len(s) + 1
      /\ \A i \in 1..Len(s) : Append(s, e)[i] = s[i]
      /\ Append(s, e)[Len(s) + 1] = e
  OBVIOUS
<1>2. \A x : In(Append(s, e), x) <=> In(s, x) \/ x = e
  BY <1>1 DEF In
<1>3. Distinct(s) /\ ~In(s, e) => Distinct(Append(s, e))
  BY <1>1 DEF In, Distinct
<1>4. QED
  BY <1>1, <1>2, <1>3

\* Taking the head off a queue of distinct elements leaves the others.
LEMMA TailIn ==
    ASSUME NEW S, NEW s \in Seq(S), s # <<>>
    PROVE  /\ Head(s) \in S /\ In(s, Head(s))
           /\ Tail(s) \in Seq(S) /\ Len(Tail(s)) = Len(s) - 1
           /\ Distinct(s) => Distinct(Tail(s))
           /\ \A x : In(Tail(s), x) => In(s, x)
           /\ Distinct(s) => \A x : In(Tail(s), x) <=> In(s, x) /\ x # Head(s)
<1>1. /\ Len(s) \in Nat /\ Len(s) >= 1
      /\ Head(s) = s[1] /\ s[1] \in S
      /\ Tail(s) \in Seq(S) /\ Len(Tail(s)) = Len(s) - 1
      /\ \A i \in 1..Len(Tail(s)) : Tail(s)[i] = s[i + 1]
  OBVIOUS
<1>2. In(s, Head(s))
  BY <1>1 DEF In
<1>3. \A x : In(Tail(s), x) => In(s, x)
  <2>1. SUFFICES ASSUME NEW x, NEW i \in 1..Len(Tail(s)), Tail(s)[i] = x
                 PROVE  In(s, x)
    BY DEF In
  <2>2. i + 1 \in 1..Len(s) /\ s[i + 1] = x
    BY <1>1, <2>1
  <2>3. QED
    BY <2>2 DEF In
<1>4. ASSUME Distinct(s)
      PROVE  Distinct(Tail(s)) /\ ~In(Tail(s), Head(s))
  <2>1. \A i \in 1..Len(Tail(s)) : i + 1 \in 1..Len(s) /\ Tail(s)[i] = s[i + 1]
    BY <1>1
  <2>2. Distinct(Tail(s))
    BY <1>1, <1>4, <2>1 DEF Distinct
  <2>3. ~In(Tail(s), Head(s))
    BY <1>1, <1>4, <2>1 DEF Distinct, In
  <2>4. QED
    BY <2>2, <2>3
<1>5. \A x : In(s, x) => x = Head(s) \/ In(Tail(s), x)
  <2>1. SUFFICES ASSUME NEW x, NEW i \in 1..Len(s), s[i] = x, x # Head(s)
                 PROVE  In(Tail(s), x)
    BY DEF In
  <2>2. i - 1 \in 1..Len(Tail(s)) /\ Tail(s)[i - 1] = x
    BY <1>1, <2>1
  <2>3. QED
    BY <2>2 DEF In
<1>6. QED
  BY <1>1, <1>2, <1>3, <1>4, <1>5

\* Nothing is in the empty queue.
LEMMA EmptyIn == Distinct(<<>>) /\ \A x : ~In(<<>>, x)
  BY DEF In, Distinct

\* What is in a queue of requests is a request.
LEMMA InType ==
    ASSUME NEW S, NEW s \in Seq(S), NEW x, In(s, x)
    PROVE  x \in S /\ s # <<>>
  BY DEF In

-----------------------------------------------------------------------------
(***************************************************************************)
(* The inductive invariant                                                 *)
(***************************************************************************)
\* What can have become of a request: nothing has been done with it yet; its
\* save was tried, and has worked or not; or it is announced or given up.
Fresh(r) == r \notin Stored /\ r \notin lost /\ announced[r] = 0

Tried(r) == announced[r] = 0 /\ (r \in Stored <=> r \notin lost)

Over(r) == IF r \in Stored THEN r \notin lost /\ announced[r] = 1
                           ELSE r \in lost /\ announced[r] = 0

ChunkLen(f) == Min2(ChunkSize, Len(batch[f]))

Holding == {"flush", "backoff", "fallback", "announce"}

\* A request is at one position of the ring or of one batch, and was accepted.
OnePlace ==
    /\ Distinct(q)
    /\ \A f \in Flushers : Distinct(batch[f])
    /\ \A f, g \in Flushers, r \in Reqs : In(batch[f], r) /\ In(batch[g], r) => f = g
    /\ \A f \in Flushers, r \in Reqs : ~(In(q, r) /\ In(batch[f], r))
    /\ \A r \in Reqs : In(q, r) => r \in Accepted \ dropped
    /\ \A f \in Flushers, r \in Reqs : In(batch[f], r) => r \in Accepted \ dropped

\* How far f is with its batch: the fallback saves and the announcements go
\* through the chunk one by one, and what is behind the chunk waits.
Progress(f) ==
    \A i \in 1..Len(batch[f]) :
        LET r == batch[f][i] IN
          /\ i > ChunkLen(f) => Fresh(r)
          /\ i <= ChunkLen(f) =>
               /\ phase[f] \in {"flush", "backoff"} => Fresh(r)
               /\ phase[f] = "fallback" => IF i <= pos[f] THEN Tried(r) ELSE Fresh(r)
               /\ phase[f] = "announce" => IF i <= pos[f] THEN Over(r) ELSE Tried(r)

\* Outside the batches a request is untouched or settled.
Outside ==
    /\ \A r \in Reqs : In(q, r) \/ r \in dropped \/ r \notin Accepted => Fresh(r)
    /\ \A r \in Accepted : \/ r \in dropped \/ In(q, r) \/ Over(r)
                           \/ \E f \in Flushers : In(batch[f], r)
    /\ dropped \subseteq Accepted /\ refused \subseteq pushed

\* Ids, and the field req.ID of every request that has a row.
Rows ==
    /\ \A row \in rows : row.id <= lastId /\ reqId[row.req] = row.id
    /\ \A r \in Reqs : reqId[r] > 0 => [id |-> reqId[r], req |-> r] \in rows
    /\ SavedAtMostOnce

\* Where the flushers are, and what they hold there.
Places ==
    /\ pos \in [Flushers -> Nat] /\ tries \in [Flushers -> Nat]
    /\ \A f \in Flushers : batch[f] # <<>> <=> phase[f] \in Holding
    /\ \A f \in Flushers : IF phase[f] \in {"fallback", "announce"}
                           THEN pos[f] < ChunkLen(f) ELSE pos[f] = 0
    /\ \A w \in Workers : phase[w] \in Holding \cup {"select", "exited", "pop", "done"}
    /\ phase[Stopper] \notin {"select", "exited"}

\* Stop goes on step by step: no worker is left when it takes the ring out
\* itself, and nothing comes to a ring that is stopped.
Stopping ==
    /\ stopCh <=> phase[Stopper] # "new"
    /\ phase[Stopper] \in {"new", "closed"} \/ stopped
    /\ phase[Stopper] \notin {"new", "closed", "waiting"} =>
          \A w \in Workers : phase[w] = "exited"
    /\ phase[Stopper] \in Holding \cup {"done", "returned"} => q = <<>>

IInv ==
    /\ TypeOK
    /\ OnePlace
    /\ \A f \in Flushers : Progress(f)
    /\ Outside
    /\ Rows
    /\ Places
    /\ Stopping

TableType ==
    /\ rows \subseteq [id : Nat \ {0}, req : Reqs]
    /\ lastId \in Nat
    /\ reqId \in [Reqs -> Nat]

-----------------------------------------------------------------------------
(***************************************************************************)
(* One transaction, and one chunk                                          *)
(***************************************************************************)
\* SaveBatch of a chunk, and Save of a request, add one row for each request,
\* with an id that is new and that req.ID then holds.
LEMMA InsertFacts ==
    ASSUME TableType, Rows,
           NEW s \in Seq(Reqs), s # <<>>, Distinct(s),
           \A i \in 1..Len(s) : s[i] \notin Stored,
           Insert(s, 1..Len(s))
    PROVE  /\ TableType' /\ Rows'
           /\ \A r \in Reqs : r \in Stored' <=> r \in Stored \/ In(s, r)
           /\ rows \subseteq rows' /\ rows' \ rows # {}
           /\ \A y \in rows' \ rows : y.req \in Reqs /\ In(s, y.req)
           /\ \A x \in rows, y \in rows' \ rows : x.id < y.id
<1> DEFINE row(i) == [id |-> lastId + i, req |-> s[i]]
<1>1. rows' = rows \cup {row(i) : i \in 1..Len(s)} /\ lastId' = lastId + Len(s)
  BY DEF Insert
<1>2. /\ Len(s) \in Nat \ {0} /\ lastId \in Nat
      /\ \A i \in 1..Len(s) : /\ s[i] \in Reqs /\ In(s, s[i])
                              /\ row(i) \in [id : Nat \ {0}, req : Reqs]
                              /\ row(i).id = lastId + i /\ row(i).req = s[i]
  BY DEF In, TableType
<1>3. \A y \in rows' \ rows : \E i \in 1..Len(s) : y = row(i)
  BY <1>1
<1>4. \A i \in 1..Len(s) : row(i) \in rows' \ rows
  BY <1>1, <1>2 DEF Stored
<1> HIDE DEF row
<1>5. \A x \in rows, y \in rows' \ rows : x.id < y.id
  BY <1>2, <1>3 DEF Rows, TableType
<1>6. \A r \in Reqs : r \in Stored' <=> r \in Stored \/ In(s, r)
  <2>1. ASSUME NEW r \in Reqs, In(s, r) PROVE r \in Stored'
    BY <1>2, <1>4, <2>1 DEF In, Stored
  <2>2. ASSUME NEW r \in Reqs, r \in Stored PROVE r \in Stored'
    BY <1>1, <2>2 DEF Stored
  <2>3. ASSUME NEW r \in Reqs, r \in Stored', r \notin Stored PROVE In(s, r)
    BY <1>2, <1>3, <2>3 DEF Stored
  <2> QED
    BY <2>1, <2>2, <2>3
<1>7. /\ reqId' \in [Reqs -> Nat]
      /\ \A r \in Reqs : ~In(s, r) => reqId'[r] = reqId[r]
      /\ \A i \in 1..Len(s) : reqId'[s[i]] = lastId + i
  <2>1. reqId' = [r \in Reqs |-> IF \E i \in 1..Len(s) : s[i] = r
                                THEN lastId + (CHOOSE i \in 1..Len(s) : s[i] = r)
                                ELSE reqId[r]]
    BY DEF Insert
  <2>2. ASSUME NEW i \in 1..Len(s)
        PROVE  (CHOOSE j \in 1..Len(s) : s[j] = s[i]) = i
    BY DEF Distinct
  <2>3. \A i \in 1..Len(s) : reqId'[s[i]] = lastId + i
    BY <1>2, <2>1, <2>2
  <2>4. \A r \in Reqs : ~In(s, r) => reqId'[r] = reqId[r]
    BY <2>1 DEF In
  <2>5. \A r \in Reqs : reqId'[r] \in Nat
    <3>1. SUFFICES ASSUME NEW r \in Reqs PROVE reqId'[r] \in Nat
      OBVIOUS
    <3>2. CASE In(s, r)
      <4>1. PICK i \in 1..Len(s) : s[i] = r
        BY <3>2 DEF In
      <4>2. reqId'[r] = lastId + i
        BY <2>3, <4>1
      <4> QED
        BY <1>2, <4>2
    <3>3. CASE ~In(s, r)
      BY <2>4, <3>3 DEF TableType
    <3> QED
      BY <3>2, <3>3
  <2> QED
    BY <2>1, <2>3, <2>4, <2>5
<1>8. TableType'
  <2>1. \A y \in rows' : y \in [id : Nat \ {0}, req : Reqs]
    BY <1>2, <1>3 DEF TableType
  <2> QED
    BY <1>1, <1>2, <1>7, <2>1 DEF TableType
<1>9. Rows'
  <2>1. \A x \in rows' : x.id <= lastId' /\ reqId'[x.req] = x.id
    <3>1. ASSUME NEW x \in rows PROVE x.id <= lastId' /\ reqId'[x.req] = x.id
      <4>1. x.req \in Reqs /\ x.id \in Nat /\ x.req \in Stored
        BY DEF TableType, Stored
      <4>2. ~In(s, x.req)
        BY <4>1 DEF In
      <4> QED
        BY <1>1, <1>2, <1>7, <4>1, <4>2 DEF Rows
    <3>2. ASSUME NEW x \in rows' \ rows PROVE x.id <= lastId' /\ reqId'[x.req] = x.id
      BY <1>1, <1>2, <1>3, <1>7
    <3> QED
      BY <3>1, <3>2
  <2>2. ASSUME NEW r \in Reqs, reqId'[r] > 0
        PROVE  [id |-> reqId'[r], req |-> r] \in rows'
    <3>1. CASE In(s, r)
      BY <1>4, <1>7, <3>1 DEF In, row
    <3>2. CASE ~In(s, r)
      BY <1>1, <1>7, <2>2, <3>2 DEF Rows
    <3> QED
      BY <3>1, <3>2
  <2>3. SavedAtMostOnce'
    <3>1. SUFFICES ASSUME NEW x \in rows', NEW y \in rows', x.req = y.req \/ x.id = y.id
                   PROVE  x = y
      BY DEF SavedAtMostOnce
    <3>2. x \in [id : Nat, req : Reqs] /\ y \in [id : Nat, req : Reqs]
      BY <1>8 DEF TableType
    <3>3. x.id = y.id
      BY <2>1, <3>1
    <3>4. x \in rows <=> y \in rows
      BY <1>5, <3>2, <3>3
    <3>5. CASE x \in rows /\ y \in rows
      BY <3>3, <3>5 DEF Rows, SavedAtMostOnce
    <3>6. CASE x \notin rows /\ y \notin rows
      <4>1. PICK i \in 1..Len(s), j \in 1..Len(s) : x = row(i) /\ y = row(j)
        BY <1>3, <3>6
      <4> QED
        BY <1>2, <3>3, <4>1
    <3> QED
      BY <3>4, <3>5, <3>6
  <2> QED
    BY <2>1, <2>2, <2>3 DEF Rows
<1>10. rows \subseteq rows' /\ rows' \ rows # {}
  BY <1>1, <1>2, <1>4
<1>11. \A y \in rows' \ rows : y.req \in Reqs /\ In(s, y.req)
  BY <1>2, <1>3
<1> QED
  BY <1>5, <1>6, <1>8, <1>9, <1>10, <1>11

\* The field req.ID says whether there is a row.
LEMMA IdTells ==
    ASSUME TableType, Rows, NEW r \in Reqs
    PROVE  reqId[r] > 0 <=> r \in Stored
<1>1. ASSUME reqId[r] > 0 PROVE r \in Stored
  <2>1. [id |-> reqId[r], req |-> r] \in rows
    BY <1>1 DEF Rows
  <2>2. [id |-> reqId[r], req |-> r].req = r
    OBVIOUS
  <2> QED
    BY <2>1, <2>2 DEF Stored
<1>2. ASSUME r \in Stored PROVE reqId[r] > 0
  <2>1. PICK x \in rows : x.req = r
    BY <1>2 DEF Stored
  <2> QED
    BY <2>1 DEF Rows, TableType
<1> QED
  BY <1>1, <1>2

\* The chunk is the beginning of the batch, and the rest follows it.
LEMMA ChunkFacts ==
    ASSUME NEW f \in Flushers, batch[f] \in Seq(Reqs), batch[f] # <<>>
    PROVE  LET n == ChunkLen(f)
               rest == SubSeq(batch[f], n + 1, Len(batch[f]))
           IN /\ n \in 1..Len(batch[f]) /\ n <= ChunkSize
              /\ Chunk(f) \in Seq(Reqs) /\ Len(Chunk(f)) = n
              /\ DOMAIN Chunk(f) = 1..n
              /\ \A i \in 1..n : Chunk(f)[i] = batch[f][i]
              /\ rest \in Seq(Reqs) /\ Len(rest) = Len(batch[f]) - n
              /\ \A i \in 1..Len(rest) : rest[i] = batch[f][n + i]
<1> DEFINE n == ChunkLen(f)
           b == batch[f]
<1>1. Len(b) \in Nat \ {0} /\ ChunkSize \in Nat \ {0}
  BY PoolAssumption
<1>2. n \in 1..Len(b) /\ n <= ChunkSize
  BY <1>1 DEF ChunkLen, Min2
<1>3. Chunk(f) = SubSeq(b, 1, n)
  BY DEF Chunk, ChunkLen
<1> HIDE DEF n
<1>4. /\ SubSeq(b, 1, n) \in Seq(Reqs) /\ Len(SubSeq(b, 1, n)) = n
      /\ \A i \in 1..n : SubSeq(b, 1, n)[i] = b[i]
  BY <1>1, <1>2
<1>5. /\ SubSeq(b, n + 1, Len(b)) \in Seq(Reqs)
      /\ Len(SubSeq(b, n + 1, Len(b))) = Len(b) - n
      /\ \A i \in 1..Len(b) - n : SubSeq(b, n + 1, Len(b))[i] = b[n + i]
  <2>1. n + 1 \in 1..Len(b)+1
    BY <1>1, <1>2
  <2> QED
    BY <1>1, <1>2, <2>1
<1> QED
  BY <1>2, <1>3, <1>4, <1>5 DEF n

-----------------------------------------------------------------------------
(***************************************************************************)
(* What a step leaves alone                                                *)
(***************************************************************************)
\* A step in which f deals with requests of its batch disturbs nobody else's.
LEMMA OthersKeep ==
    ASSUME IInv, NEW f \in Flushers,
           UNCHANGED <<pushed, q, dropped, refused>>,
           \A r \in Reqs : ~In(batch[f], r) =>
              /\ r \in Stored' <=> r \in Stored
              /\ r \in lost' <=> r \in lost
              /\ announced'[r] = announced[r],
           \A g \in Flushers \ {f} :
              batch'[g] = batch[g] /\ phase'[g] = phase[g] /\ pos'[g] = pos[g],
           Distinct(batch'[f]),
           \A r \in Reqs : In(batch'[f], r) => In(batch[f], r),
           \A r \in Reqs : In(batch[f], r) => In(batch'[f], r) \/ Over(r)'
    PROVE  /\ OnePlace' /\ Outside'
           /\ \A g \in Flushers \ {f} : Progress(g)'
<1> USE DEF IInv
<1>1. Accepted' = Accepted
  BY DEF Accepted
<1>2. OnePlace'
  BY <1>1 DEF OnePlace
<1>3. ASSUME NEW r \in Reqs, ~In(batch[f], r)
      PROVE  /\ Fresh(r)' <=> Fresh(r)
             /\ Tried(r)' <=> Tried(r)
             /\ Over(r)' <=> Over(r)
  BY <1>3 DEF Fresh, Tried, Over
<1>4. Outside'
  <2>1. ASSUME NEW r \in Reqs, In(q, r) \/ r \in dropped \/ r \notin Accepted
        PROVE  Fresh(r)'
    <3>1. ~In(batch[f], r)
      BY <2>1 DEF OnePlace
    <3> QED
      BY <1>3, <2>1, <3>1 DEF Outside
  <2>2. ASSUME NEW r \in Accepted
        PROVE  \/ r \in dropped \/ In(q, r) \/ Over(r)'
               \/ \E g \in Flushers : In(batch'[g], r)
    <3>1. r \in Reqs
      BY DEF Accepted, TypeOK, Ring!TypeOK
    <3>2. CASE In(batch[f], r)
      BY <3>1, <3>2
    <3>3. CASE ~In(batch[f], r)
      BY <1>3, <3>1, <3>3 DEF Outside
    <3> QED
      BY <3>2, <3>3
  <2> QED
    BY <1>1, <2>1, <2>2 DEF Outside
<1>5. ASSUME NEW g \in Flushers \ {f} PROVE Progress(g)'
  <2>1. batch[g] \in Seq(Reqs) /\ ChunkLen(g)' = ChunkLen(g)
    BY DEF TypeOK, ChunkLen
  <2>2. \A i \in 1..Len(batch[g]) : batch[g][i] \in Reqs /\ ~In(batch[f], batch[g][i])
    BY <2>1 DEF OnePlace, In
  <2>3. Progress(g)
    OBVIOUS
  <2> QED
    BY <1>3, <2>1, <2>2, <2>3 DEF Progress
<1> QED
  BY <1>2, <1>4, <1>5

\* A step that only moves f, within what it does with a whole chunk or where it
\* holds nothing.
LEMMA MovesKeep ==
    ASSUME IInv, NEW f \in Flushers,
           UNCHANGED <<pushed, q, dropped, refused, batch, pos, db, announced>>,
           \A g \in Flushers \ {f} : phase'[g] = phase[g],
           \/ phase'[f] = phase[f]
           \/ phase[f] \in {"flush", "backoff"} /\ phase'[f] \in {"flush", "backoff", "fallback"}
           \/ phase[f] \notin Holding /\ phase'[f] \notin Holding
    PROVE  /\ OnePlace' /\ Outside' /\ Rows'
           /\ \A g \in Flushers : Progress(g)'
           /\ pos' \in [Flushers -> Nat]
           /\ \A g \in Flushers : batch'[g] # <<>> <=> phase'[g] \in Holding
           /\ \A g \in Flushers : IF phase'[g] \in {"fallback", "announce"}
                                  THEN pos'[g] < ChunkLen(g)' ELSE pos'[g] = 0
<1> USE DEF IInv, db
<1>1. Accepted' = Accepted /\ Stored' = Stored /\ \A g \in Flushers : ChunkLen(g)' = ChunkLen(g)
  BY DEF Accepted, Stored, ChunkLen
<1>2. OnePlace' /\ Outside' /\ Rows'
  BY <1>1 DEF OnePlace, Outside, Rows, SavedAtMostOnce, Fresh, Over
<1>3. ASSUME NEW g \in Flushers PROVE Progress(g)'
  <2>1. Progress(g) /\ Len(batch[g]) \in Nat
    BY DEF TypeOK
  <2>2. \A i \in 1..Len(batch[g]) : i \in Nat /\ ~(i <= 0)
    OBVIOUS
  <2>3. CASE g # f \/ phase'[f] = phase[f]
    BY <1>1, <2>1, <2>3 DEF Progress, Fresh, Tried, Over
  <2>4. CASE g = f /\ phase[f] \in {"flush", "backoff"}
                   /\ phase'[f] \in {"flush", "backoff", "fallback"}
    <3>1. pos'[f] = 0
      BY <2>4 DEF Places
    <3> QED
      BY <1>1, <2>1, <2>2, <2>4, <3>1 DEF Progress, Fresh, Tried
  <2>5. CASE g = f /\ phase[f] \notin Holding /\ phase'[f] \notin Holding
    BY <2>2, <2>5 DEF Progress, Places
  <2> QED
    BY <2>3, <2>4, <2>5
<1>4. ASSUME NEW g \in Flushers
      PROVE  /\ batch'[g] # <<>> <=> phase'[g] \in Holding
             /\ IF phase'[g] \in {"fallback", "announce"}
                THEN pos'[g] < ChunkLen(g)' ELSE pos'[g] = 0
  <2>1. CASE g # f \/ phase'[f] = phase[f]
    BY <1>1, <2>1 DEF Places
  <2>2. CASE g = f /\ phase[f] \in {"flush", "backoff"}
                   /\ phase'[f] \in {"flush", "backoff", "fallback"}
    <3>1. batch[f] # <<>> /\ batch[f] \in Seq(Reqs) /\ pos[f] = 0
      BY <2>2 DEF Places, Holding, TypeOK
    <3>2. ChunkLen(f) \in Nat /\ 0 < ChunkLen(f)
      BY <3>1, ChunkFacts
    <3> QED
      BY <1>1, <2>2, <3>1, <3>2 DEF Holding
  <2>3. CASE g = f /\ phase[f] \notin Holding /\ phase'[f] \notin Holding
    BY <2>3 DEF Places, Holding
  <2> QED
    BY <2>1, <2>2, <2>3
<1> QED
  BY <1>2, <1>3, <1>4 DEF Places

-----------------------------------------------------------------------------
(***************************************************************************)
(* The ring                                                                *)
(***************************************************************************)
\* Whatever Push does, a record that was accepted is in the ring or counted as
\* dropped, and a stopped ring takes nothing.
LEMMA EmitKeeps ==
    ASSUME IInv, NEW r \in Reqs, Emit(r)
    PROVE  IInv'
<1> USE DEF IInv
<1>1. /\ r \notin pushed /\ pushed' = pushed \cup {r}
      /\ UNCHANGED <<stopCh, phase, batch, pos, tries, rows, lastId, reqId, lost, announced>>
      /\ Ring!Refuse(r) \/ Ring!DropNew(r) \/ Ring!Add(r) \/ Ring!DropOldest(r)
  BY DEF Emit, Ring!Push, local, db
<1>2. /\ q \in Seq(Reqs) /\ Len(q) <= Cap /\ Cap \in Nat \ {0} /\ Len(q) \in Nat
      /\ pushed \subseteq Reqs /\ dropped \subseteq pushed \ refused /\ refused \subseteq pushed
      /\ con \in [Flushers -> {"out", "parked", "woken"}]
  BY PoolAssumption DEF TypeOK, Ring!TypeOK, Outside, Accepted
<1>3. Fresh(r) /\ ~In(q, r) /\ \A f \in Flushers : ~In(batch[f], r)
  BY <1>1 DEF OnePlace, Outside, Accepted
<1>4. Stored' = Stored /\ \A x : (Fresh(x)' <=> Fresh(x)) /\ (Over(x)' <=> Over(x))
                              /\ (Tried(x)' <=> Tried(x))
  BY <1>1 DEF Stored, Fresh, Over, Tried
<1>5. (\A f \in Flushers : Progress(f)') /\ Rows' /\ Places'
  BY <1>1, <1>4 DEF Progress, ChunkLen, Rows, SavedAtMostOnce, Places
<1>6. con' \in [Flushers -> {"out", "parked", "woken"}]
  BY <1>1, <1>2 DEF Ring!Refuse, Ring!DropNew, Ring!Add, Ring!DropOldest, Ring!Signal, Ring!Parked
<1>7. CASE Ring!Refuse(r)
  <2>1. refused' = refused \cup {r} /\ UNCHANGED <<q, dropped, taken, stopped>>
    BY <1>7 DEF Ring!Refuse
  <2>2. Accepted' = Accepted
    BY <1>1, <1>2, <2>1 DEF Accepted
  <2>3. TypeOK'
    BY <1>1, <1>2, <1>6, <2>1 DEF TypeOK, Ring!TypeOK
  <2>4. OnePlace' /\ Outside'
    BY <1>1, <1>2, <1>4, <2>1, <2>2 DEF OnePlace, Outside
  <2>5. Stopping'
    BY <1>1, <2>1 DEF Stopping
  <2> QED
    BY <1>5, <2>3, <2>4, <2>5
<1>8. CASE Ring!DropNew(r)
  <2>1. dropped' = dropped \cup {r} /\ UNCHANGED <<q, refused, taken, stopped>>
    BY <1>8 DEF Ring!DropNew
  <2>2. Accepted' = Accepted \cup {r}
    BY <1>1, <1>2, <2>1 DEF Accepted
  <2>3. TypeOK'
    BY <1>1, <1>2, <1>6, <2>1 DEF TypeOK, Ring!TypeOK
  <2>4. OnePlace' /\ Outside'
    BY <1>1, <1>2, <1>3, <1>4, <2>1, <2>2 DEF OnePlace, Outside
  <2>5. Stopping'
    BY <1>1, <2>1 DEF Stopping
  <2> QED
    BY <1>5, <2>3, <2>4, <2>5
<1>9. CASE Ring!Add(r)
  <2>1. /\ ~stopped /\ Len(q) < Cap /\ q' = Append(q, r)
        /\ UNCHANGED <<dropped, refused, taken, stopped>>
    BY <1>9 DEF Ring!Add
  <2>2. Accepted' = Accepted \cup {r}
    BY <1>1, <1>2, <2>1 DEF Accepted
  <2>3. /\ q' \in Seq(Reqs) /\ Len(q') = Len(q) + 1
        /\ \A x : In(q', x) <=> In(q, x) \/ x = r
        /\ Distinct(q')
    BY <1>2, <1>3, <2>1, AppendIn DEF OnePlace
  <2>4. TypeOK'
    BY <1>1, <1>2, <1>6, <2>1, <2>3 DEF TypeOK, Ring!TypeOK
  <2>5. OnePlace' /\ Outside'
    BY <1>1, <1>2, <1>3, <1>4, <2>1, <2>2, <2>3 DEF OnePlace, Outside
  <2>6. Stopping'
    BY <1>1, <2>1 DEF Stopping, Holding
  <2> QED
    BY <1>5, <2>4, <2>5, <2>6
<1>10. CASE Ring!DropOldest(r)
  <2>1. /\ ~stopped /\ q # <<>> /\ q' = Append(Tail(q), r)
        /\ dropped' = dropped \cup {Head(q)}
        /\ UNCHANGED <<refused, taken, stopped>>
    BY <1>10 DEF Ring!DropOldest
  <2>2. Accepted' = Accepted \cup {r}
    BY <1>1, <1>2, <2>1 DEF Accepted
  <2>3. /\ Head(q) \in Reqs /\ In(q, Head(q))
        /\ Tail(q) \in Seq(Reqs) /\ Len(Tail(q)) = Len(q) - 1 /\ Distinct(Tail(q))
        /\ \A x : In(Tail(q), x) <=> In(q, x) /\ x # Head(q)
    BY <1>2, <2>1, TailIn DEF OnePlace
  <2>4. /\ q' \in Seq(Reqs) /\ Len(q') = Len(q)
        /\ \A x : In(q', x) <=> (In(q, x) /\ x # Head(q)) \/ x = r
        /\ Distinct(q')
    <3> DEFINE t == Tail(q)
    <3>1. /\ t \in Seq(Reqs) /\ Len(t) = Len(q) - 1 /\ Distinct(t) /\ ~In(t, r)
          /\ \A x : In(t, x) <=> In(q, x) /\ x # Head(q)
          /\ q' = Append(t, r)
      BY <1>3, <2>1, <2>3
    <3> HIDE DEF t
    <3>2. /\ Append(t, r) \in Seq(Reqs) /\ Len(Append(t, r)) = Len(t) + 1
          /\ \A x : In(Append(t, r), x) <=> In(t, x) \/ x = r
          /\ Distinct(Append(t, r))
      BY <3>1, AppendIn
    <3> QED
      BY <1>2, <3>1, <3>2
  <2>5. TypeOK'
    BY <1>1, <1>2, <1>6, <2>1, <2>3, <2>4 DEF TypeOK, Ring!TypeOK
  <2>6. Head(q) \in Accepted /\ Head(q) # r /\ Fresh(Head(q))
        /\ \A f \in Flushers : ~In(batch[f], Head(q))
    BY <1>3, <2>3 DEF OnePlace, Outside
  <2>7. OnePlace'
    BY <1>1, <1>2, <1>3, <2>1, <2>2, <2>4, <2>6 DEF OnePlace
  <2>8. Outside'
    BY <1>1, <1>2, <1>3, <1>4, <2>1, <2>2, <2>4, <2>6 DEF Outside
  <2>9. Stopping'
    BY <1>1, <2>1 DEF Stopping, Holding
  <2> QED
    BY <1>5, <2>5, <2>7, <2>8, <2>9
<1> QED
  BY <1>1, <1>7, <1>8, <1>9, <1>10

\* PopBatch hands the whole ring to one flusher.
LEMMA PopKeeps ==
    ASSUME IInv, NEW f \in Flushers, Pop(f)
    PROVE  IInv'
<1> USE DEF IInv
<1>1. /\ phase[f] = "pop" /\ q # <<>> /\ q' = <<>>
      /\ taken' = taken \o q /\ con' = [con EXCEPT ![f] = "out"]
      /\ batch' = [batch EXCEPT ![f] = q]
      /\ phase' = [phase EXCEPT ![f] = "flush"]
      /\ UNCHANGED <<pushed, dropped, refused, stopped, stopCh, pos, tries,
                     rows, lastId, reqId, lost, announced>>
  BY DEF Pop, Ring!Take, db
<1>2. /\ q \in Seq(Reqs) /\ batch \in [Flushers -> Seq(Reqs)] /\ Distinct(q)
      /\ batch[f] = <<>> /\ pos[f] = 0
  BY <1>1 DEF TypeOK, Ring!TypeOK, OnePlace, Places, Holding
<1>3. /\ batch'[f] = q /\ \A g \in Flushers \ {f} : batch'[g] = batch[g]
      /\ phase'[f] = "flush" /\ \A g \in Flushers \ {f} : phase'[g] = phase[g]
  BY <1>1, <1>2 DEF TypeOK
<1>4. \A x : ~In(q', x) /\ ~In(batch[f], x)
  BY <1>1, <1>2, EmptyIn
<1>5. Accepted' = Accepted /\ Stored' = Stored
      /\ \A x : (Fresh(x)' <=> Fresh(x)) /\ (Over(x)' <=> Over(x)) /\ (Tried(x)' <=> Tried(x))
  BY <1>1 DEF Accepted, Stored, Fresh, Over, Tried
<1>6. TypeOK'
  <2>1. Len(<<>>) = 0 /\ Cap \in Nat
    BY PoolAssumption
  <2>2. q' \in Seq(Reqs) /\ Len(q') <= Cap /\ taken' \in Seq(Reqs)
    BY <1>1, <1>2, <2>1 DEF TypeOK, Ring!TypeOK
  <2> QED
    BY <1>1, <1>2, <2>2 DEF TypeOK, Ring!TypeOK
<1>7. OnePlace'
  <2>1. Distinct(q')
    BY <1>1, EmptyIn
  <2> QED
    BY <1>1, <1>2, <1>3, <1>4, <1>5, <2>1 DEF OnePlace
<1>8. Outside'
  BY <1>1, <1>3, <1>4, <1>5 DEF Outside
<1>9. ASSUME NEW g \in Flushers PROVE Progress(g)'
  <2>1. CASE g # f
    BY <1>1, <1>3, <1>5, <2>1 DEF Progress, ChunkLen
  <2>2. CASE g = f
    <3>1. \A i \in 1..Len(q) : q[i] \in Reqs /\ In(q, q[i])
      BY <1>2 DEF In
    <3>2. \A i \in 1..Len(q) : Fresh(q[i])
      BY <3>1 DEF Outside
    <3> QED
      BY <1>1, <1>3, <1>5, <2>2, <3>2 DEF Progress, Fresh
  <2> QED
    BY <2>1, <2>2
<1>10. Rows'
  BY <1>1 DEF Rows, SavedAtMostOnce
<1>11. Places'
  <2>1. \A g \in Flushers : batch'[g] # <<>> <=> phase'[g] \in Holding
    BY <1>1, <1>3 DEF Places, Holding
  <2>2. \A g \in Flushers : IF phase'[g] \in {"fallback", "announce"}
                            THEN pos'[g] < ChunkLen(g)' ELSE pos'[g] = 0
    BY <1>1, <1>2, <1>3 DEF Places, ChunkLen
  <2>3. Flushers = Workers \cup {Stopper}
    BY DEF Flushers
  <2> QED
    BY <1>1, <1>3, <2>1, <2>2, <2>3 DEF Places, Holding
<1>12. Stopping'
  <2>1. f \in Workers => phase[Stopper] \in {"new", "closed", "waiting"}
    BY <1>1 DEF Stopping
  <2> QED
    BY <1>1, <1>3, <2>1, PoolAssumption DEF Stopping, Holding, Flushers
<1> QED
  BY <1>6, <1>7, <1>8, <1>9, <1>10, <1>11, <1>12

-----------------------------------------------------------------------------
(***************************************************************************)
(* Steps that only move                                                    *)
(***************************************************************************)
\* A worker sees its tick or the stop.
LEMMA SelectKeeps ==
    ASSUME IInv, NEW w \in Workers, Tick(w) \/ SeeStop(w)
    PROVE  IInv'
<1> USE DEF IInv
<1>1. /\ w \in Flushers /\ w # Stopper /\ phase[w] = "select"
      /\ phase' = [phase EXCEPT ![w] = phase'[w]] /\ phase'[w] \in {"pop", "exited"}
      /\ UNCHANGED <<ringVars, stopCh, local, db, announced>>
  BY PoolAssumption DEF Tick, SeeStop, Flushers, TypeOK
<1>2. \A g \in Flushers \ {w} : phase'[g] = phase[g]
  BY <1>1 DEF TypeOK
<1>3. TypeOK'
  BY <1>1 DEF TypeOK, Ring!TypeOK, ringVars, local, db
<1>4. OnePlace' /\ Outside' /\ Rows' /\ (\A g \in Flushers : Progress(g)')
      /\ pos' \in [Flushers -> Nat]
      /\ (\A g \in Flushers : batch'[g] # <<>> <=> phase'[g] \in Holding)
      /\ (\A g \in Flushers : IF phase'[g] \in {"fallback", "announce"}
                              THEN pos'[g] < ChunkLen(g)' ELSE pos'[g] = 0)
  BY <1>1, <1>2, MovesKeep DEF ringVars, local, Holding
<1>5. Places'
  BY <1>1, <1>2, <1>4 DEF Places, local, Flushers, Holding
<1>6. Stopping'
  <2>1. phase[Stopper] \in {"new", "closed", "waiting"}
    BY <1>1 DEF Stopping
  <2>2. phase'[Stopper] = phase[Stopper]
    BY <1>1, <1>2 DEF Flushers
  <2> QED
    BY <1>1, <2>1, <2>2 DEF Stopping, ringVars, Holding
<1> QED
  BY <1>3, <1>4, <1>5, <1>6

\* Stop closes its channel, stops the ring, and waits for the workers.
LEMMA StopKeeps ==
    ASSUME IInv, Stop
    PROVE  IInv'
<1> USE DEF IInv
<1>1. /\ Stopper \in Flushers /\ Stopper \notin Workers
      /\ phase' = [phase EXCEPT ![Stopper] = phase'[Stopper]]
      /\ UNCHANGED <<pushed, q, dropped, refused, taken, local, db, announced>>
      /\ \/ phase[Stopper] = "new" /\ phase'[Stopper] = "closed" /\ stopCh' = TRUE
            /\ UNCHANGED <<stopped, con>>
         \/ phase[Stopper] = "closed" /\ phase'[Stopper] = "waiting"
            /\ stopped' = TRUE /\ UNCHANGED stopCh
            /\ con' = [c \in Flushers |-> IF con[c] = "parked" THEN "woken" ELSE con[c]]
         \/ /\ phase[Stopper] = "waiting" /\ phase'[Stopper] = "pop"
            /\ \A w \in Workers : phase[w] = "exited"
            /\ UNCHANGED <<stopped, con, stopCh>>
  BY PoolAssumption
  DEF Stop, StopClose, StopRing, StopWaited, Ring!Stop, Ring!Broadcast, Flushers, TypeOK, ringVars
<1>2. \A g \in Flushers \ {Stopper} : phase'[g] = phase[g]
  BY <1>1 DEF TypeOK
<1>3. TypeOK'
  BY <1>1 DEF TypeOK, Ring!TypeOK, local, db
<1>4. OnePlace' /\ Outside' /\ Rows' /\ (\A g \in Flushers : Progress(g)')
      /\ pos' \in [Flushers -> Nat]
      /\ (\A g \in Flushers : batch'[g] # <<>> <=> phase'[g] \in Holding)
      /\ (\A g \in Flushers : IF phase'[g] \in {"fallback", "announce"}
                              THEN pos'[g] < ChunkLen(g)' ELSE pos'[g] = 0)
  BY <1>1, <1>2, MovesKeep DEF local, Holding
<1>5. Places'
  BY <1>1, <1>2, <1>4 DEF Places, local, Flushers, Holding
<1>6. Stopping'
  BY <1>1, <1>2 DEF Stopping, Holding, Flushers
<1> QED
  BY <1>3, <1>4, <1>5, <1>6

\* PopBatch sleeps, or returns nothing from a ring that is stopped; a chunk is
\* tried again or goes to the fallback; flushAll returns.
Moves(f) ==
    \/ PopWait(f) \/ PopNil(f) \/ SaveBatchErr(f) \/ BackoffOver(f)
    \/ BackoffStopped(f) \/ Return(f)

\* The places after a step of one flusher.
LEMMA PlacesStep ==
    ASSUME Places, NEW f \in Flushers,
           pos' \in [Flushers -> Nat], tries' \in [Flushers -> Nat],
           \A g \in Flushers \ {f} :
             batch'[g] = batch[g] /\ phase'[g] = phase[g] /\ pos'[g] = pos[g],
           batch'[f] # <<>> <=> phase'[f] \in Holding,
           IF phase'[f] \in {"fallback", "announce"} THEN pos'[f] < ChunkLen(f)' ELSE pos'[f] = 0,
           IF f = Stopper THEN phase'[f] \notin {"select", "exited"}
           ELSE phase'[f] \in Holding \cup {"select", "exited", "pop", "done"}
    PROVE  Places'
<1>1. \A g \in Flushers : batch'[g] # <<>> <=> phase'[g] \in Holding
  BY DEF Places
<1>2. ASSUME NEW g \in Flushers
      PROVE  IF phase'[g] \in {"fallback", "announce"} THEN pos'[g] < ChunkLen(g)' ELSE pos'[g] = 0
  <2>1. CASE g = f
    BY <2>1
  <2>2. CASE g # f
    <3>1. ChunkLen(g)' = ChunkLen(g) /\ phase'[g] = phase[g] /\ pos'[g] = pos[g]
      BY <2>2 DEF ChunkLen
    <3> QED
      BY <3>1 DEF Places
  <2> QED
    BY <2>1, <2>2
<1>3. /\ \A w \in Workers : phase'[w] \in Holding \cup {"select", "exited", "pop", "done"}
      /\ phase'[Stopper] \notin {"select", "exited"}
  BY PoolAssumption DEF Places, Flushers
<1> QED
  BY <1>1, <1>2, <1>3 DEF Places

LEMMA FlusherMovesKeep ==
    ASSUME IInv, NEW f \in Flushers, Moves(f)
    PROVE  IInv'
<1> USE DEF IInv
<1>1. /\ phase' = [phase EXCEPT ![f] = phase'[f]]
      /\ UNCHANGED <<pushed, q, dropped, refused, taken, stopped, stopCh, batch, pos,
                     rows, lastId, reqId, lost, announced>>
  BY DEF Moves, PopWait, PopNil, SaveBatchErr, BackoffOver, BackoffStopped, Return,
     Ring!Park, Ring!Leave, ringVars, local, db, TypeOK
<1>2. \/ phase[f] = "pop" /\ phase'[f] = "pop" /\ ~stopped
      \/ phase[f] = "pop" /\ phase'[f] = "done" /\ q = <<>>
      \/ phase[f] = "flush" /\ phase'[f] \in {"backoff", "fallback"}
      \/ phase[f] = "backoff" /\ phase'[f] \in {"flush", "fallback"}
      \/ phase[f] = "done" /\ phase'[f] = IF f = Stopper THEN "returned" ELSE "select"
  BY DEF Moves, PopWait, PopNil, SaveBatchErr, BackoffOver, BackoffStopped, Return,
     Ring!Park, Ring!Leave, TypeOK
<1>3. \A g \in Flushers \ {f} : phase'[g] = phase[g]
  BY <1>1 DEF TypeOK
<1>4. con' \in [Flushers -> {"out", "parked", "woken"}]
  BY DEF Moves, PopWait, PopNil, SaveBatchErr, BackoffOver, BackoffStopped, Return,
     Ring!Park, Ring!Leave, TypeOK, Ring!TypeOK, ringVars
<1>5. tries' \in [Flushers -> Nat] /\ \A g \in Flushers : tries'[g] \in 0..MaxTries-1
  <2>1. tries \in [Flushers -> Nat] /\ (\A g \in Flushers : tries[g] \in 0..MaxTries-1)
        /\ MaxTries \in Nat \ {0}
    BY PoolAssumption DEF TypeOK, Places
  <2>2. \/ UNCHANGED tries
        \/ tries' = [tries EXCEPT ![f] = 0]
        \/ tries' = [tries EXCEPT ![f] = @ + 1] /\ tries[f] + 1 < MaxTries
    BY DEF Moves, PopWait, PopNil, SaveBatchErr, BackoffOver, BackoffStopped, Return, local
  <2> QED
    BY <2>1, <2>2
<1>6. TypeOK'
  BY <1>1, <1>2, <1>4, <1>5 DEF TypeOK, Ring!TypeOK
<1>7. OnePlace' /\ Outside' /\ Rows' /\ (\A g \in Flushers : Progress(g)')
      /\ pos' \in [Flushers -> Nat]
      /\ (\A g \in Flushers : batch'[g] # <<>> <=> phase'[g] \in Holding)
      /\ (\A g \in Flushers : IF phase'[g] \in {"fallback", "announce"}
                              THEN pos'[g] < ChunkLen(g)' ELSE pos'[g] = 0)
  BY <1>1, <1>2, <1>3, MovesKeep DEF db, Holding
<1>8. Places'
  <2>1. IF f = Stopper THEN phase'[f] \notin {"select", "exited"}
        ELSE phase'[f] \in Holding \cup {"select", "exited", "pop", "done"}
    BY <1>2 DEF Holding
  <2>2. \A g \in Flushers \ {f} :
          batch'[g] = batch[g] /\ phase'[g] = phase[g] /\ pos'[g] = pos[g]
    BY <1>1, <1>3
  <2> QED
    BY <1>5, <1>7, <2>1, <2>2, PlacesStep
<1>9. Stopping'
  <2>1. f # Stopper => phase[Stopper] \in {"new", "closed", "waiting"}
    BY <1>2 DEF Stopping, Flushers
  <2> QED
    BY <1>1, <1>2, <1>3, <2>1 DEF Stopping, Holding, Flushers
<1> QED
  BY <1>6, <1>7, <1>8, <1>9

-----------------------------------------------------------------------------
(***************************************************************************)
(* Steps with the database                                                 *)
(***************************************************************************)
\* Rows, ids and fields are of their types, and so is the rest of a step that
\* saves or announces.
LEMMA SavingType ==
    ASSUME IInv, NEW f \in Flushers,
           UNCHANGED <<ringVars, stopCh>>,
           TableType', lost' \subseteq Reqs, announced' \in [Reqs -> Nat],
           batch' \in [Flushers -> Seq(Reqs)],
           pos' \in [Flushers -> Nat], \A g \in Flushers : pos'[g] \in 0..ChunkSize-1,
           tries' = tries \/ tries' = [tries EXCEPT ![f] = 0],
           phase' = [phase EXCEPT ![f] = phase'[f]],
           phase'[f] \in Holding \cup {"done"}
    PROVE  TypeOK' /\ tries' \in [Flushers -> Nat]
<1> USE DEF IInv
<1>1. tries' \in [Flushers -> Nat] /\ \A g \in Flushers : tries'[g] \in 0..MaxTries-1
  <2> DEFINE T == 0..MaxTries-1
  <2>1. T \subseteq Nat /\ 0 \in T /\ tries \in [Flushers -> Nat] /\ \A g \in Flushers : tries[g] \in T
    BY PoolAssumption DEF TypeOK, Places
  <2> HIDE DEF T
  <2>2. tries' \in [Flushers -> Nat] /\ \A g \in Flushers : tries'[g] \in T
    BY <2>1
  <2> QED
    BY <2>2 DEF T
<1>2. phase' \in [Flushers -> {"new", "closed", "waiting", "returned", "select",
                               "exited", "pop", "flush", "backoff", "fallback",
                               "announce", "done"}]
  BY DEF TypeOK, Holding
<1> QED
  BY <1>1, <1>2 DEF TypeOK, Ring!TypeOK, ringVars, TableType

\* While f holds a batch, its moves to the next step of flushAll are no matter
\* for Stop.
LEMMA HoldingStops ==
    ASSUME IInv, NEW f \in Flushers, phase[f] \in Holding,
           UNCHANGED <<q, stopped, stopCh>>,
           phase' = [phase EXCEPT ![f] = phase'[f]],
           phase'[f] \in Holding \cup {"done"}
    PROVE  Stopping'
<1> USE DEF IInv
<1>1. \A g \in Flushers \ {f} : phase'[g] = phase[g]
  BY DEF TypeOK
<1>2. f # Stopper => phase[Stopper] \in {"new", "closed", "waiting"}
  BY DEF Stopping, Flushers, Holding
<1>3. \A w \in Workers : w \in Flushers /\ w # Stopper
  BY PoolAssumption DEF Flushers
<1> QED
  BY <1>1, <1>2, <1>3 DEF Stopping, Holding, Flushers

\* SaveBatch stores the chunk, and nothing else.
LEMMA SaveBatchOkKeeps ==
    ASSUME IInv, NEW f \in Flushers, SaveBatchOk(f)
    PROVE  IInv'
<1> USE DEF IInv
<1> DEFINE n == ChunkLen(f)
           b == batch[f]
           s == Chunk(f)
<1>1. /\ phase[f] = "flush" /\ Insert(s, DOMAIN s)
      /\ tries' = [tries EXCEPT ![f] = 0]
      /\ phase' = [phase EXCEPT ![f] = "announce"]
      /\ UNCHANGED <<ringVars, stopCh, batch, pos, lost, announced>>
  BY DEF SaveBatchOk
<1>2. b \in Seq(Reqs) /\ b # <<>> /\ Distinct(b) /\ pos[f] = 0 /\ TableType
  BY <1>1 DEF TypeOK, Places, Holding, OnePlace, TableType
<1>3. /\ n \in 1..Len(b) /\ s \in Seq(Reqs) /\ Len(s) = n /\ DOMAIN s = 1..n
      /\ \A i \in 1..n : s[i] = b[i]
  BY <1>2, ChunkFacts
<1>4. /\ phase'[f] = "announce" /\ phase' = [phase EXCEPT ![f] = phase'[f]]
      /\ \A g \in Flushers \ {f} : phase'[g] = phase[g]
  BY <1>1 DEF TypeOK
<1> HIDE DEF s, n
<1>5. Distinct(s) /\ s # <<>>
  BY <1>2, <1>3 DEF Distinct
<1>6. \A i \in 1..Len(b) : b[i] \in Reqs /\ In(b, b[i]) /\ Fresh(b[i])
  <2>1. \A i \in 1..Len(b) : i > n \/ i <= n
    BY <1>3
  <2> QED
    BY <1>1, <1>2, <2>1 DEF Progress, In, n
<1>7. \A r : In(s, r) => In(b, r)
  BY <1>3 DEF In
<1>8. /\ TableType' /\ Rows'
      /\ \A r \in Reqs : r \in Stored' <=> r \in Stored \/ In(s, r)
  <2>1. \A i \in 1..Len(s) : s[i] \notin Stored
    BY <1>3, <1>6 DEF Fresh
  <2> QED
    BY <1>1, <1>2, <1>3, <1>5, <2>1, InsertFacts
<1>9. OnePlace' /\ Outside' /\ \A g \in Flushers \ {f} : Progress(g)'
  BY <1>1, <1>2, <1>4, <1>7, <1>8, OthersKeep DEF ringVars
<1>10. Progress(f)'
  <2>1. ASSUME NEW i \in 1..Len(b), i > n PROVE Fresh(b[i])'
    <3>1. ~In(s, b[i])
      BY <1>2, <1>3, <2>1 DEF In, Distinct
    <3> QED
      BY <1>1, <1>6, <1>8, <3>1 DEF Fresh
  <2>2. ASSUME NEW i \in 1..Len(b), i <= n PROVE Tried(b[i])'
    <3>1. In(s, b[i])
      BY <1>3, <2>2 DEF In
    <3> QED
      BY <1>1, <1>6, <1>8, <3>1 DEF Fresh, Tried
  <2>3. ChunkLen(f)' = n /\ pos'[f] = 0 /\ batch'[f] = b /\ \A i \in 1..Len(b) : ~(i <= 0)
    BY <1>1, <1>2 DEF ChunkLen, n
  <2> QED
    BY <1>4, <2>1, <2>2, <2>3 DEF Progress, Fresh, Tried
<1>11. TypeOK' /\ tries' \in [Flushers -> Nat]
  BY <1>1, <1>4, <1>8, SavingType DEF TypeOK, Places, Holding
<1>12. Places'
  <2>1. n \in Nat /\ 0 < n
    BY <1>2, <1>3
  <2>2. \A g \in Flushers : ChunkLen(g)' = ChunkLen(g)
    BY <1>1 DEF ChunkLen
  <2> QED
    BY <1>1, <1>2, <1>4, <1>11, <2>1, <2>2, PoolAssumption DEF Places, Holding, Flushers, n
<1>13. Stopping'
  BY <1>1, <1>4, HoldingStops DEF ringVars, Holding
<1> QED
  BY <1>8, <1>9, <1>10, <1>11, <1>12, <1>13

\* The request the fallback or the announcements have come to.
LEMMA TurnFacts ==
    ASSUME IInv, NEW f \in Flushers, phase[f] \in {"fallback", "announce"}
    PROVE  LET n == ChunkLen(f)
               k == pos[f] + 1
               r == batch[f][k]
           IN /\ batch[f] \in Seq(Reqs) /\ batch[f] # <<>> /\ Distinct(batch[f])
              /\ n \in 1..Len(batch[f]) /\ n <= ChunkSize /\ Len(Chunk(f)) = n
              /\ pos[f] \in Nat /\ k \in 1..n
              /\ r \in Reqs /\ In(batch[f], r)
              /\ \A i \in 1..Len(batch[f]) : batch[f][i] = r => i = k
              /\ phase[f] = "fallback" => Fresh(r)
              /\ phase[f] = "announce" => Tried(r)
<1> USE DEF IInv
<1> DEFINE n == ChunkLen(f)
           k == pos[f] + 1
           b == batch[f]
<1>1. b \in Seq(Reqs) /\ b # <<>> /\ Distinct(b) /\ pos[f] \in Nat /\ pos[f] < n
  BY DEF TypeOK, Places, Holding, OnePlace
<1>2. n \in 1..Len(b) /\ n <= ChunkSize /\ Len(Chunk(f)) = n
  BY <1>1, ChunkFacts
<1>3. k \in 1..n /\ k \in 1..Len(b) /\ ~(k > n) /\ ~(k <= pos[f])
  BY <1>1, <1>2
<1>4. b[k] \in Reqs /\ In(b, b[k]) /\ \A i \in 1..Len(b) : b[i] = b[k] => i = k
  BY <1>1, <1>3 DEF In, Distinct
<1>5. (phase[f] = "fallback" => Fresh(b[k])) /\ (phase[f] = "announce" => Tried(b[k]))
  BY <1>3 DEF Progress
<1> QED
  BY <1>1, <1>2, <1>3, <1>4, <1>5

\* A Save of one request works or fails.
LEMMA SaveOne ==
    ASSUME TableType, Rows, NEW r \in Reqs, Fresh(r), lost \subseteq Reqs,
           SaveOk(r) \/ SaveErr(r), UNCHANGED announced
    PROVE  /\ TableType' /\ Rows' /\ lost' \subseteq Reqs
           /\ Tried(r)'
           /\ \A x \in Reqs : x # r => /\ x \in Stored' <=> x \in Stored
                                       /\ x \in lost' <=> x \in lost
<1>1. CASE SaveOk(r)
  <2> DEFINE s == <<r>>
  <2>1. s \in Seq(Reqs) /\ s # <<>> /\ Len(s) = 1 /\ s[1] = r
    OBVIOUS
  <2> HIDE DEF s
  <2>2. 1..Len(s) = {1}
    BY <2>1
  <2>3. Distinct(s) /\ (\A x : In(s, x) <=> x = r) /\ \A i \in 1..Len(s) : s[i] \notin Stored
    BY <2>1, <2>2 DEF Distinct, In, Fresh
  <2>4. Insert(s, 1..Len(s)) /\ UNCHANGED lost
    BY <1>1, <2>2 DEF SaveOk, s
  <2>5. TableType' /\ Rows' /\ \A x \in Reqs : x \in Stored' <=> x \in Stored \/ In(s, x)
    BY <2>1, <2>3, <2>4, InsertFacts
  <2> QED
    BY <2>3, <2>4, <2>5 DEF Tried, Fresh
<1>2. CASE SaveErr(r)
  <2>1. lost' = lost \cup {r} /\ UNCHANGED <<rows, lastId, reqId>> /\ Stored' = Stored
    BY <1>2 DEF SaveErr, Stored
  <2>2. TableType' /\ Rows'
    BY <2>1 DEF TableType, Rows, SavedAtMostOnce
  <2> QED
    BY <2>1, <2>2 DEF Tried, Fresh
<1> QED
  BY <1>1, <1>2

\* The next request of the chunk, or the next step after its last one.
LEMMA TurnKeeps ==
    ASSUME IInv, NEW f \in Flushers, phase[f] \in {"fallback", "announce"},
           NEW r \in Reqs, r = batch[f][pos[f] + 1],
           UNCHANGED <<ringVars, stopCh, tries>>,
           TableType', Rows', lost' \subseteq Reqs, announced' \in [Reqs -> Nat],
           phase[f] = "fallback" => Tried(r)',
           phase[f] = "announce" => Over(r)',
           \A x \in Reqs : x # r => /\ x \in Stored' <=> x \in Stored
                                    /\ x \in lost' <=> x \in lost
                                    /\ announced'[x] = announced[x],
           NextInChunk(f,
             \/ /\ phase[f] = "fallback"
                /\ phase' = [phase EXCEPT ![f] = "announce"] /\ UNCHANGED batch
             \/ /\ phase[f] = "announce"
                /\ LET rest == SubSeq(batch[f], Len(Chunk(f)) + 1, Len(batch[f]))
                   IN  /\ batch' = [batch EXCEPT ![f] = rest]
                       /\ phase' = [phase EXCEPT ![f] =
                                      IF rest = <<>> THEN "done" ELSE "flush"])
    PROVE  IInv'
<1> USE DEF IInv
<1> DEFINE n == ChunkLen(f)
           k == pos[f] + 1
           b == batch[f]
           rest == SubSeq(b, n + 1, Len(b))
<1>1. /\ b \in Seq(Reqs) /\ b # <<>> /\ Distinct(b) /\ Len(b) \in Nat
      /\ n \in 1..Len(b) /\ n <= ChunkSize /\ Len(Chunk(f)) = n
      /\ pos[f] \in Nat /\ k \in 1..n
      /\ In(b, r) /\ \A i \in 1..Len(b) : b[i] = r => i = k
  BY TurnFacts
<1>2. /\ batch \in [Flushers -> Seq(Reqs)] /\ pos \in [Flushers -> Nat]
      /\ \A g \in Flushers : pos[g] \in 0..ChunkSize-1
      /\ ChunkSize \in Nat \ {0}
  BY PoolAssumption DEF TypeOK, Places
<1>3. UNCHANGED <<pushed, q, dropped, refused, stopped>>
  BY DEF ringVars
<1>4. \A i \in 1..Len(b) : b[i] \in Reqs /\ (b[i] = r <=> i = k)
  BY <1>1
<1>5. ASSUME NEW x \in Reqs, x # r
      PROVE  (Fresh(x)' <=> Fresh(x)) /\ (Tried(x)' <=> Tried(x)) /\ (Over(x)' <=> Over(x))
  BY <1>5 DEF Fresh, Tried, Over
<1>6. Progress(f)
  OBVIOUS
<1>7. CASE k < n /\ pos' = [pos EXCEPT ![f] = @ + 1] /\ UNCHANGED <<phase, batch>>
  <2>1. /\ pos'[f] = k /\ \A g \in Flushers \ {f} : pos'[g] = pos[g]
        /\ pos' \in [Flushers -> Nat] /\ \A g \in Flushers : pos'[g] \in 0..ChunkSize-1
    BY <1>1, <1>2, <1>7
  <2>2. OnePlace' /\ Outside' /\ \A g \in Flushers \ {f} : Progress(g)'
    BY <1>1, <1>3, <1>7, <2>1, OthersKeep
  <2>3. ChunkLen(f)' = n
    BY <1>7 DEF ChunkLen
  <2>4. Progress(f)'
    <3> SUFFICES ASSUME NEW i \in 1..Len(b), NEW x \in Reqs, x = b[i]
                 PROVE  /\ i > n => Fresh(x)'
                        /\ phase[f] = "fallback" /\ i <= n =>
                              IF i <= k THEN Tried(x)' ELSE Fresh(x)'
                        /\ phase[f] = "announce" /\ i <= n =>
                              IF i <= k THEN Over(x)' ELSE Tried(x)'
      BY <1>4, <1>7, <2>1, <2>3 DEF Progress, Fresh, Tried, Over
    <3>1. CASE i = k
      <4>1. x = r /\ ~(i > n) /\ i <= k
        BY <1>1, <1>4, <3>1
      <4> QED
        BY <4>1
    <3>2. CASE i # k
      <4>1. x # r /\ (i <= k <=> i <= pos[f])
        BY <1>1, <1>4, <3>2
      <4>2. /\ i > n => Fresh(x)
            /\ phase[f] = "fallback" /\ i <= n => IF i <= pos[f] THEN Tried(x) ELSE Fresh(x)
            /\ phase[f] = "announce" /\ i <= n => IF i <= pos[f] THEN Over(x) ELSE Tried(x)
        BY <1>6 DEF Progress
      <4> QED
        BY <1>5, <4>1, <4>2
    <3> QED
      BY <3>1, <3>2
  <2>5. phase' = [phase EXCEPT ![f] = phase'[f]] /\ phase'[f] \in Holding
    BY <1>7 DEF TypeOK, Holding
  <2>6. TypeOK' /\ Stopping'
    BY <1>2, <1>3, <1>7, <2>1, <2>5, SavingType, HoldingStops
  <2>7. Places'
    BY <1>7, <2>1, <2>3 DEF Places, ChunkLen
  <2> QED
    BY <2>2, <2>4, <2>6, <2>7
<1>8. CASE ~(k < n) /\ phase[f] = "fallback" /\ pos' = [pos EXCEPT ![f] = 0]
           /\ phase' = [phase EXCEPT ![f] = "announce"] /\ UNCHANGED batch
  <2>1. /\ pos'[f] = 0 /\ \A g \in Flushers \ {f} : pos'[g] = pos[g]
        /\ pos' \in [Flushers -> Nat] /\ \A g \in Flushers : pos'[g] \in 0..ChunkSize-1
    BY <1>1, <1>2, <1>8
  <2>2. /\ phase'[f] = "announce" /\ phase' = [phase EXCEPT ![f] = phase'[f]]
        /\ \A g \in Flushers \ {f} : phase'[g] = phase[g]
    BY <1>8 DEF TypeOK
  <2>3. OnePlace' /\ Outside' /\ \A g \in Flushers \ {f} : Progress(g)'
    BY <1>1, <1>3, <1>8, <2>1, <2>2, OthersKeep
  <2>4. \A g \in Flushers : ChunkLen(g)' = ChunkLen(g)
    BY <1>8 DEF ChunkLen
  <2>5. Progress(f)'
    <3> SUFFICES ASSUME NEW i \in 1..Len(b), NEW x \in Reqs, x = b[i]
                 PROVE  (i > n => Fresh(x)') /\ (i <= n => Tried(x)')
      <4>1. \A i \in 1..Len(b) : ~(i <= 0)
        OBVIOUS
      <4> QED
        BY <1>4, <1>8, <2>1, <2>2, <2>4, <4>1 DEF Progress, Fresh, Tried
    <3>1. CASE i = k
      BY <1>1, <1>4, <1>8, <3>1
    <3>2. CASE i # k
      <4>1. x # r /\ (i <= n => i <= pos[f])
        BY <1>1, <1>4, <1>8, <3>2
      <4> QED
        BY <1>5, <1>6, <1>8, <4>1 DEF Progress
    <3> QED
      BY <3>1, <3>2
  <2>6. TypeOK' /\ Stopping'
    BY <1>2, <1>3, <1>8, <2>1, <2>2, SavingType, HoldingStops DEF Holding
  <2>7. Places'
    <3>1. pos'[f] < ChunkLen(f)'
      BY <1>1, <2>1, <2>4
    <3>2. tries' \in [Flushers -> Nat] /\ (batch'[f] # <<>> <=> phase'[f] \in Holding)
      BY <1>8, <2>2, <2>6 DEF Places, Holding
    <3>3. \A g \in Flushers \ {f} :
            batch'[g] = batch[g] /\ phase'[g] = phase[g] /\ pos'[g] = pos[g]
      BY <1>8, <2>1, <2>2
    <3>4. phase'[f] = "announce" /\ phase'[f] \in Holding
      BY <2>2 DEF Holding
    <3> QED
      BY <2>1, <3>1, <3>2, <3>3, <3>4, PlacesStep
  <2> QED
    BY <2>3, <2>5, <2>6, <2>7 DEF Rows
<1>9. CASE /\ ~(k < n) /\ phase[f] = "announce" /\ pos' = [pos EXCEPT ![f] = 0]
           /\ batch' = [batch EXCEPT ![f] = rest]
           /\ phase' = [phase EXCEPT ![f] = IF rest = <<>> THEN "done" ELSE "flush"]
  <2>1. /\ pos'[f] = 0 /\ \A g \in Flushers \ {f} : pos'[g] = pos[g]
        /\ pos' \in [Flushers -> Nat] /\ \A g \in Flushers : pos'[g] \in 0..ChunkSize-1
    BY <1>1, <1>2, <1>9
  <2>2. /\ phase'[f] = IF rest = <<>> THEN "done" ELSE "flush"
        /\ phase' = [phase EXCEPT ![f] = phase'[f]]
        /\ \A g \in Flushers \ {f} : phase'[g] = phase[g]
    BY <1>9 DEF TypeOK
  <2>3. /\ rest \in Seq(Reqs) /\ Len(rest) = Len(b) - n
        /\ \A i \in 1..Len(rest) : rest[i] = b[n + i]
    BY <1>1, ChunkFacts
  <2>4. /\ batch'[f] = rest /\ \A g \in Flushers \ {f} : batch'[g] = batch[g]
        /\ batch' \in [Flushers -> Seq(Reqs)]
    BY <1>2, <1>9, <2>3
  <2> HIDE DEF rest
  <2>5. \A i \in 1..Len(rest) : n + i \in 1..Len(b) /\ n + i > n /\ n + i # k
    <3>1. Len(rest) = Len(b) - n /\ Len(b) \in Nat /\ n \in 1..Len(b) /\ k \in 1..n
      BY <1>1, <2>3
    <3> HIDE DEF n, k, b
    <3> QED
      BY <3>1
  <2>6. Distinct(rest) /\ \A x : In(rest, x) => In(b, x)
    <3>1. \A x : In(rest, x) => In(b, x)
      BY <2>3, <2>5 DEF In
    <3>2. ASSUME NEW i \in 1..Len(rest), NEW j \in 1..Len(rest), rest[i] = rest[j]
          PROVE  i = j
      <4>1. b[n + i] = b[n + j] /\ n + i \in 1..Len(b) /\ n + j \in 1..Len(b)
        BY <2>3, <2>5, <3>2
      <4>2. n + i = n + j /\ n \in Nat
        BY <1>1, <4>1 DEF Distinct
      <4> HIDE DEF n
      <4> QED
        BY <4>2
    <3> QED
      BY <3>1, <3>2 DEF Distinct
  <2>7. ASSUME NEW x \in Reqs, In(b, x) PROVE In(rest, x) \/ Over(x)'
    <3>1. PICK i \in 1..Len(b) : b[i] = x
      BY <2>7 DEF In
    <3>2. CASE i > n
      <4>1. i - n \in 1..Len(rest) /\ n + (i - n) = i
        <5>1. Len(rest) = Len(b) - n /\ Len(b) \in Nat /\ n \in 1..Len(b)
          BY <1>1, <2>3
        <5> HIDE DEF n, b
        <5> QED
          BY <3>2, <5>1
      <4> QED
        BY <2>3, <3>1, <4>1 DEF In
    <3>3. CASE i <= n /\ i # k
      <4>1. i <= pos[f] /\ b[i] # r
        BY <1>1, <1>4, <1>9, <3>3
      <4> QED
        BY <1>5, <1>6, <1>9, <3>1, <3>3, <4>1 DEF Progress
    <3>4. CASE i = k
      BY <1>4, <1>9, <3>1, <3>4
    <3> QED
      BY <1>1, <3>2, <3>3, <3>4
  <2>8. OnePlace' /\ Outside' /\ \A g \in Flushers \ {f} : Progress(g)'
    <3>1. \A x \in Reqs : ~In(b, x) => x # r
      BY <1>1
    <3> QED
      BY <1>3, <2>1, <2>2, <2>4, <2>6, <2>7, <3>1, OthersKeep
  <2>9. Progress(f)'
    <3>1. ASSUME NEW i \in 1..Len(rest), NEW x \in Reqs, x = rest[i] PROVE Fresh(x)'
      <4>1. x = b[n + i] /\ n + i \in 1..Len(b) /\ n + i > n /\ x # r
        BY <1>4, <2>3, <2>5, <3>1
      <4>2. Fresh(x)
        BY <1>6, <4>1 DEF Progress
      <4> QED
        BY <1>5, <4>1, <4>2
    <3>2. phase'[f] # "fallback" /\ phase'[f] # "announce"
      BY <2>2
    <3>3. \A i \in 1..Len(rest) : rest[i] \in Reqs
      BY <2>3
    <3> QED
      BY <2>4, <3>1, <3>2, <3>3 DEF Progress, Fresh
  <2>10. TypeOK' /\ Stopping'
    <3>1. phase[f] \in Holding /\ phase'[f] \in Holding \cup {"done"}
      BY <1>9, <2>2 DEF Holding
    <3> QED
      BY <1>3, <2>1, <2>2, <2>4, <3>1, SavingType, HoldingStops
  <2>11. Places'
    <3>1. \A g \in Flushers \ {f} :
            batch'[g] = batch[g] /\ phase'[g] = phase[g] /\ pos'[g] = pos[g]
      BY <2>1, <2>2, <2>4
    <3>2. tries' \in [Flushers -> Nat]
      BY <2>10 DEF Places
    <3>3. phase'[f] \in {"done", "flush"} /\ (phase'[f] \in Holding <=> batch'[f] # <<>>)
      BY <2>2, <2>4 DEF Holding
    <3>4. phase'[f] \in Holding \cup {"done"} /\ phase'[f] \notin {"fallback", "announce"}
      BY <3>3 DEF Holding
    <3> HIDE DEF IInv
    <3>5. Places
      BY DEF IInv
    <3> QED
      BY <2>1, <3>1, <3>2, <3>3, <3>4, <3>5, PlacesStep
  <2> QED
    BY <2>8, <2>9, <2>10, <2>11
<1> QED
  BY <1>1, <1>7, <1>8, <1>9 DEF NextInChunk

LEMMA FallbackSaveKeeps ==
    ASSUME IInv, NEW f \in Flushers, FallbackSave(f)
    PROVE  IInv'
<1> USE DEF IInv
<1>0. PICK r : r = batch[f][pos[f] + 1]
  OBVIOUS
<1>1. /\ phase[f] = "fallback"
      /\ SaveOk(r) \/ SaveErr(r)
      /\ NextInChunk(f, phase' = [phase EXCEPT ![f] = "announce"] /\ UNCHANGED batch)
      /\ UNCHANGED <<ringVars, stopCh, tries, announced>>
  BY <1>0 DEF FallbackSave
<1>2. r \in Reqs /\ Fresh(r)
  BY <1>0, <1>1, TurnFacts
<1>3. TableType /\ Rows /\ lost \subseteq Reqs /\ announced \in [Reqs -> Nat]
  BY DEF TypeOK, TableType
<1>4. /\ TableType' /\ Rows' /\ lost' \subseteq Reqs /\ Tried(r)'
      /\ \A x \in Reqs : x # r => /\ x \in Stored' <=> x \in Stored
                                  /\ x \in lost' <=> x \in lost
  BY <1>1, <1>2, <1>3, SaveOne
<1> QED
  BY <1>0, <1>1, <1>2, <1>3, <1>4, TurnKeeps DEF NextInChunk

\* onSave runs for the requests of the chunk that have a row.
LEMMA AnnounceKeeps ==
    ASSUME IInv, NEW f \in Flushers, Announce(f)
    PROVE  IInv'
<1> USE DEF IInv
<1>0. PICK r : r = batch[f][pos[f] + 1]
  OBVIOUS
<1>1. /\ phase[f] = "announce"
      /\ IF reqId[r] > 0 THEN OnSave(r) ELSE UNCHANGED announced
      /\ UNCHANGED <<ringVars, stopCh, tries, rows, lastId, reqId, lost>>
  BY <1>0 DEF Announce, db
<1>2. r \in Reqs /\ Tried(r)
  BY <1>0, <1>1, TurnFacts
<1>3. TableType /\ Rows /\ lost \subseteq Reqs /\ announced \in [Reqs -> Nat]
  BY DEF TypeOK, TableType
<1>4. NextInChunk(f,
         LET rest == SubSeq(batch[f], Len(Chunk(f)) + 1, Len(batch[f]))
         IN  /\ batch' = [batch EXCEPT ![f] = rest]
             /\ phase' = [phase EXCEPT ![f] = IF rest = <<>> THEN "done" ELSE "flush"])
  BY DEF Announce
<1>5. TableType' /\ Rows' /\ Stored' = Stored
  BY <1>1, <1>3 DEF TableType, Rows, SavedAtMostOnce, Stored
<1>6. announced' \in [Reqs -> Nat] /\ \A x \in Reqs : x # r => announced'[x] = announced[x]
  BY <1>1, <1>2, <1>3 DEF OnSave
<1>7. Over(r)'
  <2>1. reqId[r] > 0 <=> r \in Stored
    BY <1>2, <1>3, IdTells
  <2> QED
    BY <1>1, <1>2, <1>3, <1>5, <2>1 DEF OnSave, Tried, Over
<1> QED
  BY <1>0, <1>1, <1>2, <1>3, <1>4, <1>5, <1>6, <1>7, TurnKeeps DEF NextInChunk

-----------------------------------------------------------------------------
(***************************************************************************)
(* The invariants                                                          *)
(***************************************************************************)
LEMMA InitOK == Init => IInv
<1> SUFFICES ASSUME Init
             PROVE  IInv
  OBVIOUS
<1> USE PoolAssumption DEF Init, Ring!Init
<1>1. Stored = {} /\ Accepted = {} /\ Len(<<>>) = 0
  BY DEF Stored, Accepted
<1>2. \A x : ~In(<<>>, x)
  BY EmptyIn
<1>3. TypeOK
  <2>1. Ring!TypeOK
    <3>1. q \in Seq(Reqs) /\ taken \in Seq(Reqs) /\ Len(q) <= Cap
      OBVIOUS
    <3>2. con \in [Flushers -> {"out", "parked", "woken"}] /\ stopped \in BOOLEAN
      OBVIOUS
    <3>3. pushed \subseteq Reqs /\ dropped \subseteq Reqs /\ refused \subseteq Reqs
      OBVIOUS
    <3> QED
      BY ONLY <3>1, <3>2, <3>3 DEF Ring!TypeOK
  <2>2. batch \in [Flushers -> Seq(Reqs)]
    OBVIOUS
  <2>3. 0 \in 0..ChunkSize-1 /\ 0 \in 0..MaxTries-1
    OBVIOUS
  <2>4. phase \in [Flushers -> {"new", "closed", "waiting", "returned", "select",
                                "exited", "pop", "flush", "backoff", "fallback",
                                "announce", "done"}]
    OBVIOUS
  <2> QED
    BY <2>1, <2>2, <2>3, <2>4 DEF TypeOK
<1>4. OnePlace
  BY <1>2, EmptyIn DEF OnePlace
<1>5. \A f \in Flushers : Progress(f)
  BY <1>1 DEF Progress
<1>6. Outside
  BY <1>1, <1>2 DEF Outside, Fresh
<1>7. Rows
  BY DEF Rows, SavedAtMostOnce
<1>8. Places /\ Stopping
  BY DEF Places, Stopping, Holding, Flushers
<1> QED
  BY <1>3, <1>4, <1>5, <1>6, <1>7, <1>8 DEF IInv

LEMMA StutterKeeps == IInv /\ UNCHANGED vars => IInv'
<1> SUFFICES ASSUME IInv, UNCHANGED vars
             PROVE  IInv'
  OBVIOUS
<1> USE DEF IInv, vars, ringVars, local, db
<1>1. TypeOK' /\ OnePlace' /\ Rows'
  BY DEF TypeOK, Ring!TypeOK, OnePlace, Accepted, Rows, SavedAtMostOnce
<1>2. (\A f \in Flushers : Progress(f)') /\ Outside'
  BY DEF Progress, Outside, Accepted, Fresh, Tried, Over, Stored, ChunkLen
<1>3. Places' /\ Stopping'
  BY DEF Places, Stopping, ChunkLen
<1> QED
  BY <1>1, <1>2, <1>3

LEMMA StepOK == IInv /\ [Next]_vars => IInv'
<1> SUFFICES ASSUME IInv, [Next]_vars
             PROVE  IInv'
  OBVIOUS
<1>1. ASSUME NEW r \in Reqs, Emit(r)
      PROVE  IInv'
  BY <1>1, EmitKeeps
<1>2. ASSUME NEW w \in Workers, Tick(w) \/ SeeStop(w)
      PROVE  IInv'
  BY <1>2, SelectKeeps
<1>3. CASE Stop
  BY <1>3, StopKeeps
<1>4. ASSUME NEW f \in Flushers, FlushAll(f)
      PROVE  IInv'
  BY <1>4, PopKeeps, FlusherMovesKeep, SaveBatchOkKeeps, FallbackSaveKeeps, AnnounceKeeps
  DEF FlushAll, Moves
<1>5. CASE UNCHANGED vars
  BY <1>5, StutterKeeps
<1> QED
  BY <1>1, <1>2, <1>3, <1>4, <1>5 DEF Next, Terminated

\* Whatever fails, is tried again or is stopped: a request is in one place, and
\* what is known of it there agrees with the table.
THEOREM Invariance == Spec => []IInv
BY InitOK, StepOK, PTL DEF Spec

\* When Stop has returned, nobody holds anything.
LEMMA ReturnedIsEmpty ==
    ASSUME IInv, phase[Stopper] \in {"done", "returned"}
    PROVE  /\ q = <<>> /\ \A f \in Flushers : batch[f] = <<>>
           /\ \A r \in Accepted : r \in dropped \/ Over(r)
<1> USE DEF IInv
<1>1. q = <<>> /\ \A f \in Flushers : batch[f] = <<>>
  BY DEF Stopping, Places, Holding, Flushers
<1> QED
  BY <1>1, EmptyIn DEF Outside

\* AsyncWriterPool: the types, no request lost between the ring and the
\* database or stored after it was given up (flushAll, memring.go:259), and a
\* Stop that leaves nothing in the ring or half way (memring.go:221).
THEOREM Safety == Spec => []Inv
<1>1. IInv => Inv
  <2> SUFFICES ASSUME IInv
               PROVE  Inv
    OBVIOUS
  <2> USE DEF IInv
  <2>1. q \in Seq(Reqs) /\ batch \in [Flushers -> Seq(Reqs)] /\ Accepted \subseteq Reqs
        /\ lost \subseteq Reqs /\ dropped \subseteq Accepted /\ Stored \subseteq Reqs
    BY DEF TypeOK, Ring!TypeOK, Accepted, Outside, Stored
  <2>2. \A r : (r \in Range(q) <=> In(q, r))
               /\ \A f \in Flushers : r \in Range(batch[f]) <=> In(batch[f], r)
    BY <2>1 DEF In, Range
  <2>3. \A r \in Reqs : ~(r \in Stored /\ r \in lost)
    <3> SUFFICES ASSUME NEW r \in Reqs, r \in Stored, r \in lost
                 PROVE  FALSE
      OBVIOUS
    <3>1. ~Fresh(r) /\ ~Tried(r) /\ ~Over(r)
      BY DEF Fresh, Tried, Over
    <3>2. PICK f \in Flushers : In(batch[f], r)
      BY <3>1 DEF Outside
    <3>3. PICK i \in 1..Len(batch[f]) : batch[f][i] = r
      BY <3>2 DEF In
    <3>4. phase[f] \in Holding
      BY <2>1, <3>2, InType DEF Places
    <3>5. i > ChunkLen(f) \/ i <= ChunkLen(f)
      <4>1. ChunkLen(f) \in Nat
        BY <2>1, <3>2, InType, ChunkFacts
      <4> QED
        BY <4>1
    <3> QED
      BY <3>1, <3>3, <3>4, <3>5 DEF Progress, Holding
  <2>4. GivenUp \cap Stored = {}
    BY <2>1, <2>3 DEF GivenUp, Outside, Fresh
  <2>5. Stored \cup lost \subseteq Accepted
    BY <2>1 DEF Outside, Fresh
  <2>6. \A r \in Accepted : r \in GivenUp \cup Stored \/ In(q, r)
                            \/ \E f \in Flushers : In(batch[f], r)
    BY DEF Outside, Over, GivenUp
  <2>7. NothingVanishes
    <3>1. \A r : In(q, r) \/ (\E f \in Flushers : In(batch[f], r)) => r \in Accepted
      BY <2>1, InType DEF OnePlace
    <3>2. GivenUp \subseteq Accepted
      BY <2>1, <2>5 DEF GivenUp
    <3> QED
      BY <2>2, <2>4, <2>5, <2>6, <3>1, <3>2 DEF NothingVanishes
  <2>8. StopLeavesNothing
    <3> SUFFICES ASSUME phase[Stopper] = "returned"
                 PROVE  /\ q = <<>> /\ \A f \in Flushers : batch[f] = <<>>
                        /\ \A r \in Accepted : r \in GivenUp \/ (r \in Stored /\ announced[r] = 1)
      BY DEF StopLeavesNothing
    <3> QED
      BY ReturnedIsEmpty DEF Over, GivenUp
  <2> QED
    BY <2>7, <2>8 DEF Inv
<1> QED
  BY <1>1, Invariance, PTL

\* No retry and no fallback of flushAll gives a captured request two rows.
THEOREM StoredOnce == Spec => []SavedAtMostOnce
<1>1. IInv => SavedAtMostOnce
  BY DEF IInv, Rows
<1> QED
  BY <1>1, Invariance, PTL

-----------------------------------------------------------------------------
(***************************************************************************)
(* The pool implements CaptureSink                                         *)
(***************************************************************************)
Closed == phase[Stopper] = "returned"

\* What is fresh and was accepted is pending.
LEMMA FreshIsPending ==
    ASSUME NEW r \in Accepted \ dropped, Fresh(r)
    PROVE  r \in Sink!Pending
BY DEF Sink!Pending, Sink!Stored, Stored, Fresh, GivenUp

\* A transaction for requests that are pending is Persist.
LEMMA InsertIsPersist ==
    ASSUME IInv, NEW s \in Seq(Reqs), s # <<>>, Distinct(s),
           \A i \in 1..Len(s) : s[i] \in Accepted \ dropped /\ Fresh(s[i]),
           Insert(s, 1..Len(s)),
           UNCHANGED <<Accepted, announced, GivenUp, Closed>>
    PROVE  Sink!Persist
<1>1. TableType /\ Rows /\ \A i \in 1..Len(s) : s[i] \notin Stored
  BY DEF IInv, TypeOK, TableType, Fresh
<1>2. /\ TableType' /\ Rows'
      /\ rows \subseteq rows' /\ rows' \ rows # {}
      /\ \A y \in rows' \ rows : y.req \in Reqs /\ In(s, y.req)
      /\ \A x \in rows, y \in rows' \ rows : x.id < y.id
  BY <1>1, InsertFacts
<1>3. \A y \in rows' \ rows : y.req \in Sink!Pending
  BY <1>2, FreshIsPending DEF In
<1>4. \A x, y \in rows' \ rows : x.req = y.req \/ x.id = y.id => x = y
  BY <1>2 DEF Rows, SavedAtMostOnce
<1> QED
  BY <1>2, <1>3, <1>4 DEF Sink!Persist, Closed

\* Push is Accept, and may give up the record or the oldest one in the ring.
LEMMA EmitRefines ==
    ASSUME IInv, NEW r \in Reqs, Emit(r)
    PROVE  Sink!Next \/ UNCHANGED Sink!vars
<1> USE DEF IInv
<1>1. /\ r \notin pushed /\ pushed' = pushed \cup {r}
      /\ UNCHANGED <<rows, announced, lost, Closed>>
      /\ Ring!Refuse(r) \/ Ring!DropNew(r) \/ Ring!Add(r) \/ Ring!DropOldest(r)
  BY DEF Emit, Ring!Push, db, Closed
<1>2. r \notin Accepted /\ refused \subseteq pushed
  BY <1>1 DEF Accepted, Outside
<1>3. CASE Ring!Refuse(r)
  <2>1. Accepted' = Accepted /\ GivenUp' = GivenUp
    BY <1>1, <1>2, <1>3 DEF Ring!Refuse, Accepted, GivenUp
  <2> QED
    BY <1>1, <2>1 DEF Sink!vars, Closed
<1>4. ASSUME ~stopped, refused' = refused,
             \E D \in SUBSET (Sink!Pending \cup {r}) : dropped' = dropped \cup D
      PROVE  Sink!Next
  <2>1. ~Closed
    BY <1>4 DEF Stopping, Closed
  <2>2. Accepted' = Accepted \cup {r}
    BY <1>1, <1>2, <1>4 DEF Accepted
  <2>3. \E D \in SUBSET (Sink!Pending \cup {r}) : GivenUp' = GivenUp \cup D
    BY <1>1, <1>4 DEF GivenUp
  <2>4. Sink!Accept(r)
    BY <1>1, <1>2, <2>1, <2>2, <2>3 DEF Sink!Accept, Closed
  <2> QED
    BY <2>4 DEF Sink!Next
<1>5. CASE Ring!DropNew(r)
  BY <1>4, <1>5 DEF Ring!DropNew
<1>6. CASE Ring!Add(r)
  <2>1. dropped' = dropped \cup {}
    BY <1>6 DEF Ring!Add
  <2>2. {} \in SUBSET (Sink!Pending \cup {r})
    OBVIOUS
  <2> QED
    BY <1>4, <1>6, <2>1, <2>2 DEF Ring!Add
<1>7. CASE Ring!DropOldest(r)
  <2>1. q # <<>> /\ q \in Seq(Reqs) /\ dropped' = dropped \cup {Head(q)}
    BY <1>7 DEF Ring!DropOldest, TypeOK, Ring!TypeOK
  <2>2. Head(q) \in Reqs /\ In(q, Head(q))
    BY <2>1, TailIn
  <2>3. Head(q) \in Sink!Pending
    BY <2>2, FreshIsPending DEF OnePlace, Outside
  <2> QED
    BY <1>4, <1>7, <2>1, <2>3 DEF Ring!DropOldest
<1> QED
  BY <1>1, <1>3, <1>4, <1>5, <1>6, <1>7

LEMMA SaveBatchOkRefines ==
    ASSUME IInv, NEW f \in Flushers, SaveBatchOk(f)
    PROVE  Sink!Next
<1> USE DEF IInv
<1> DEFINE n == ChunkLen(f)
           b == batch[f]
           s == Chunk(f)
<1>1. /\ phase[f] = "flush" /\ Insert(s, DOMAIN s)
      /\ phase' = [phase EXCEPT ![f] = "announce"]
      /\ UNCHANGED <<pushed, refused, dropped, lost, announced>>
  BY DEF SaveBatchOk, ringVars
<1>2. b \in Seq(Reqs) /\ b # <<>> /\ Distinct(b)
  BY <1>1 DEF TypeOK, Places, Holding, OnePlace
<1>3. /\ n \in 1..Len(b) /\ s \in Seq(Reqs) /\ Len(s) = n /\ DOMAIN s = 1..n
      /\ \A i \in 1..n : s[i] = b[i]
  BY <1>2, ChunkFacts
<1>4. UNCHANGED <<Accepted, GivenUp, Closed>>
  BY <1>1 DEF Accepted, GivenUp, Closed, TypeOK
<1> HIDE DEF s, n
<1>5. Distinct(s) /\ s # <<>>
  BY <1>2, <1>3 DEF Distinct
<1>6. \A i \in 1..Len(s) : s[i] \in Accepted \ dropped /\ Fresh(s[i])
  <2>1. \A i \in 1..n : i \in 1..Len(b) /\ b[i] \in Reqs /\ In(b, b[i]) /\ i <= n
    BY <1>2, <1>3 DEF In
  <2> QED
    BY <1>1, <1>3, <2>1 DEF Progress, OnePlace, n
<1>7. Sink!Persist
  BY <1>1, <1>3, <1>4, <1>5, <1>6, InsertIsPersist
<1> QED
  BY <1>7 DEF Sink!Next

\* A Save of the fallback is Persist, and its failure Discard.
LEMMA FallbackSaveRefines ==
    ASSUME IInv, NEW f \in Flushers, FallbackSave(f)
    PROVE  Sink!Next
<1> USE DEF IInv
<1>0. PICK r : r = batch[f][pos[f] + 1]
  OBVIOUS
<1>1. /\ phase[f] = "fallback"
      /\ SaveOk(r) \/ SaveErr(r)
      /\ phase' = phase \/ phase' = [phase EXCEPT ![f] = "announce"]
      /\ UNCHANGED <<pushed, refused, dropped, announced>>
  BY <1>0 DEF FallbackSave, NextInChunk, ringVars
<1>2. r \in Accepted \ dropped /\ Fresh(r) /\ r \in Reqs
  BY <1>0, <1>1, TurnFacts DEF OnePlace
<1>3. UNCHANGED <<Accepted, Closed>>
  <2>1. phase'[Stopper] = "returned" <=> phase[Stopper] = "returned"
    BY <1>1 DEF TypeOK, Flushers
  <2> QED
    BY <1>1, <2>1 DEF Accepted, Closed
<1>4. CASE SaveOk(r)
  <2> DEFINE s == <<r>>
  <2>1. s \in Seq(Reqs) /\ s # <<>> /\ Len(s) = 1 /\ s[1] = r
    BY <1>2
  <2>2. GivenUp' = GivenUp /\ Insert(s, {1})
    BY <1>1, <1>4 DEF SaveOk, GivenUp
  <2> HIDE DEF s
  <2>3. 1..Len(s) = {1}
    BY <2>1
  <2>4. Distinct(s) /\ \A i \in 1..Len(s) : s[i] = r
    BY <2>1, <2>3 DEF Distinct
  <2>5. Sink!Persist
    BY <1>1, <1>2, <1>3, <2>1, <2>2, <2>3, <2>4, InsertIsPersist
  <2> QED
    BY <2>5 DEF Sink!Next
<1>5. CASE SaveErr(r)
  <2>1. rows' = rows /\ GivenUp' = GivenUp \cup {r}
    BY <1>1, <1>5 DEF SaveErr, GivenUp
  <2>2. Sink!Discard(r)
    BY <1>1, <1>2, <1>3, <2>1, FreshIsPending DEF Sink!Discard, Closed
  <2> QED
    BY <1>2, <2>2 DEF Sink!Next
<1> QED
  BY <1>1, <1>4, <1>5

\* onSave is Announce; a request without a row is passed over.
LEMMA AnnounceRefines ==
    ASSUME IInv, NEW f \in Flushers, Announce(f)
    PROVE  Sink!Next \/ UNCHANGED Sink!vars
<1> USE DEF IInv
<1>0. PICK r : r = batch[f][pos[f] + 1]
  OBVIOUS
<1>1. /\ phase[f] = "announce"
      /\ IF reqId[r] > 0 THEN OnSave(r) ELSE UNCHANGED announced
      /\ UNCHANGED <<pushed, refused, dropped, rows, lost>>
  BY <1>0 DEF Announce, db, ringVars
<1>2. r \in Reqs /\ Tried(r)
  BY <1>0, <1>1, TurnFacts
<1>3. phase'[Stopper] = "returned" <=> phase[Stopper] = "returned"
  BY <1>1 DEF Announce, NextInChunk, TypeOK, Flushers
<1>4. UNCHANGED <<Accepted, GivenUp>> /\ Closed' = Closed
  BY <1>1, <1>3 DEF Accepted, GivenUp, Closed
<1>5. CASE reqId[r] > 0
  <2>1. r \in Stored
    BY <1>2, <1>5, IdTells DEF TypeOK, TableType
  <2>2. announced[r] = 0 /\ announced' = [announced EXCEPT ![r] = 1]
    BY <1>1, <1>2, <1>5 DEF OnSave, Tried, TypeOK
  <2>3. Sink!Announce(r)
    BY <1>1, <1>4, <2>1, <2>2 DEF Sink!Announce, Sink!Stored, Stored, Closed
  <2> QED
    BY <1>2, <2>3 DEF Sink!Next
<1>6. CASE ~(reqId[r] > 0)
  BY <1>1, <1>4, <1>6 DEF Sink!vars, Closed
<1> QED
  BY <1>5, <1>6

\* The return of Stop is Close: everything is settled.
LEMMA ReturnRefines ==
    ASSUME IInv, NEW f \in Flushers, Return(f)
    PROVE  Sink!Next \/ UNCHANGED Sink!vars
<1> USE DEF IInv
<1>1. /\ phase[f] = "done"
      /\ phase' = [phase EXCEPT ![f] = IF f = Stopper THEN "returned" ELSE "select"]
      /\ UNCHANGED <<Accepted, GivenUp, rows, announced>>
  BY DEF Return, ringVars, db, Accepted, GivenUp
<1>2. CASE f # Stopper
  BY <1>1, <1>2 DEF Sink!vars, TypeOK, Flushers
<1>3. CASE f = Stopper
  <2>1. \A r \in Accepted : r \in dropped \/ Over(r)
    BY <1>1, <1>3, ReturnedIsEmpty
  <2>2. Sink!Pending = {}
    BY <2>1 DEF Sink!Pending, Sink!Stored, Stored, Over, GivenUp
  <2>3. ASSUME NEW r \in Sink!Stored PROVE announced[r] = 1
    <3>1. r \in Stored /\ r \in Reqs
      BY <2>3 DEF Sink!Stored, Stored, TypeOK
    <3> QED
      BY <2>1, <3>1 DEF Outside, Fresh, Over
  <2>4. ~(phase[Stopper] = "returned") /\ phase'[Stopper] = "returned"
    BY <1>1, <1>3 DEF TypeOK, Flushers
  <2>5. Sink!Close
    BY <1>1, <2>2, <2>3, <2>4 DEF Sink!Close, Sink!Settled
  <2> QED
    BY <2>5 DEF Sink!Next
<1> QED
  BY <1>2, <1>3

\* Everything else is none of the sink's business.
LEMMA OthersStutter ==
    ASSUME IInv,
           \/ \E w \in Workers : Tick(w) \/ SeeStop(w)
           \/ Stop
           \/ \E f \in Flushers : \/ Pop(f) \/ PopWait(f) \/ PopNil(f) \/ SaveBatchErr(f)
                                  \/ BackoffOver(f) \/ BackoffStopped(f)
           \/ UNCHANGED vars
    PROVE  UNCHANGED Sink!vars
<1> USE DEF IInv
<1>1. UNCHANGED <<pushed, refused, dropped, rows, lost, announced>>
  BY DEF Tick, SeeStop, Stop, StopClose, StopRing, StopWaited, Pop, PopWait, PopNil,
     SaveBatchErr, BackoffOver, BackoffStopped, Ring!Take, Ring!Park, Ring!Leave, Ring!Stop,
     ringVars, db, vars
<1>2. phase'[Stopper] = "returned" <=> phase[Stopper] = "returned"
  BY PoolAssumption
  DEF Tick, SeeStop, Stop, StopClose, StopRing, StopWaited, Pop, PopWait, PopNil,
      SaveBatchErr, BackoffOver, BackoffStopped, Flushers, TypeOK, vars
<1> QED
  BY <1>1, <1>2 DEF Sink!vars, Accepted, GivenUp

LEMMA StepRefines == IInv /\ [Next]_vars => [Sink!Next]_(Sink!vars)
<1> SUFFICES ASSUME IInv, [Next]_vars
             PROVE  Sink!Next \/ UNCHANGED Sink!vars
  OBVIOUS
<1> QED
  BY EmitRefines, SaveBatchOkRefines, FallbackSaveRefines, AnnounceRefines, ReturnRefines,
     OthersStutter DEF Next, FlushAll, Terminated

\* The pool implements the sink that the rest of the program counts on
\* (CaptureSink): a row per request at most, announced once and after it
\* exists, and nothing half way after Stop.
THEOREM Refinement == Spec => SinkSpec
<1>1. Init => Sink!Init
  BY PoolAssumption DEF Init, Ring!Init, Sink!Init, Accepted, GivenUp, Flushers
<1> QED
  BY <1>1, StepRefines, Invariance, PTL DEF Spec, SinkSpec, Sink!Spec
=============================================================================
