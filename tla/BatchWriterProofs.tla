-------------------------- MODULE BatchWriterProofs --------------------------
(***************************************************************************)
(* Theorems about BatchWriter for any number of requests, workers and      *)
(* calls of Stop, and any capacity, batch size and number of attempts.     *)
(***************************************************************************)
EXTENDS BatchWriter, Integers, TLAPS

-----------------------------------------------------------------------------
(***************************************************************************)
(* Queues of requests, seen as sets of distinct elements                   *)
(***************************************************************************)
\* e is somewhere in the queue q.
In(q, e) == \E i \in 1..Len(q) : q[i] = e

\* No element is in q twice.
Distinct(q) == \A i, j \in 1..Len(q) : q[i] = q[j] => i = j

\* A queue built by Append holds one element more, at its end.
LEMMA AppendIn ==
    ASSUME NEW S, NEW q \in Seq(S), NEW e \in S
    PROVE  /\ Append(q, e) \in Seq(S)
           /\ Append(q, e) # <<>>
           /\ Len(Append(q, e)) = Len(q) + 1
           /\ \A x : In(Append(q, e), x) <=> In(q, x) \/ x = e
           /\ Distinct(q) /\ ~In(q, e) => Distinct(Append(q, e))
<1>1. /\ Append(q, e) \in Seq(S)
      /\ Append(q, e) # <<>>
      /\ Len(Append(q, e)) = Len(q) + 1
      /\ \A i \in 1..Len(q) : Append(q, e)[i] = q[i]
      /\ Append(q, e)[Len(q) + 1] = e
  OBVIOUS
<1>2. \A x : In(Append(q, e), x) <=> In(q, x) \/ x = e
  BY <1>1 DEF In
<1>3. Distinct(q) /\ ~In(q, e) => Distinct(Append(q, e))
  BY <1>1 DEF In, Distinct
<1>4. QED
  BY <1>1, <1>2, <1>3

\* Taking the head off a queue of distinct elements leaves the others.
LEMMA TailIn ==
    ASSUME NEW S, NEW q \in Seq(S), q # <<>>
    PROVE  /\ Head(q) \in S /\ In(q, Head(q))
           /\ Tail(q) \in Seq(S) /\ Len(Tail(q)) = Len(q) - 1
           /\ Distinct(q) => Distinct(Tail(q))
           /\ \A x : In(Tail(q), x) => In(q, x)
           /\ Distinct(q) => \A x : In(Tail(q), x) <=> In(q, x) /\ x # Head(q)
<1>1. /\ Len(q) \in Nat /\ Len(q) >= 1
      /\ Head(q) = q[1] /\ q[1] \in S
      /\ Tail(q) \in Seq(S) /\ Len(Tail(q)) = Len(q) - 1
      /\ \A i \in 1..Len(Tail(q)) : Tail(q)[i] = q[i + 1]
  OBVIOUS
<1>2. In(q, Head(q))
  BY <1>1 DEF In
<1>3. \A x : In(Tail(q), x) => In(q, x)
  <2>1. SUFFICES ASSUME NEW x, NEW i \in 1..Len(Tail(q)), Tail(q)[i] = x
                 PROVE  In(q, x)
    BY DEF In
  <2>2. i + 1 \in 1..Len(q) /\ q[i + 1] = x
    BY <1>1, <2>1
  <2>3. QED
    BY <2>2 DEF In
<1>4. ASSUME Distinct(q)
      PROVE  Distinct(Tail(q)) /\ ~In(Tail(q), Head(q))
  <2>1. \A i \in 1..Len(Tail(q)) : i + 1 \in 1..Len(q) /\ Tail(q)[i] = q[i + 1]
    BY <1>1
  <2>2. Distinct(Tail(q))
    BY <1>1, <1>4, <2>1 DEF Distinct
  <2>3. ~In(Tail(q), Head(q))
    BY <1>1, <1>4, <2>1 DEF Distinct, In
  <2>4. QED
    BY <2>2, <2>3
<1>5. \A x : In(q, x) => x = Head(q) \/ In(Tail(q), x)
  <2>1. SUFFICES ASSUME NEW x, NEW i \in 1..Len(q), q[i] = x, x # Head(q)
                 PROVE  In(Tail(q), x)
    BY DEF In
  <2>2. i - 1 \in 1..Len(Tail(q)) /\ Tail(q)[i - 1] = x
    BY <1>1, <2>1
  <2>3. QED
    BY <2>2 DEF In
<1>6. QED
  BY <1>1, <1>2, <1>3, <1>4, <1>5

\* Nothing is in the empty queue.
LEMMA EmptyIn == Distinct(<<>>) /\ \A x : ~In(<<>>, x)
  BY DEF In, Distinct

\* What is in a queue of requests is a request.
LEMMA InType ==
    ASSUME NEW S, NEW q \in Seq(S), NEW x, In(q, x)
    PROVE  x \in S /\ q # <<>>
  BY DEF In

-----------------------------------------------------------------------------
(***************************************************************************)
(* The inductive invariant: where a request can be, and what is known of   *)
(* it there.                                                               *)
(***************************************************************************)
\* Nothing has been done with r yet.
Fresh(r) == r \notin Stored /\ r \notin lost /\ announced[r] = 0

\* r has its row and waits for onSave.
Inserted(r) ==
    /\ [id |-> reqId[r], req |-> r] \in rows
    /\ r \notin lost
    /\ announced[r] = 0

\* A request is at one position of one queue, and is there only when its
\* Enqueue has returned.
OnePlace ==
    /\ Distinct(ch)
    /\ \A w \in Workers : Distinct(batch[w])
    /\ \A v, w \in Workers, r \in Reqs : In(batch[v], r) /\ In(batch[w], r) => v = w
    /\ \A w \in Workers, r \in Reqs : ~(In(ch, r) /\ In(batch[w], r))
    /\ \A r \in Reqs : In(ch, r) => enq[r] = "returned"
    /\ \A w \in Workers, r \in Reqs : In(batch[w], r) => enq[r] = "returned"

\* The request r of w's batch has been inserted.
Done(w, r) ==
    phase[w] = "announce" \/ (phase[w] = "announceSync" /\ r = Head(batch[w]))

Progress ==
    /\ \A r \in Reqs : enq[r] \in {"new", "saving"} => Fresh(r)
    /\ \A r \in Reqs : enq[r] = "announcing" => Inserted(r)
    /\ \A r \in Reqs : In(ch, r) => Fresh(r)
    /\ \A w \in Workers, r \in Reqs : In(batch[w], r) =>
          (Done(w, r) /\ Inserted(r)) \/ (~Done(w, r) /\ Fresh(r))
    /\ \A r \in Reqs : enq[r] = "returned" =>
          \/ In(ch, r)
          \/ \E w \in Workers : In(batch[w], r)
          \/ r \in lost
          \/ r \in Stored /\ announced[r] = 1

\* Ids, and the field req.ID of every request that has a row.
Rows ==
    /\ SavedAtMostOnce
    /\ \A row \in rows : row.id <= lastId
    /\ AnnouncedIsPersisted
    /\ \A r \in Reqs : ~(r \in lost /\ r \in Stored)

\* enqMu is held once, and only the Stop that holds it keeps the workers going
\* after `stopped`.
Mutex ==
    /\ \A r, q \in Reqs : enq[r] \in {"saving", "announcing"} /\
                          enq[q] \in {"saving", "announcing"} => r = q
    /\ \A s, t \in Stoppers : stp[s] \in {"waiting", "draining"} /\
                              stp[t] \in {"waiting", "draining"} => s = t
    /\ \A r \in Reqs, s \in Stoppers :
          ~(enq[r] \in {"saving", "announcing"} /\ stp[s] \in {"waiting", "draining"})

Stopping ==
    /\ \A s \in Stoppers : stp[s] # "new" => stopped
    /\ stopped => \E s \in Stoppers : stp[s] # "new"
    /\ stopped => \/ \E s \in Stoppers : stp[s] = "waiting"
                  \/ \A w \in Workers : phase[w] = "exited"
    /\ \A s \in Stoppers : stp[s] \in {"draining", "returned"} =>
          \A w \in Workers : phase[w] = "exited"
    /\ \A w \in Workers : quit[w] => stopped
    /\ \A w \in Workers : phase[w] \in {"drain", "exited"} => quit[w]
    /\ \A w \in Workers : quit[w] /\ phase[w] # "drain" => ch = <<>>
    /\ \A w \in Workers : phase[w] = "exited" => batch[w] = <<>>
    /\ \A w \in Workers : phase[w] \in {"flush", "announce", "fallback", "announceSync"}
          => batch[w] # <<>>

IInv == TypeOK /\ OnePlace /\ Progress /\ Rows /\ Mutex /\ Stopping


-----------------------------------------------------------------------------
(***************************************************************************)
(* What one transaction does.                                              *)
(***************************************************************************)

\* Save and SaveBatch add one row for each request they store, with an id
\* that is new and that req.ID then holds.
LEMMA InsertFacts ==
    ASSUME TypeOK, Rows,
           NEW q \in Seq(Reqs), NEW ok \in SUBSET (1..Len(q)),
           Distinct(q), \A r \in Reqs : In(q, r) => r \notin Stored,
           Insert(q, ok)
    PROVE  /\ rows' \subseteq [id : Nat \ {0}, req : Reqs]
           /\ lastId' \in Nat
           /\ reqId' \in [Reqs -> Nat]
           /\ rows \subseteq rows'
           /\ SavedAtMostOnce'
           /\ \A row \in rows' : row.id <= lastId'
           /\ \A x \in rows, y \in rows' \ rows : x.id < y.id
           /\ \A y \in rows' \ rows : \E i \in ok : y.req = q[i]
           /\ \A i \in ok : [id |-> reqId'[q[i]], req |-> q[i]] \in rows'
           /\ \A r \in Reqs : ~In(q, r) => reqId'[r] = reqId[r]
<1> DEFINE row(i) == [id |-> lastId + i, req |-> q[i]]
<1>1. rows' = rows \cup {row(i) : i \in ok} /\ lastId' = lastId + Len(q)
  BY DEF Insert
<1>2. /\ rows \subseteq [id : Nat \ {0}, req : Reqs] /\ lastId \in Nat
      /\ reqId \in [Reqs -> Nat]
      /\ SavedAtMostOnce /\ \A x \in rows : x.id <= lastId
  BY DEF TypeOK, Rows
<1>3. /\ Len(q) \in Nat
      /\ \A i \in ok : i \in 1..Len(q) /\ q[i] \in Reqs /\ In(q, q[i])
  BY DEF In
<1>4. \A i \in ok : /\ row(i) \in [id : Nat \ {0}, req : Reqs]
                    /\ row(i).id = lastId + i /\ row(i).req = q[i]
  BY <1>2, <1>3
<1>5. rows' \subseteq [id : Nat \ {0}, req : Reqs] /\ lastId' \in Nat
  BY <1>1, <1>2, <1>3, <1>4
<1>6. \A x \in rows' : x.id <= lastId'
  BY <1>1, <1>2, <1>3, <1>4
<1>7. \A y \in rows' \ rows : \E i \in ok : y = row(i)
  BY <1>1
<1>8. \A x \in rows, i \in ok : x.id < row(i).id
  BY <1>2, <1>3, <1>4
<1>9. \A x \in rows, i \in ok : x.req # row(i).req
  BY <1>3, <1>4 DEF Stored
<1>10. \A i, j \in ok : row(i).req = row(j).req \/ row(i).id = row(j).id
                        => row(i) = row(j)
  <2>1. SUFFICES ASSUME NEW i \in ok, NEW j \in ok,
                        q[i] = q[j] \/ lastId + i = lastId + j
                 PROVE  i = j
    BY <1>4
  <2>2. i \in Int /\ j \in Int /\ lastId \in Int
    BY <1>2, <1>3
  <2>3. QED
    BY <1>3, <2>1, <2>2 DEF Distinct
<1>11. SavedAtMostOnce'
  <2>1. SUFFICES ASSUME NEW x \in rows', NEW y \in rows',
                        x.req = y.req \/ x.id = y.id
                 PROVE  x = y
    BY DEF SavedAtMostOnce
  <2>2. CASE x \in rows /\ y \in rows
    BY <1>2, <2>1, <2>2 DEF SavedAtMostOnce
  <2>3. CASE x \in rows /\ y \notin rows
    <3>1. PICK i \in ok : y = row(i)
      BY <1>7, <2>3
    <3>2. x.id < y.id /\ x.req # y.req
      BY <1>8, <1>9, <2>3, <3>1
    <3>3. x.id \in Nat /\ y.id \in Nat
      BY <1>5
    <3>4. QED
      BY <2>1, <3>2, <3>3
  <2>4. CASE x \notin rows /\ y \in rows
    <3>1. PICK i \in ok : x = row(i)
      BY <1>7, <2>4
    <3>2. y.id < x.id /\ x.req # y.req
      BY <1>8, <1>9, <2>4, <3>1
    <3>3. x.id \in Nat /\ y.id \in Nat
      BY <1>5
    <3>4. QED
      BY <2>1, <3>2, <3>3
  <2>5. CASE x \notin rows /\ y \notin rows
    BY <1>7, <1>10, <2>1, <2>5
  <2>6. QED
    BY <2>2, <2>3, <2>4, <2>5
<1>12. /\ reqId' \in [Reqs -> Nat]
       /\ \A r \in Reqs : ~In(q, r) => reqId'[r] = reqId[r]
       /\ \A i \in ok : reqId'[q[i]] = lastId + i
  <2>1. reqId' = [r \in Reqs |-> IF \E i \in ok : q[i] = r
                                THEN lastId + (CHOOSE i \in ok : q[i] = r)
                                ELSE reqId[r]]
    BY DEF Insert
  <2>2. ASSUME NEW r \in Reqs, \E i \in ok : q[i] = r
        PROVE  /\ reqId'[r] \in Nat
               /\ \A i \in ok : q[i] = r => reqId'[r] = lastId + i
    <3>1. DEFINE c == CHOOSE i \in ok : q[i] = r
    <3>2. c \in ok /\ q[c] = r
      BY <2>2
    <3>3. reqId'[r] = lastId + c
      BY <2>1, <2>2
    <3>4. \A i \in ok : q[i] = r => i = c
      BY <1>3, <3>2 DEF Distinct
    <3>. HIDE DEF c
    <3>5. c \in Nat /\ lastId \in Nat
      BY <1>2, <1>3, <3>2
    <3>6. QED
      BY <3>3, <3>4, <3>5
  <2>3. ASSUME NEW r \in Reqs, ~\E i \in ok : q[i] = r
        PROVE  reqId'[r] = reqId[r]
    BY <2>1, <2>3
  <2>4. \A r \in Reqs : ~In(q, r) => ~\E i \in ok : q[i] = r
    BY DEF In
  <2>5. \A r \in Reqs : reqId'[r] \in Nat
    BY <1>2, <2>2, <2>3
  <2>6. reqId' \in [Reqs -> Nat]
    BY <2>1, <2>5
  <2>7. QED
    BY <1>3, <2>2, <2>3, <2>4, <2>6
<1>13. \A y \in rows' \ rows : \E i \in ok : y.req = q[i]
  BY <1>4, <1>7
<1>14. \A x \in rows, y \in rows' \ rows : x.id < y.id
  BY <1>7, <1>8
<1>15. \A i \in ok : [id |-> reqId'[q[i]], req |-> q[i]] \in rows'
  BY <1>1, <1>12
<1>16. QED
  BY <1>1, <1>5, <1>6, <1>11, <1>12, <1>13, <1>14, <1>15

\* A transaction that stores all of q leaves the table sound: used for
\* SaveBatch, and for Save with a queue of one.
LEMMA InsertAll ==
    ASSUME TypeOK, Rows,
           NEW q \in Seq(Reqs), Distinct(q),
           \A r \in Reqs : In(q, r) => Fresh(r),
           Insert(q, 1..Len(q)), UNCHANGED <<lost, announced>>
    PROVE  /\ rows' \subseteq [id : Nat \ {0}, req : Reqs]
           /\ lastId' \in Nat
           /\ reqId' \in [Reqs -> Nat]
           /\ \A r \in Reqs : r \in Stored' <=> r \in Stored \/ In(q, r)
           /\ \A r \in Reqs : In(q, r) => Inserted(r)'
           /\ \A r \in Reqs : Inserted(r) => Inserted(r)'
           /\ Rows'
<1>1. \A r \in Reqs : In(q, r) => r \notin Stored
  BY DEF Fresh
<1>2. /\ rows' \subseteq [id : Nat \ {0}, req : Reqs]
      /\ lastId' \in Nat
      /\ reqId' \in [Reqs -> Nat]
      /\ rows \subseteq rows'
      /\ SavedAtMostOnce'
      /\ \A row \in rows' : row.id <= lastId'
      /\ \A y \in rows' \ rows : \E i \in 1..Len(q) : y.req = q[i]
      /\ \A i \in 1..Len(q) : [id |-> reqId'[q[i]], req |-> q[i]] \in rows'
      /\ \A r \in Reqs : ~In(q, r) => reqId'[r] = reqId[r]
  BY <1>1, InsertFacts
<1>3. \A r \in Reqs : In(q, r) => [id |-> reqId'[r], req |-> r] \in rows'
  BY <1>2 DEF In
<1>4. \A r \in Reqs : r \in Stored' <=> r \in Stored \/ In(q, r)
  <2>1. \A r \in Reqs : r \in Stored => r \in Stored'
    BY <1>2 DEF Stored
  <2>2. ASSUME NEW r \in Reqs, In(q, r)
        PROVE  r \in Stored'
    <3>1. [id |-> reqId'[r], req |-> r].req = r
      OBVIOUS
    <3>2. QED
      BY <1>3, <2>2, <3>1 DEF Stored
  <2>3. ASSUME NEW r \in Reqs, r \in Stored', r \notin Stored
        PROVE  In(q, r)
    <3>1. PICK y \in rows' : y.req = r
      BY <2>3 DEF Stored
    <3>2. y \notin rows
      BY <2>3, <3>1 DEF Stored
    <3>3. QED
      BY <1>2, <3>1, <3>2 DEF In
  <2>4. QED
    BY <2>1, <2>2, <2>3
<1>5. \A r \in Reqs : In(q, r) => Inserted(r)'
  BY <1>3 DEF Inserted, Fresh
<1>6. ASSUME NEW r \in Reqs, [id |-> reqId[r], req |-> r] \in rows
      PROVE  reqId'[r] = reqId[r] /\ [id |-> reqId'[r], req |-> r] \in rows'
  <2>1. [id |-> reqId[r], req |-> r].req = r
    OBVIOUS
  <2>2. r \in Stored
    BY <1>6, <2>1 DEF Stored
  <2>3. ~In(q, r)
    BY <1>1, <2>2
  <2>4. QED
    BY <1>2, <1>6, <2>3
<1>7. \A r \in Reqs : Inserted(r) => Inserted(r)'
  BY <1>6 DEF Inserted
<1>8. AnnouncedIsPersisted'
  BY <1>6 DEF AnnouncedIsPersisted, Rows
<1>9. \A r \in Reqs : ~(r \in lost' /\ r \in Stored')
  BY <1>4 DEF Rows, Fresh
<1>10. QED
  BY <1>2, <1>4, <1>5, <1>7, <1>8, <1>9 DEF Rows

\* A successful Save inside saveSync.
LEMMA SaveOkFacts ==
    ASSUME TypeOK, Rows, NEW r \in Reqs, Fresh(r),
           SaveOk(r), announced' = announced
    PROVE  /\ rows' \subseteq [id : Nat \ {0}, req : Reqs]
           /\ lastId' \in Nat
           /\ reqId' \in [Reqs -> Nat]
           /\ \A x \in Reqs : x \in Stored' <=> x \in Stored \/ x = r
           /\ Inserted(r)'
           /\ \A x \in Reqs : Inserted(x) => Inserted(x)'
           /\ Rows'
           /\ lost' = lost
<1> DEFINE q == <<r>>
<1>1. q \in Seq(Reqs) /\ Len(q) = 1 /\ q[1] = r
  OBVIOUS
<1>2. 1..Len(q) = {1}
  BY <1>1
<1>3. Distinct(q) /\ \A x : In(q, x) <=> x = r
  BY <1>1, <1>2 DEF Distinct, In
<1>4. Insert(q, 1..Len(q)) /\ UNCHANGED <<lost, announced>>
  BY <1>2 DEF SaveOk
<1>5. \A x \in Reqs : In(q, x) => Fresh(x)
  BY <1>3
<1>. HIDE DEF q
<1>6. QED
  BY <1>1, <1>3, <1>4, <1>5, InsertAll

\* Running onSave once for a request that has its row.
LEMMA OnSaveFacts ==
    ASSUME TypeOK, Rows, NEW r \in Reqs, Inserted(r),
           OnSave(r), UNCHANGED db
    PROVE  /\ announced' \in [Reqs -> Nat]
           /\ \A x \in Reqs : x \in Stored' <=> x \in Stored
           /\ announced'[r] = 1
           /\ r \in Stored
           /\ \A x \in Reqs : x # r => announced'[x] = announced[x]
           /\ Rows'
<1>1. /\ announced \in [Reqs -> Nat] /\ announced[r] = 0
      /\ [id |-> reqId[r], req |-> r] \in rows /\ r \notin lost
  BY DEF TypeOK, Inserted
<1>2. /\ announced' \in [Reqs -> Nat]
      /\ announced'[r] = 1
      /\ \A x \in Reqs : x # r => announced'[x] = announced[x]
  BY <1>1 DEF OnSave
<1>3. /\ rows' = rows /\ reqId' = reqId /\ lost' = lost /\ lastId' = lastId
      /\ Stored' = Stored
  BY DEF db, Stored
<1>4. r \in Stored
  <2>1. [id |-> reqId[r], req |-> r].req = r
    OBVIOUS
  <2>2. QED
    BY <1>1, <2>1 DEF Stored
<1>5. AnnouncedIsPersisted'
  BY <1>1, <1>2, <1>3 DEF AnnouncedIsPersisted, Rows
<1>6. QED
  BY <1>2, <1>3, <1>4, <1>5 DEF Rows, SavedAtMostOnce

(***************************************************************************)
(* What moving a request between the queues does.                          *)
(***************************************************************************)

\* A worker takes the head of the channel (Receive and Drain).
LEMMA TakeHead ==
    ASSUME TypeOK, OnePlace, NEW w \in Workers, ch # <<>>,
           ch' = Tail(ch), enq' = enq,
           batch' = [batch EXCEPT ![w] = Append(@, Head(ch))]
    PROVE  /\ ch' \in Seq(Reqs) /\ Len(ch') <= ChanCap
           /\ batch' \in [Workers -> Seq(Reqs)]
           /\ batch'[w] # <<>>
           /\ \A v \in Workers : v # w => batch'[v] = batch[v]
           /\ Head(ch) \in Reqs /\ In(ch, Head(ch)) /\ ~In(batch[w], Head(ch))
           /\ \A r \in Reqs : In(ch', r) <=> In(ch, r) /\ r # Head(ch)
           /\ \A v \in Workers, r \in Reqs :
                 In(batch'[v], r) <=> In(batch[v], r) \/ (v = w /\ r = Head(ch))
           /\ OnePlace'
<1>1. ch \in Seq(Reqs) /\ Len(ch) <= ChanCap /\ batch \in [Workers -> Seq(Reqs)]
  BY DEF TypeOK
<1>2. Distinct(ch) /\ Distinct(batch[w])
  BY DEF OnePlace
<1>3. /\ Head(ch) \in Reqs /\ In(ch, Head(ch))
      /\ ch' \in Seq(Reqs) /\ Len(ch') = Len(ch) - 1 /\ Distinct(ch')
      /\ \A r : In(ch', r) <=> In(ch, r) /\ r # Head(ch)
  BY <1>1, <1>2, TailIn
<1>4. ~In(batch[w], Head(ch))
  BY <1>3 DEF OnePlace
<1>5. /\ batch'[w] = Append(batch[w], Head(ch))
      /\ \A v \in Workers : v # w => batch'[v] = batch[v]
  BY <1>1
<1>6. /\ batch'[w] \in Seq(Reqs) /\ batch'[w] # <<>> /\ Distinct(batch'[w])
      /\ \A r : In(batch'[w], r) <=> In(batch[w], r) \/ r = Head(ch)
  <2>1. batch[w] \in Seq(Reqs)
    BY <1>1
  <2>2. QED
    BY <1>2, <1>3, <1>4, <1>5, <2>1, AppendIn
<1>7. batch' \in [Workers -> Seq(Reqs)]
  BY <1>1, <1>5, <1>6
<1>8. Len(ch') <= ChanCap
  BY <1>1, <1>3, BatchAssumption
<1>9. \A v \in Workers, r \in Reqs :
         In(batch'[v], r) <=> In(batch[v], r) \/ (v = w /\ r = Head(ch))
  BY <1>5, <1>6
<1>10. OnePlace'
  <2>1. \A v \in Workers : Distinct(batch'[v])
    BY <1>5, <1>6 DEF OnePlace
  <2>2. \A u, v \in Workers, r \in Reqs : In(batch'[u], r) /\ In(batch'[v], r) => u = v
    BY <1>3, <1>9 DEF OnePlace
  <2>3. \A v \in Workers, r \in Reqs : ~(In(ch', r) /\ In(batch'[v], r))
    BY <1>3, <1>9 DEF OnePlace
  <2>4. \A r \in Reqs : In(ch', r) => enq'[r] = "returned"
    BY <1>3 DEF OnePlace
  <2>5. \A v \in Workers, r \in Reqs : In(batch'[v], r) => enq'[r] = "returned"
    BY <1>3, <1>9 DEF OnePlace
  <2>6. QED
    BY <1>3, <2>1, <2>2, <2>3, <2>4, <2>5 DEF OnePlace
<1>11. QED
  BY <1>3, <1>4, <1>5, <1>6, <1>7, <1>8, <1>9, <1>10

\* A worker is done with the head of its batch.
LEMMA DropHead ==
    ASSUME TypeOK, OnePlace, NEW w \in Workers, batch[w] # <<>>,
           ch' = ch, enq' = enq,
           batch' = [batch EXCEPT ![w] = Tail(@)]
    PROVE  /\ batch' \in [Workers -> Seq(Reqs)]
           /\ batch'[w] = Tail(batch[w])
           /\ \A v \in Workers : v # w => batch'[v] = batch[v]
           /\ Head(batch[w]) \in Reqs /\ In(batch[w], Head(batch[w]))
           /\ \A v \in Workers, r \in Reqs :
                 In(batch'[v], r) <=> In(batch[v], r) /\ ~(v = w /\ r = Head(batch[w]))
           /\ OnePlace'
<1>1. batch \in [Workers -> Seq(Reqs)] /\ batch[w] \in Seq(Reqs)
  BY DEF TypeOK
<1>2. Distinct(batch[w])
  BY DEF OnePlace
<1>3. /\ batch'[w] = Tail(batch[w])
      /\ \A v \in Workers : v # w => batch'[v] = batch[v]
  BY <1>1
<1>4. /\ Head(batch[w]) \in Reqs /\ In(batch[w], Head(batch[w]))
      /\ batch'[w] \in Seq(Reqs) /\ Distinct(batch'[w])
      /\ \A r : In(batch'[w], r) <=> In(batch[w], r) /\ r # Head(batch[w])
  BY <1>1, <1>2, <1>3, TailIn
<1>5. batch' \in [Workers -> Seq(Reqs)]
  BY <1>1, <1>3, <1>4
<1>6. \A v \in Workers, r \in Reqs :
         In(batch'[v], r) <=> In(batch[v], r) /\ ~(v = w /\ r = Head(batch[w]))
  BY <1>3, <1>4 DEF OnePlace
<1>7. OnePlace'
  <2>1. \A v \in Workers : Distinct(batch'[v])
    BY <1>3, <1>4 DEF OnePlace
  <2>2. QED
    BY <1>6, <2>1 DEF OnePlace
<1>8. QED
  BY <1>3, <1>4, <1>5, <1>6, <1>7

-----------------------------------------------------------------------------
(***************************************************************************)
(* Every step preserves the invariant.                                     *)
(***************************************************************************)

\* One step of an Enqueue.
LEMMA EnqueueStep ==
    ASSUME IInv, NEW r \in Reqs, Enqueue(r)
    PROVE  IInv'
<1>0. TypeOK /\ OnePlace /\ Progress /\ Rows /\ Mutex /\ Stopping
  BY DEF IInv
<1>1. CASE EnqueueSend(r)
  <2>1. /\ ch \in Seq(Reqs) /\ ch' = Append(ch, r) /\ Distinct(ch) /\ ~In(ch, r)
        /\ \A w \in Workers : ~In(batch[w], r)
    BY <1>0, <1>1 DEF EnqueueSend, TypeOK, OnePlace
  <2>2. /\ ch' \in Seq(Reqs) /\ Len(ch') = Len(ch) + 1 /\ Distinct(ch')
        /\ \A x : In(ch', x) <=> In(ch, x) \/ x = r
    BY <2>1, AppendIn
  <2>3. TypeOK'
    BY <1>0, <1>1, <2>2, BatchAssumption DEF EnqueueSend, TypeOK, db
  <2>4. OnePlace'
    BY <1>0, <1>1, <2>1, <2>2 DEF EnqueueSend, TypeOK, OnePlace
  <2>5. Progress'
    BY <1>0, <1>1, <2>2 DEF EnqueueSend, TypeOK, Progress, Done, Fresh, Inserted, Stored, db
  <2>6. Rows'
    BY <1>0, <1>1 DEF EnqueueSend, Rows, SavedAtMostOnce, AnnouncedIsPersisted, Stored, db
  <2>7. Mutex'
    BY <1>0, <1>1 DEF EnqueueSend, TypeOK, Mutex, EnqMuHeld
  <2>8. Stopping'
    BY <1>0, <1>1 DEF EnqueueSend, TypeOK, Stopping
  <2>9. QED
    BY <2>3, <2>4, <2>5, <2>6, <2>7, <2>8 DEF IInv
<1>2. CASE EnqueueSync(r)
  <2>1. TypeOK'
    BY <1>0, <1>2 DEF EnqueueSync, TypeOK, db
  <2>2. OnePlace'
    BY <1>0, <1>2 DEF EnqueueSync, TypeOK, OnePlace
  <2>3. Progress'
    BY <1>0, <1>2 DEF EnqueueSync, TypeOK, Progress, Done, Fresh, Inserted, Stored, db
  <2>4. Rows'
    BY <1>0, <1>2 DEF EnqueueSync, Rows, SavedAtMostOnce, AnnouncedIsPersisted, Stored, db
  <2>5. Mutex'
    BY <1>0, <1>2 DEF EnqueueSync, TypeOK, Mutex, EnqMuHeld
  <2>6. Stopping'
    BY <1>0, <1>2 DEF EnqueueSync, TypeOK, Stopping, Mutex, EnqMuHeld
  <2>7. QED
    BY <2>1, <2>2, <2>3, <2>4, <2>5, <2>6 DEF IInv
<1>3. ASSUME enq[r] = "saving", SaveOk(r),
             enq' = [enq EXCEPT ![r] = "announcing"],
             UNCHANGED <<ch, stopped, stp, phase, batch, tries, quit, announced>>
      PROVE  IInv'
  <2>1. Fresh(r)
    BY <1>0, <1>3 DEF Progress
  <2>2. /\ rows' \subseteq [id : Nat \ {0}, req : Reqs]
        /\ lastId' \in Nat
        /\ reqId' \in [Reqs -> Nat]
        /\ \A x \in Reqs : x \in Stored' <=> x \in Stored \/ x = r
        /\ Inserted(r)'
        /\ \A x \in Reqs : Inserted(x) => Inserted(x)'
        /\ Rows'
        /\ lost' = lost
    BY <1>0, <1>3, <2>1, SaveOkFacts
  <2>3. ~In(ch, r) /\ \A w \in Workers : ~In(batch[w], r)
    BY <1>0, <1>3 DEF OnePlace
  <2>4. TypeOK'
    BY <1>0, <1>3, <2>2 DEF TypeOK
  <2>5. OnePlace'
    BY <1>0, <1>3 DEF TypeOK, OnePlace
  <2>6. \A x \in Reqs : x # r /\ Fresh(x) => Fresh(x)'
    BY <1>3, <2>2 DEF Fresh
  <2>7. Progress'
    <3>1. \A x \in Reqs : x # r => enq'[x] = enq[x]
      BY <1>0, <1>3 DEF TypeOK
    <3>2. enq'[r] = "announcing"
      BY <1>0, <1>3 DEF TypeOK
    <3>3. \A w \in Workers, x \in Reqs : Done(w, x)' <=> Done(w, x)
      BY <1>3 DEF Done
    <3>4. QED
      BY <1>0, <1>3, <2>2, <2>3, <2>6, <3>1, <3>2, <3>3 DEF Progress
  <2>8. Mutex'
    BY <1>0, <1>3 DEF TypeOK, Mutex
  <2>9. Stopping'
    BY <1>0, <1>3 DEF Stopping
  <2>10. QED
    BY <2>2, <2>4, <2>5, <2>7, <2>8, <2>9 DEF IInv
<1>4. ASSUME enq[r] = "saving", SaveErr(r),
             enq' = [enq EXCEPT ![r] = "returned"],
             UNCHANGED <<ch, stopped, stp, phase, batch, tries, quit, announced>>
      PROVE  IInv'
  <2>1. ~In(ch, r) /\ \A w \in Workers : ~In(batch[w], r)
    BY <1>0, <1>4 DEF OnePlace
  <2>2. Fresh(r) /\ Stored' = Stored /\ lost' = lost \cup {r}
    BY <1>0, <1>4 DEF Progress, SaveErr, Stored
  <2>3. TypeOK'
    BY <1>0, <1>4 DEF SaveErr, TypeOK
  <2>4. OnePlace'
    BY <1>0, <1>4 DEF TypeOK, OnePlace
  <2>5. \A x \in Reqs : x # r =>
          /\ enq'[x] = enq[x]
          /\ Fresh(x)' <=> Fresh(x)
          /\ Inserted(x)' <=> Inserted(x)
    BY <1>0, <1>4, <2>2 DEF TypeOK, SaveErr, Fresh, Inserted
  <2>6. Progress'
    <3>1. enq'[r] = "returned"
      BY <1>0, <1>4 DEF TypeOK
    <3>2. \A w \in Workers, x \in Reqs : Done(w, x)' <=> Done(w, x)
      BY <1>4 DEF Done
    <3>3. QED
      BY <1>0, <1>4, <2>1, <2>2, <2>5, <3>1, <3>2 DEF Progress
  <2>7. Rows'
    BY <1>0, <1>4, <2>2 DEF SaveErr, Fresh, Rows, SavedAtMostOnce, AnnouncedIsPersisted, Stored
  <2>8. Mutex'
    BY <1>0, <1>4 DEF TypeOK, Mutex
  <2>9. Stopping'
    BY <1>0, <1>4 DEF Stopping
  <2>10. QED
    BY <2>3, <2>4, <2>6, <2>7, <2>8, <2>9 DEF IInv
<1>5. CASE EnqueueAnnounce(r)
  <2>1. Inserted(r) /\ ~In(ch, r) /\ \A w \in Workers : ~In(batch[w], r)
    BY <1>0, <1>5 DEF EnqueueAnnounce, Progress, OnePlace
  <2>2. /\ announced' \in [Reqs -> Nat]
        /\ \A x \in Reqs : x \in Stored' <=> x \in Stored
        /\ announced'[r] = 1
        /\ r \in Stored
        /\ \A x \in Reqs : x # r => announced'[x] = announced[x]
        /\ Rows'
    BY <1>0, <1>5, <2>1, OnSaveFacts DEF EnqueueAnnounce
  <2>3. TypeOK'
    BY <1>0, <1>5, <2>2 DEF EnqueueAnnounce, TypeOK, db
  <2>4. OnePlace'
    BY <1>0, <1>5 DEF EnqueueAnnounce, TypeOK, OnePlace
  <2>5. \A x \in Reqs : x # r =>
          /\ enq'[x] = enq[x]
          /\ Fresh(x)' <=> Fresh(x)
          /\ Inserted(x)' <=> Inserted(x)
    BY <1>0, <1>5, <2>2 DEF EnqueueAnnounce, TypeOK, db, Fresh, Inserted
  <2>6. Progress'
    <3>1. enq'[r] = "returned" /\ lost' = lost /\ batch' = batch /\ ch' = ch
      BY <1>0, <1>5 DEF EnqueueAnnounce, TypeOK, db
    <3>2. \A w \in Workers, x \in Reqs : Done(w, x)' <=> Done(w, x)
      BY <1>5 DEF EnqueueAnnounce, Done
    <3>3. QED
      BY <1>0, <2>1, <2>2, <2>5, <3>1, <3>2 DEF Progress
  <2>7. Mutex'
    BY <1>0, <1>5 DEF EnqueueAnnounce, TypeOK, Mutex
  <2>8. Stopping'
    BY <1>0, <1>5 DEF EnqueueAnnounce, Stopping
  <2>9. QED
    BY <2>2, <2>3, <2>4, <2>6, <2>7, <2>8 DEF IInv
<1>6. QED
  BY <1>1, <1>2, <1>3, <1>4, <1>5 DEF Enqueue, EnqueueSave

\* One step of a Stop.
LEMMA StopStep ==
    ASSUME IInv, NEW s \in Stoppers, Stop(s)
    PROVE  IInv'
<1>0. TypeOK /\ OnePlace /\ Progress /\ Rows /\ Mutex /\ Stopping
  BY DEF IInv
<1>1. CASE StopFirst(s)
  <2>1. TypeOK'
    BY <1>0, <1>1 DEF StopFirst, TypeOK, db
  <2>2. OnePlace'
    BY <1>0, <1>1 DEF StopFirst, OnePlace, db
  <2>3. Progress'
    BY <1>0, <1>1 DEF StopFirst, Progress, Done, Fresh, Inserted, Stored, db
  <2>4. Rows'
    BY <1>0, <1>1 DEF StopFirst, Rows, SavedAtMostOnce, AnnouncedIsPersisted, Stored, db
  <2>5. Mutex'
    BY <1>0, <1>1 DEF StopFirst, TypeOK, Mutex, EnqMuHeld
  <2>6. Stopping'
    BY <1>0, <1>1 DEF StopFirst, TypeOK, Stopping, Mutex, EnqMuHeld
  <2>7. QED
    BY <2>1, <2>2, <2>3, <2>4, <2>5, <2>6 DEF IInv
<1>2. CASE StopAgain(s)
  <2>1. TypeOK'
    BY <1>0, <1>2 DEF StopAgain, TypeOK, db
  <2>2. OnePlace'
    BY <1>0, <1>2 DEF StopAgain, OnePlace, db
  <2>3. Progress'
    BY <1>0, <1>2 DEF StopAgain, Progress, Done, Fresh, Inserted, Stored, db
  <2>4. Rows'
    BY <1>0, <1>2 DEF StopAgain, Rows, SavedAtMostOnce, AnnouncedIsPersisted, Stored, db
  <2>5. Mutex'
    BY <1>0, <1>2 DEF StopAgain, TypeOK, Mutex, EnqMuHeld
  <2>6. Stopping'
    BY <1>0, <1>2 DEF StopAgain, TypeOK, Stopping, Mutex, EnqMuHeld
  <2>7. QED
    BY <2>1, <2>2, <2>3, <2>4, <2>5, <2>6 DEF IInv
<1>3. CASE StopWaited(s)
  <2>1. TypeOK'
    BY <1>0, <1>3 DEF StopWaited, TypeOK, db
  <2>2. OnePlace'
    BY <1>0, <1>3 DEF StopWaited, OnePlace, db
  <2>3. Progress'
    BY <1>0, <1>3 DEF StopWaited, Progress, Done, Fresh, Inserted, Stored, db
  <2>4. Rows'
    BY <1>0, <1>3 DEF StopWaited, Rows, SavedAtMostOnce, AnnouncedIsPersisted, Stored, db
  <2>5. Mutex'
    BY <1>0, <1>3 DEF StopWaited, TypeOK, Mutex, EnqMuHeld
  <2>6. Stopping'
    BY <1>0, <1>3 DEF StopWaited, TypeOK, Stopping, Mutex, EnqMuHeld
  <2>7. QED
    BY <2>1, <2>2, <2>3, <2>4, <2>5, <2>6 DEF IInv
<1>4. CASE StopDrain(s)
  <2>1. ch = <<>> /\ ch' = <<>> /\ lost' = lost
    <3>1. \A w \in Workers : phase[w] = "exited" /\ quit[w]
      BY <1>0, <1>4 DEF StopDrain, Stopping
    <3>2. ch = <<>>
      BY <1>0, <3>1, BatchAssumption DEF Stopping
    <3>3. QED
      BY <1>4, <3>2 DEF StopDrain
  <2>2. PICK ok \in SUBSET (1..Len(ch)) : Insert(ch, ok) /\ announced' =
           [r \in Reqs |-> IF \E i \in ok : ch[i] = r THEN announced[r] + 1
                                                      ELSE announced[r]]
    BY <1>4 DEF StopDrain
  <2>3. ok = {} /\ Len(ch) = 0
    BY <2>1
  <2>4. rows' = rows /\ lastId' = lastId /\ reqId' = reqId /\ announced' = announced
    BY <1>0, <2>2, <2>3 DEF Insert, TypeOK
  <2>5. TypeOK'
    BY <1>0, <1>4, <2>1, <2>4 DEF StopDrain, TypeOK
  <2>6. OnePlace'
    BY <1>0, <1>4, <2>1, <2>4 DEF StopDrain, OnePlace
  <2>7. Progress'
    BY <1>0, <1>4, <2>1, <2>4 DEF StopDrain, Progress, Done, Fresh, Inserted, Stored
  <2>8. Rows'
    BY <1>0, <1>4, <2>1, <2>4 DEF StopDrain, Rows, SavedAtMostOnce, AnnouncedIsPersisted, Stored
  <2>9. Mutex'
    BY <1>0, <1>4, <2>1, <2>4 DEF StopDrain, TypeOK, Mutex, EnqMuHeld
  <2>10. Stopping'
    BY <1>0, <1>4, <2>1, <2>4 DEF StopDrain, TypeOK, Stopping, Mutex, EnqMuHeld
  <2>11. QED
    BY <2>5, <2>6, <2>7, <2>8, <2>9, <2>10 DEF IInv
<1>5. QED
  BY <1>1, <1>2, <1>3, <1>4 DEF Stop

\* One step of a worker.
LEMMA WorkerStep ==
    ASSUME IInv, NEW w \in Workers, Worker(w)
    PROVE  IInv'
<1>0. TypeOK /\ OnePlace /\ Progress /\ Rows /\ Mutex /\ Stopping
  BY DEF IInv
<1>1. CASE Receive(w)
  <2>1. /\ ch' \in Seq(Reqs) /\ Len(ch') <= ChanCap
        /\ batch' \in [Workers -> Seq(Reqs)]
        /\ batch'[w] # <<>>
        /\ \A v \in Workers : v # w => batch'[v] = batch[v]
        /\ Head(ch) \in Reqs /\ In(ch, Head(ch)) /\ ~In(batch[w], Head(ch))
        /\ \A r \in Reqs : In(ch', r) <=> In(ch, r) /\ r # Head(ch)
        /\ \A v \in Workers, r \in Reqs :
              In(batch'[v], r) <=> In(batch[v], r) \/ (v = w /\ r = Head(ch))
        /\ OnePlace'
    BY <1>0, <1>1, TakeHead DEF Receive
  <2>2. TypeOK'
    BY <1>0, <1>1, <2>1 DEF Receive, TypeOK, db
  <2>3. OnePlace'
    BY <2>1
  <2>4. Progress'
    <3>1. \A v \in Workers, r \in Reqs : In(batch'[v], r) => (Done(v, r)' <=> Done(v, r))
      BY <1>0, <1>1, <2>1 DEF Receive, TypeOK, Done
    <3>2. /\ enq' = enq /\ lost' = lost /\ announced' = announced /\ Stored' = Stored
          /\ \A r \in Reqs : /\ Fresh(r)' <=> Fresh(r)
                            /\ Inserted(r)' <=> Inserted(r)
      BY <1>1 DEF Receive, db, Stored, Fresh, Inserted
    <3>3. ~Done(w, Head(ch))
      BY <1>1 DEF Receive, Done
    <3>4. \A v \in Workers, r \in Reqs : In(batch'[v], r) =>
             (Done(v, r)' /\ Inserted(r)') \/ (~Done(v, r)' /\ Fresh(r)')
      <4>1. SUFFICES ASSUME NEW v \in Workers, NEW r \in Reqs, In(batch'[v], r)
                     PROVE  (Done(v, r) /\ Inserted(r)) \/ (~Done(v, r) /\ Fresh(r))
        BY <3>1, <3>2 DEF Fresh, Inserted
      <4>2. CASE In(batch[v], r)
        BY <1>0, <4>2 DEF Progress
      <4>3. CASE v = w /\ r = Head(ch)
        BY <1>0, <2>1, <3>3, <4>3 DEF Progress
      <4>4. QED
        BY <2>1, <4>1, <4>2, <4>3
    <3>5. \A r \in Reqs : In(ch, r) \/ (\E v \in Workers : In(batch[v], r)) =>
             In(ch', r) \/ \E v \in Workers : In(batch'[v], r)
      BY <2>1
    <3>6. \A r \in Reqs : enq'[r] = "returned" =>
             \/ In(ch', r)
             \/ \E v \in Workers : In(batch'[v], r)
             \/ r \in lost'
             \/ r \in Stored' /\ announced'[r] = 1
      BY <1>0, <3>2, <3>5 DEF Progress
    <3>7. /\ \A r \in Reqs : enq'[r] \in {"new", "saving"} => Fresh(r)'
          /\ \A r \in Reqs : enq'[r] = "announcing" => Inserted(r)'
          /\ \A r \in Reqs : In(ch', r) => Fresh(r)'
      BY <1>0, <2>1, <3>2 DEF Progress, Fresh, Inserted
    <3>8. QED
      BY <3>4, <3>6, <3>7 DEF Progress
  <2>5. Rows'
    BY <1>0, <1>1 DEF Receive, Rows, SavedAtMostOnce, AnnouncedIsPersisted, Stored, db
  <2>6. Mutex'
    BY <1>0, <1>1 DEF Receive, TypeOK, Mutex, EnqMuHeld
  <2>7. Stopping'
    <3>1. /\ phase[w] = "select" /\ ch # <<>> /\ batch'[w] # <<>>
          /\ phase'[w] \in {"select", "flush"}
          /\ \A v \in Workers : v # w => phase'[v] = phase[v] /\ batch'[v] = batch[v]
          /\ UNCHANGED <<stopped, stp, quit>>
      BY <1>0, <1>1, <2>1 DEF Receive, TypeOK
    <3>2. QED
      BY <1>0, <3>1 DEF Stopping
  <2>8. QED
    BY <2>2, <2>3, <2>4, <2>5, <2>6, <2>7 DEF IInv
<1>2. CASE Tick(w)
  <2>1. TypeOK'
    BY <1>0, <1>2 DEF Tick, TypeOK, db
  <2>2. OnePlace'
    BY <1>0, <1>2 DEF Tick, OnePlace
  <2>3. Progress'
    BY <1>0, <1>2 DEF Tick, TypeOK, Progress, Done, Fresh, Inserted, Stored, db
  <2>4. Rows'
    BY <1>0, <1>2 DEF Tick, Rows, SavedAtMostOnce, AnnouncedIsPersisted, Stored, db
  <2>5. Mutex'
    BY <1>0, <1>2 DEF Tick, TypeOK, Mutex, EnqMuHeld
  <2>6. Stopping'
    BY <1>0, <1>2 DEF Tick, TypeOK, Stopping, Mutex, EnqMuHeld
  <2>7. QED
    BY <2>1, <2>2, <2>3, <2>4, <2>5, <2>6 DEF IInv
<1>3. CASE SeeStop(w)
  <2>1. TypeOK'
    BY <1>0, <1>3 DEF SeeStop, TypeOK, db
  <2>2. OnePlace'
    BY <1>0, <1>3 DEF SeeStop, OnePlace
  <2>3. Progress'
    BY <1>0, <1>3 DEF SeeStop, TypeOK, Progress, Done, Fresh, Inserted, Stored, db
  <2>4. Rows'
    BY <1>0, <1>3 DEF SeeStop, Rows, SavedAtMostOnce, AnnouncedIsPersisted, Stored, db
  <2>5. Mutex'
    BY <1>0, <1>3 DEF SeeStop, TypeOK, Mutex, EnqMuHeld
  <2>6. Stopping'
    BY <1>0, <1>3 DEF SeeStop, TypeOK, Stopping, Mutex, EnqMuHeld
  <2>7. QED
    BY <2>1, <2>2, <2>3, <2>4, <2>5, <2>6 DEF IInv
<1>4. CASE Drain(w)
  <2>1. /\ ch' \in Seq(Reqs) /\ Len(ch') <= ChanCap
        /\ batch' \in [Workers -> Seq(Reqs)]
        /\ batch'[w] # <<>>
        /\ \A v \in Workers : v # w => batch'[v] = batch[v]
        /\ Head(ch) \in Reqs /\ In(ch, Head(ch)) /\ ~In(batch[w], Head(ch))
        /\ \A r \in Reqs : In(ch', r) <=> In(ch, r) /\ r # Head(ch)
        /\ \A v \in Workers, r \in Reqs :
              In(batch'[v], r) <=> In(batch[v], r) \/ (v = w /\ r = Head(ch))
        /\ OnePlace'
    BY <1>0, <1>4, TakeHead DEF Drain
  <2>2. TypeOK'
    BY <1>0, <1>4, <2>1 DEF Drain, TypeOK, db
  <2>3. OnePlace'
    BY <2>1
  <2>4. Progress'
    <3>1. \A v \in Workers, r \in Reqs : In(batch'[v], r) => (Done(v, r)' <=> Done(v, r))
      BY <1>0, <1>4, <2>1 DEF Drain, TypeOK, Done
    <3>2. /\ enq' = enq /\ lost' = lost /\ announced' = announced /\ Stored' = Stored
          /\ \A r \in Reqs : /\ Fresh(r)' <=> Fresh(r)
                            /\ Inserted(r)' <=> Inserted(r)
      BY <1>4 DEF Drain, db, Stored, Fresh, Inserted
    <3>3. ~Done(w, Head(ch))
      BY <1>4 DEF Drain, Done
    <3>4. \A v \in Workers, r \in Reqs : In(batch'[v], r) =>
             (Done(v, r)' /\ Inserted(r)') \/ (~Done(v, r)' /\ Fresh(r)')
      <4>1. SUFFICES ASSUME NEW v \in Workers, NEW r \in Reqs, In(batch'[v], r)
                     PROVE  (Done(v, r) /\ Inserted(r)) \/ (~Done(v, r) /\ Fresh(r))
        BY <3>1, <3>2 DEF Fresh, Inserted
      <4>2. CASE In(batch[v], r)
        BY <1>0, <4>2 DEF Progress
      <4>3. CASE v = w /\ r = Head(ch)
        BY <1>0, <2>1, <3>3, <4>3 DEF Progress
      <4>4. QED
        BY <2>1, <4>1, <4>2, <4>3
    <3>5. \A r \in Reqs : In(ch, r) \/ (\E v \in Workers : In(batch[v], r)) =>
             In(ch', r) \/ \E v \in Workers : In(batch'[v], r)
      BY <2>1
    <3>6. \A r \in Reqs : enq'[r] = "returned" =>
             \/ In(ch', r)
             \/ \E v \in Workers : In(batch'[v], r)
             \/ r \in lost'
             \/ r \in Stored' /\ announced'[r] = 1
      BY <1>0, <3>2, <3>5 DEF Progress
    <3>7. /\ \A r \in Reqs : enq'[r] \in {"new", "saving"} => Fresh(r)'
          /\ \A r \in Reqs : enq'[r] = "announcing" => Inserted(r)'
          /\ \A r \in Reqs : In(ch', r) => Fresh(r)'
      BY <1>0, <2>1, <3>2 DEF Progress, Fresh, Inserted
    <3>8. QED
      BY <3>4, <3>6, <3>7 DEF Progress
  <2>5. Rows'
    BY <1>0, <1>4 DEF Drain, Rows, SavedAtMostOnce, AnnouncedIsPersisted, Stored, db
  <2>6. Mutex'
    BY <1>0, <1>4 DEF Drain, TypeOK, Mutex, EnqMuHeld
  <2>7. Stopping'
    BY <1>0, <1>4, <2>1 DEF Drain, TypeOK, Stopping
  <2>8. QED
    BY <2>2, <2>3, <2>4, <2>5, <2>6, <2>7 DEF IInv
<1>5. CASE Drained(w)
  <2>1. TypeOK'
    BY <1>0, <1>5 DEF Drained, TypeOK, db
  <2>2. OnePlace'
    BY <1>0, <1>5 DEF Drained, OnePlace
  <2>3. Progress'
    BY <1>0, <1>5 DEF Drained, TypeOK, Progress, Done, Fresh, Inserted, Stored, db
  <2>4. Rows'
    BY <1>0, <1>5 DEF Drained, Rows, SavedAtMostOnce, AnnouncedIsPersisted, Stored, db
  <2>5. Mutex'
    BY <1>0, <1>5 DEF Drained, TypeOK, Mutex, EnqMuHeld
  <2>6. Stopping'
    BY <1>0, <1>5 DEF Drained, TypeOK, Stopping, Mutex, EnqMuHeld
  <2>7. QED
    BY <2>1, <2>2, <2>3, <2>4, <2>5, <2>6 DEF IInv
<1>6. CASE SaveBatchOk(w)
  <2>1. /\ batch[w] \in Seq(Reqs) /\ Distinct(batch[w]) /\ batch[w] # <<>>
        /\ \A r \in Reqs : In(batch[w], r) => Fresh(r)
    BY <1>0, <1>6 DEF SaveBatchOk, TypeOK, OnePlace, Progress, Done, Stopping
  <2>2. Insert(batch[w], 1..Len(batch[w])) /\ UNCHANGED <<lost, announced>>
    BY <1>6 DEF SaveBatchOk
  <2>3. /\ rows' \subseteq [id : Nat \ {0}, req : Reqs]
        /\ lastId' \in Nat
        /\ reqId' \in [Reqs -> Nat]
        /\ \A r \in Reqs : r \in Stored' <=> r \in Stored \/ In(batch[w], r)
        /\ \A r \in Reqs : In(batch[w], r) => Inserted(r)'
        /\ \A r \in Reqs : Inserted(r) => Inserted(r)'
        /\ Rows'
    BY <1>0, <2>1, <2>2, InsertAll
  <2>4. TypeOK'
    BY <1>0, <1>6, <2>3, BatchAssumption DEF SaveBatchOk, TypeOK
  <2>5. OnePlace'
    BY <1>0, <1>6 DEF SaveBatchOk, OnePlace
  <2>6. Progress'
    <3>1. \A r \in Reqs : ~In(batch[w], r) /\ Fresh(r) => Fresh(r)'
      BY <2>2, <2>3 DEF Fresh
    <3>2. \A v \in Workers, r \in Reqs : v # w => (Done(v, r)' <=> Done(v, r))
      BY <1>0, <1>6 DEF SaveBatchOk, TypeOK, Done
    <3>3. \A r \in Reqs : Done(w, r)'
      BY <1>0, <1>6 DEF SaveBatchOk, TypeOK, Done
    <3>4. \A r \in Reqs : In(batch[w], r) => enq[r] = "returned" /\ ~In(ch, r)
      BY <1>0 DEF OnePlace
    <3>5. \A v \in Workers, r \in Reqs : v # w /\ In(batch[v], r) => ~In(batch[w], r)
      BY <1>0 DEF OnePlace
    <3>6. enq' = enq /\ ch' = ch /\ batch' = batch /\ lost' = lost /\ announced' = announced
      BY <1>6 DEF SaveBatchOk
    <3>7. QED
      BY <1>0, <2>3, <3>1, <3>2, <3>3, <3>4, <3>5, <3>6 DEF Progress
  <2>7. Mutex'
    BY <1>0, <1>6 DEF SaveBatchOk, Mutex
  <2>8. Stopping'
    BY <1>0, <1>6 DEF SaveBatchOk, TypeOK, Stopping
  <2>9. QED
    BY <2>3, <2>4, <2>5, <2>6, <2>7, <2>8 DEF IInv
<1>7. CASE SaveBatchErr(w)
  <2>1. TypeOK'
    <3>1. tries[w] \in Nat /\ tries[w] < MaxTries /\ MaxTries \in Nat \ {0}
      BY <1>0, BatchAssumption DEF TypeOK
    <3>2. tries[w] + 1 < MaxTries => tries[w] + 1 \in 0..MaxTries-1
      BY <3>1
    <3>3. 0 \in 0..MaxTries-1
      BY <3>1
    <3>4. tries' \in [Workers -> 0..MaxTries-1] /\ phase' \in
             [Workers -> {"select", "drain", "flush", "announce",
                          "fallback", "announceSync", "exited"}]
      BY <1>0, <1>7, <3>2, <3>3 DEF SaveBatchErr, TypeOK
    <3>5. QED
      BY <1>0, <1>7, <3>4 DEF SaveBatchErr, TypeOK, db
  <2>2. OnePlace'
    BY <1>0, <1>7 DEF SaveBatchErr, OnePlace
  <2>3. Progress'
    <3>1. \A v \in Workers, r \in Reqs : Done(v, r)' <=> Done(v, r)
      BY <1>0, <1>7 DEF SaveBatchErr, TypeOK, Done
    <3>2. /\ enq' = enq /\ ch' = ch /\ batch' = batch /\ lost' = lost
          /\ announced' = announced /\ Stored' = Stored
          /\ rows' = rows /\ reqId' = reqId
      BY <1>7 DEF SaveBatchErr, db, Stored
    <3>3. /\ \A r \in Reqs : enq'[r] \in {"new", "saving"} => Fresh(r)'
          /\ \A r \in Reqs : enq'[r] = "announcing" => Inserted(r)'
          /\ \A r \in Reqs : In(ch', r) => Fresh(r)'
      BY <1>0, <3>2 DEF Progress, Fresh, Inserted
    <3>4. \A v \in Workers, r \in Reqs : In(batch'[v], r) =>
             (Done(v, r)' /\ Inserted(r)') \/ (~Done(v, r)' /\ Fresh(r)')
      <4>1. SUFFICES ASSUME NEW v \in Workers, NEW r \in Reqs, In(batch[v], r)
                     PROVE  (Done(v, r) /\ Inserted(r)) \/ (~Done(v, r) /\ Fresh(r))
        BY <3>1, <3>2 DEF Fresh, Inserted
      <4>2. QED
        BY <1>0, <4>1 DEF Progress
    <3>5. QED
      BY <1>0, <3>2, <3>3, <3>4 DEF Progress
  <2>4. Rows'
    BY <1>0, <1>7 DEF SaveBatchErr, Rows, SavedAtMostOnce, AnnouncedIsPersisted, Stored, db
  <2>5. Mutex'
    BY <1>0, <1>7 DEF SaveBatchErr, Mutex
  <2>6. Stopping'
    BY <1>0, <1>7 DEF SaveBatchErr, TypeOK, Stopping
  <2>7. QED
    BY <2>1, <2>2, <2>3, <2>4, <2>5, <2>6 DEF IInv
<1>8. ASSUME phase[w] = "fallback", SaveOk(Head(batch[w])),
             phase' = [phase EXCEPT ![w] = "announceSync"], UNCHANGED batch,
             UNCHANGED <<ch, stopped, enq, stp, tries, quit, announced>>
      PROVE  IInv'
  <2>1. batch[w] # <<>> /\ batch[w] \in Seq(Reqs)
    BY <1>0, <1>8 DEF Stopping, TypeOK
  <2>2. PICK h \in Reqs : h = Head(batch[w]) /\ In(batch[w], h)
    BY <2>1, TailIn
  <2>3. Fresh(h)
    BY <1>0, <1>8, <2>2 DEF Progress, Done
  <2>4. \A v \in Workers, r \in Reqs : Done(v, r)' <=> Done(v, r) \/ (v = w /\ r = h)
    BY <1>0, <1>8, <2>2 DEF TypeOK, Done
  <2>5. /\ enq[h] = "returned" /\ ~In(ch, h)
        /\ \A v \in Workers : v # w => ~In(batch[v], h)
    BY <1>0, <2>2 DEF OnePlace
  <2>6. /\ rows' \subseteq [id : Nat \ {0}, req : Reqs]
        /\ lastId' \in Nat
        /\ reqId' \in [Reqs -> Nat]
        /\ \A x \in Reqs : x \in Stored' <=> x \in Stored \/ x = h
        /\ Inserted(h)'
        /\ \A x \in Reqs : Inserted(x) => Inserted(x)'
        /\ Rows'
        /\ lost' = lost
    <3>1. SaveOk(h) /\ announced' = announced
      BY <1>8, <2>2
    <3>2. QED
      BY <1>0, <2>2, <2>3, <3>1, SaveOkFacts
  <2>7. TypeOK'
    BY <1>0, <1>8, <2>6 DEF TypeOK
  <2>8. OnePlace'
    BY <1>0, <1>8 DEF OnePlace
  <2>9. Progress'
    <3>1. \A x \in Reqs : x # h /\ Fresh(x) => Fresh(x)'
      BY <1>8, <2>6 DEF Fresh
    <3>2. \A v \in Workers, r \in Reqs : In(batch[v], r) /\ r = h => v = w
      BY <2>5
    <3>3. \A v \in Workers, r \in Reqs : In(batch[v], r) =>
             (Done(v, r)' /\ Inserted(r)') \/ (~Done(v, r)' /\ Fresh(r)')
      BY <1>0, <2>4, <2>6, <3>1, <3>2 DEF Progress
    <3>4. enq' = enq /\ ch' = ch /\ batch' = batch /\ lost' = lost /\ announced' = announced
      BY <1>8, <2>6
    <3>5. \A r \in Reqs : enq[r] \in {"new", "saving"} => Fresh(r)'
      BY <1>0, <2>5, <3>1 DEF Progress
    <3>6. \A r \in Reqs : enq[r] = "announcing" => Inserted(r)'
      BY <1>0, <2>6 DEF Progress
    <3>7. \A r \in Reqs : In(ch, r) => Fresh(r)'
      BY <1>0, <2>5, <3>1 DEF Progress
    <3>8. \A r \in Reqs : r \in Stored => r \in Stored'
      BY <2>6
    <3>9. QED
      BY <1>0, <3>3, <3>4, <3>5, <3>6, <3>7, <3>8 DEF Progress
  <2>10. Mutex'
    BY <1>0, <1>8 DEF Mutex
  <2>11. Stopping'
    BY <1>0, <1>8, <2>1 DEF TypeOK, Stopping
  <2>12. QED
    BY <2>6, <2>7, <2>8, <2>9, <2>10, <2>11 DEF IInv
<1>9. ASSUME phase[w] = "fallback", SaveErr(Head(batch[w])),
             phase' = [phase EXCEPT ![w] = AfterHead(w, "fallback")],
             batch' = [batch EXCEPT ![w] = Tail(@)],
             UNCHANGED <<ch, stopped, enq, stp, tries, quit, announced>>
      PROVE  IInv'
  <2>1. batch[w] # <<>> /\ batch[w] \in Seq(Reqs)
    BY <1>0, <1>9 DEF Stopping, TypeOK
  <2>2. PICK h \in Reqs :
        /\ h = Head(batch[w]) /\ In(batch[w], h)
        /\ batch' \in [Workers -> Seq(Reqs)]
        /\ batch'[w] = Tail(batch[w])
        /\ \A v \in Workers : v # w => batch'[v] = batch[v]
        /\ \A v \in Workers, r \in Reqs :
              In(batch'[v], r) <=> In(batch[v], r) /\ ~(v = w /\ r = h)
        /\ OnePlace'
    BY <1>0, <1>9, <2>1, DropHead
  <2>3. Fresh(h)
    BY <1>0, <1>9, <2>2 DEF Progress, Done
  <2>4. /\ enq[h] = "returned" /\ ~In(ch, h)
        /\ \A v \in Workers : v # w => ~In(batch[v], h)
    BY <1>0, <2>2 DEF OnePlace
  <2>5. /\ AfterHead(w, "fallback") \in {"fallback", "exited", "select"}
        /\ AfterHead(w, "fallback") = "fallback" <=> batch'[w] # <<>>
        /\ AfterHead(w, "fallback") = "exited" => quit[w]
        /\ AfterHead(w, "fallback") = "select" => ~quit[w]
    BY <2>2 DEF AfterHead
  <2>6. \A v \in Workers, r \in Reqs : In(batch'[v], r) => (Done(v, r)' <=> Done(v, r))
    BY <1>0, <1>9, <2>2, <2>5 DEF TypeOK, Done
  <2>7. lost' = lost \cup {h} /\ UNCHANGED <<rows, lastId, reqId>> /\ Stored' = Stored
    BY <1>9, <2>2 DEF SaveErr, Stored
  <2>8. TypeOK'
    BY <1>0, <1>9, <2>2, <2>5, <2>7 DEF TypeOK
  <2>9. Progress'
    <3>1. \A x \in Reqs : x # h => /\ Fresh(x)' <=> Fresh(x)
                                   /\ Inserted(x)' <=> Inserted(x)
      BY <1>9, <2>7 DEF Fresh, Inserted
    <3>2. \A v \in Workers, r \in Reqs : In(batch'[v], r) => r # h /\ In(batch[v], r)
      BY <2>2, <2>4
    <3>3. QED
      BY <1>0, <1>9, <2>2, <2>4, <2>6, <2>7, <3>1, <3>2 DEF Progress
  <2>10. Rows'
    BY <1>0, <1>9, <2>3, <2>7 DEF Fresh, Rows, SavedAtMostOnce, AnnouncedIsPersisted, Stored
  <2>11. Mutex'
    BY <1>0, <1>9 DEF Mutex
  <2>12. Stopping'
    BY <1>0, <1>9, <2>2, <2>5 DEF TypeOK, Stopping
  <2>13. QED
    BY <2>2, <2>8, <2>9, <2>10, <2>11, <2>12 DEF IInv
<1>10. ASSUME NEW here \in {"announce", "announceSync"},
              NEW more \in {"announce", "fallback"},
              here = "announce" <=> more = "announce",
              AnnounceHead(w, here, more)
       PROVE  IInv'
  <2>1. batch[w] # <<>> /\ batch[w] \in Seq(Reqs) /\ phase[w] = here
    BY <1>0, <1>10 DEF AnnounceHead, Stopping, TypeOK
  <2>2. PICK h \in Reqs :
        /\ h = Head(batch[w]) /\ In(batch[w], h)
        /\ batch' \in [Workers -> Seq(Reqs)]
        /\ batch'[w] = Tail(batch[w])
        /\ \A v \in Workers : v # w => batch'[v] = batch[v]
        /\ \A v \in Workers, r \in Reqs :
              In(batch'[v], r) <=> In(batch[v], r) /\ ~(v = w /\ r = h)
        /\ OnePlace'
    BY <1>0, <1>10, <2>1, DropHead DEF AnnounceHead
  <2>3. Inserted(h)
    BY <1>0, <1>10, <2>1, <2>2 DEF Progress, Done
  <2>4. /\ enq[h] = "returned" /\ ~In(ch, h)
        /\ \A v \in Workers : v # w => ~In(batch[v], h)
    BY <1>0, <2>2 DEF OnePlace
  <2>5. /\ AfterHead(w, more) \in {more, "exited", "select"}
        /\ AfterHead(w, more) = more <=> batch'[w] # <<>>
        /\ AfterHead(w, more) = "exited" => quit[w]
        /\ AfterHead(w, more) = "select" => ~quit[w]
    BY <1>10, <2>2 DEF AfterHead
  <2>6. phase' = [phase EXCEPT ![w] = AfterHead(w, more)]
    BY <1>10 DEF AnnounceHead
  <2>7. ~In(batch'[w], h)
    BY <2>2
  <2>8. \A v \in Workers, r \in Reqs : In(batch'[v], r) => (Done(v, r)' <=> Done(v, r))
    <3>1. \A r \in Reqs : In(batch'[w], r) => batch'[w] # <<>>
      BY <2>2, InType
    <3>2. \A v \in Workers, r \in Reqs : v # w => (Done(v, r)' <=> Done(v, r))
      BY <1>0, <2>2, <2>6 DEF TypeOK, Done
    <3>3. phase'[w] = AfterHead(w, more)
      BY <1>0, <2>6 DEF TypeOK
    <3>4. \A r \in Reqs : In(batch'[w], r) => r # h
      BY <2>7
    <3>5. \A r \in Reqs : In(batch'[w], r) => (Done(w, r)' <=> Done(w, r))
      BY <1>10, <2>1, <2>2, <2>5, <3>1, <3>3, <3>4 DEF Done
    <3>6. QED
      BY <3>2, <3>5
  <2>9. OnSave(h) /\ UNCHANGED db
    BY <1>10, <2>2 DEF AnnounceHead
  <2>10. /\ announced' \in [Reqs -> Nat]
         /\ \A x \in Reqs : x \in Stored' <=> x \in Stored
         /\ announced'[h] = 1
         /\ h \in Stored
         /\ \A x \in Reqs : x # h => announced'[x] = announced[x]
         /\ Rows'
    BY <1>0, <2>2, <2>3, <2>9, OnSaveFacts
  <2>11. TypeOK'
    <3>1. phase' \in [Workers -> {"select", "drain", "flush", "announce",
                                  "fallback", "announceSync", "exited"}]
      BY <1>0, <1>10, <2>5, <2>6 DEF TypeOK
    <3>2. QED
      BY <1>0, <1>10, <2>2, <2>10, <3>1 DEF AnnounceHead, TypeOK, db
  <2>12. Progress'
    <3>1. \A x \in Reqs : x # h => /\ Fresh(x)' <=> Fresh(x)
                                   /\ Inserted(x)' <=> Inserted(x)
      BY <2>9, <2>10 DEF Fresh, Inserted, db
    <3>2. \A v \in Workers, r \in Reqs : In(batch'[v], r) => r # h /\ In(batch[v], r)
      BY <2>2, <2>4
    <3>3. enq' = enq /\ ch' = ch /\ lost' = lost
      BY <1>10 DEF AnnounceHead, db
    <3>4. QED
      BY <1>0, <2>2, <2>4, <2>8, <2>10, <3>1, <3>2, <3>3 DEF Progress
  <2>13. Mutex'
    BY <1>0, <1>10 DEF AnnounceHead, Mutex
  <2>14. Stopping'
    <3>1. /\ phase[w] \in {"announce", "announceSync"}
          /\ phase'[w] = "exited" => quit[w] /\ batch'[w] = <<>>
          /\ phase'[w] \in {"exited", "select"} \/ batch'[w] # <<>>
          /\ phase'[w] # "drain"
      BY <1>0, <1>10, <2>1, <2>2, <2>5, <2>6 DEF TypeOK
    <3>2. /\ \A v \in Workers : v # w => phase'[v] = phase[v] /\ batch'[v] = batch[v]
          /\ UNCHANGED <<ch, stopped, stp, quit>>
      BY <1>0, <1>10, <2>2, <2>6 DEF AnnounceHead, TypeOK
    <3>3. QED
      BY <1>0, <3>1, <3>2 DEF Stopping
  <2>15. QED
    BY <2>2, <2>10, <2>11, <2>12, <2>13, <2>14 DEF IInv
<1>11. CASE Announce(w)
  BY <1>10, <1>11 DEF Announce
<1>12. CASE AnnounceSync(w)
  BY <1>10, <1>12 DEF AnnounceSync
<1>13. QED
  BY <1>1, <1>2, <1>3, <1>4, <1>5, <1>6, <1>7, <1>8, <1>9, <1>11, <1>12
     DEF Worker, FallbackSave

-----------------------------------------------------------------------------
(***************************************************************************)
(* The theorems.                                                           *)
(***************************************************************************)

\* The invariant holds initially.
LEMMA InitIInv == Init => IInv
<1>1. SUFFICES ASSUME Init PROVE IInv
  OBVIOUS
<1>2. TypeOK
  <2>1. 0 \in 0..MaxTries-1 /\ Len(ch) <= ChanCap
    BY <1>1, BatchAssumption DEF Init
  <2>2. ch \in Seq(Reqs) /\ batch \in [Workers -> Seq(Reqs)]
    BY <1>1 DEF Init
  <2>3. tries \in [Workers -> 0..MaxTries-1] /\ quit \in [Workers -> BOOLEAN]
    BY <1>1, <2>1 DEF Init
  <2>4. /\ enq \in [Reqs -> {"new", "saving", "announcing", "returned"}]
        /\ stp \in [Stoppers -> {"new", "waiting", "draining", "returned"}]
        /\ phase \in [Workers -> {"select", "drain", "flush", "announce",
                                  "fallback", "announceSync", "exited"}]
    BY <1>1 DEF Init
  <2>5. QED
    BY <1>1, <2>1, <2>2, <2>3, <2>4 DEF Init, TypeOK
<1>3. /\ Distinct(ch) /\ \A x : ~In(ch, x)
      /\ \A w \in Workers : Distinct(batch[w]) /\ \A x : ~In(batch[w], x)
  BY <1>1, EmptyIn DEF Init
<1>4. OnePlace
  BY <1>3 DEF OnePlace
<1>5. Progress
  BY <1>1, <1>3 DEF Init, Progress, Fresh, Stored
<1>6. Rows
  BY <1>1 DEF Init, Rows, SavedAtMostOnce, AnnouncedIsPersisted, Stored
<1>7. Mutex /\ Stopping
  BY <1>1 DEF Init, Mutex, Stopping
<1>8. QED
  BY <1>2, <1>4, <1>5, <1>6, <1>7 DEF IInv

\* Every step of the writer keeps the invariant.
LEMMA StepIInv == IInv /\ [Next]_vars => IInv'
<1>1. SUFFICES ASSUME IInv, [Next]_vars PROVE IInv'
  OBVIOUS
<1>2. CASE UNCHANGED vars
  <2>1. TypeOK /\ OnePlace /\ Progress /\ Rows /\ Mutex /\ Stopping
    BY <1>1 DEF IInv
  <2>2. TypeOK'
    BY <1>2, <2>1 DEF vars, procs, db, TypeOK
  <2>3. OnePlace'
    BY <1>2, <2>1 DEF vars, procs, db, OnePlace
  <2>4. Progress'
    BY <1>2, <2>1 DEF vars, procs, db, Progress, Done, Fresh, Inserted, Stored
  <2>5. Rows'
    BY <1>2, <2>1 DEF vars, procs, db, Rows, SavedAtMostOnce, AnnouncedIsPersisted, Stored
  <2>6. Mutex' /\ Stopping'
    BY <1>2, <2>1 DEF vars, procs, db, Mutex, Stopping
  <2>7. QED
    BY <2>2, <2>3, <2>4, <2>5, <2>6 DEF IInv
<1>3. CASE Terminated
  BY <1>2, <1>3 DEF Terminated
<1>4. CASE Next
  BY <1>1, <1>3, <1>4, EnqueueStep, StopStep, WorkerStep DEF Next
<1>5. QED
  BY <1>1, <1>2, <1>4

\* The invariant holds throughout.
THEOREM Invariance == Spec => []IInv
  BY InitIInv, StepIInv, PTL DEF Spec

\* Every variable keeps its type; in particular the channel never holds more
\* than ChanCap requests and a flush never makes more than MaxTries attempts.
THEOREM TypeCorrect == Spec => []TypeOK
<1>1. IInv => TypeOK
  BY DEF IInv
<1>2. QED
  BY Invariance, <1>1, PTL

\* No captured request gets two rows, whatever fails and is retried.
THEOREM StoredOnce == Spec => []SavedAtMostOnce
<1>1. IInv => SavedAtMostOnce
  BY DEF IInv, Rows
<1>2. QED
  BY Invariance, <1>1, PTL

\* onSave runs at most once per request and only with the id of its row.
THEOREM AnnounceAfterSave == Spec => []AnnouncedIsPersisted
<1>1. IInv => AnnouncedIsPersisted
  BY DEF IInv, Rows
<1>2. QED
  BY Invariance, <1>1, PTL

\* When every worker has left, everything whose Enqueue returned is settled.
LEMMA ExitedMeansSettled ==
    ASSUME IInv, \A w \in Workers : phase[w] = "exited"
    PROVE  /\ ch = <<>>
           /\ \A w \in Workers : batch[w] = <<>>
           /\ \A r \in Reqs : enq[r] = "returned" =>
                 r \in lost \/ (r \in Stored /\ announced[r] = 1)
<1>1. /\ ch = <<>>
      /\ \A w \in Workers : batch[w] = <<>>
  BY BatchAssumption DEF IInv, Stopping
<1>2. \A r \in Reqs : ~In(ch, r) /\ \A w \in Workers : ~In(batch[w], r)
  BY <1>1, EmptyIn
<1>3. QED
  BY <1>1, <1>2 DEF IInv, Progress

\* A call of Stop that has returned leaves nothing in the channel, in a batch,
\* or without a row and an announcement.
THEOREM StopDrains == Spec => []StopLeavesNothing
<1>1. ASSUME IInv PROVE StopLeavesNothing
  <2>1. SUFFICES ASSUME NEW s \in Stoppers, stp[s] = "returned"
                 PROVE  /\ ch = <<>>
                        /\ \A w \in Workers : phase[w] = "exited" /\ batch[w] = <<>>
                        /\ \A r \in Reqs : enq[r] = "returned" =>
                              r \in lost \/ (r \in Stored /\ announced[r] = 1)
    BY DEF StopLeavesNothing
  <2>2. \A w \in Workers : phase[w] = "exited"
    BY <1>1, <2>1 DEF IInv, Stopping
  <2>3. QED
    BY <1>1, <2>2, ExitedMeansSettled
<1>2. QED
  BY Invariance, <1>1, PTL

\* The writer is safe at every moment: what the run batch_writer checks on one
\* instance holds for any number of workers and any bounds.
THEOREM Safety == Spec => []Inv
<1>1. TypeOK /\ AnnouncedIsPersisted /\ StopLeavesNothing => Inv
  BY DEF Inv
<1>2. QED
  BY <1>1, TypeCorrect, AnnounceAfterSave, StopDrains, PTL

\* The drain at the end of Stop never finds a request.
THEOREM DrainIsIdle == Spec => []DrainFindsNothing
<1>1. ASSUME IInv PROVE DrainFindsNothing
  <2>1. SUFFICES ASSUME NEW s \in Stoppers, stp[s] = "draining"
                 PROVE  ch = <<>>
    BY DEF DrainFindsNothing
  <2>2. \A w \in Workers : phase[w] = "exited"
    BY <1>1, <2>1 DEF IInv, Stopping
  <2>3. QED
    BY <1>1, <2>2, ExitedMeansSettled
<1>2. QED
  BY Invariance, <1>1, PTL

-----------------------------------------------------------------------------
(***************************************************************************)
(* The writer implements CaptureSink.                                      *)
(***************************************************************************)
Accepted == {r \in Reqs : enq[r] # "new"}
Closed   == \E s \in Stoppers : stp[s] = "returned"
AbsVars  == <<Accepted, rows, announced, lost, Closed>>

\* With the mutex free after a Stop, or with every worker gone and no call
\* saving, the abstract sink is settled.
LEMMA SettledWhenExited ==
    ASSUME IInv, \A w \in Workers : phase[w] = "exited",
           \A r \in Reqs : enq[r] \in {"new", "returned"}
    PROVE  Sink!Settled
<1>1. \A r \in Reqs : enq[r] = "returned" =>
         r \in lost \/ (r \in Stored /\ announced[r] = 1)
  BY ExitedMeansSettled
<1>2. \A r \in Reqs : enq[r] = "new" => r \notin Stored
  BY DEF IInv, Progress, Fresh
<1>3. \A r \in Stored : r \in Reqs
  <2>1. SUFFICES ASSUME NEW row \in rows PROVE row.req \in Reqs
    BY DEF Stored
  <2>2. row \in [id : Nat \ {0}, req : Reqs]
    BY DEF IInv, TypeOK
  <2>3. QED
    BY <2>2
<1>4. \A r \in Reqs : ~(r \in lost /\ r \in Stored)
  BY DEF IInv, Rows
<1>5. Sink!Stored = Stored
  BY DEF Sink!Stored, Stored
<1>6. Sink!Pending = {}
  BY <1>1, <1>5 DEF Sink!Pending
<1>7. \A r \in Sink!Stored : announced[r] = 1
  BY <1>1, <1>2, <1>3, <1>4, <1>5
<1>8. QED
  BY <1>6, <1>7 DEF Sink!Settled

\* A successful transaction for requests that were pending is Persist.
LEMMA InsertIsPersist ==
    ASSUME IInv, NEW q \in Seq(Reqs), q # <<>>, Distinct(q),
           \A r \in Reqs : In(q, r) => Fresh(r) /\ enq[r] # "new",
           Insert(q, 1..Len(q)), UNCHANGED <<lost, announced, stp>>,
           Accepted' = Accepted
    PROVE  Sink!Persist
<1>1. TypeOK /\ Rows
  BY DEF IInv
<1>2. \A r \in Reqs : In(q, r) => r \notin Stored
  BY DEF Fresh
<1>3. /\ rows \subseteq rows'
      /\ SavedAtMostOnce'
      /\ \A x \in rows, y \in rows' \ rows : x.id < y.id
      /\ \A y \in rows' \ rows : \E i \in 1..Len(q) : y.req = q[i]
      /\ \A i \in 1..Len(q) : [id |-> reqId'[q[i]], req |-> q[i]] \in rows'
  BY <1>1, <1>2, InsertFacts
<1>4. \A y \in rows' \ rows : y.req \in Reqs /\ In(q, y.req)
  BY <1>3 DEF In
<1>5. \A y \in rows' \ rows : y.req \in Sink!Pending
  BY <1>4 DEF Sink!Pending, Sink!Stored, Stored, Fresh
<1>6. rows' \ rows # {}
  <2>1. 1 \in 1..Len(q) /\ q[1] \in Reqs /\ In(q, q[1])
    BY DEF In
  <2>2. [id |-> reqId'[q[1]], req |-> q[1]] \in rows'
    BY <1>3, <2>1
  <2>3. [id |-> reqId'[q[1]], req |-> q[1]].req = q[1]
    OBVIOUS
  <2>4. [id |-> reqId'[q[1]], req |-> q[1]] \notin rows
    BY <1>2, <2>1, <2>3 DEF Stored
  <2>5. QED
    BY <2>2, <2>4
<1>7. \A x, y \in rows' \ rows : x.req = y.req \/ x.id = y.id => x = y
  BY <1>3 DEF SavedAtMostOnce
<1>8. UNCHANGED <<Accepted, announced, lost, Closed>>
  BY DEF Closed
<1>9. QED
  BY <1>3, <1>5, <1>6, <1>7, <1>8 DEF Sink!Persist, Accepted, Closed

\* A Save is a transaction for a queue of one.
LEMMA SaveIsPersist ==
    ASSUME IInv, NEW r \in Reqs, Fresh(r), enq[r] # "new",
           SaveOk(r), UNCHANGED <<announced, stp>>, Accepted' = Accepted
    PROVE  Sink!Persist
<1> DEFINE q == <<r>>
<1>1. q \in Seq(Reqs) /\ q # <<>> /\ Len(q) = 1 /\ q[1] = r
  OBVIOUS
<1>2. 1..Len(q) = {1}
  BY <1>1
<1>3. Distinct(q) /\ \A x : In(q, x) <=> x = r
  BY <1>1, <1>2 DEF Distinct, In
<1>4. Insert(q, 1..Len(q)) /\ UNCHANGED <<lost, announced>>
  BY <1>2 DEF SaveOk
<1>5. \A x \in Reqs : In(q, x) => Fresh(x) /\ enq[x] # "new"
  BY <1>3
<1>. HIDE DEF q
<1>6. QED
  BY <1>1, <1>3, <1>4, <1>5, InsertIsPersist

\* A failed Save is Discard.
LEMMA SaveErrIsDiscard ==
    ASSUME IInv, NEW r \in Reqs, Fresh(r), enq[r] # "new",
           SaveErr(r), UNCHANGED <<announced, stp>>, Accepted' = Accepted
    PROVE  Sink!Next
<1>1. r \in Sink!Pending
  BY DEF Sink!Pending, Sink!Stored, Stored, Fresh
<1>2. UNCHANGED <<Accepted, rows, announced, Closed>> /\ lost' = lost \cup {r}
  BY DEF SaveErr, Closed
<1>3. Sink!Discard(r)
  BY <1>1, <1>2 DEF Sink!Discard, Accepted, Closed
<1>4. QED
  BY <1>3 DEF Sink!Next

\* A call of onSave is Announce.
LEMMA OnSaveIsAnnounce ==
    ASSUME IInv, NEW r \in Reqs, Inserted(r), OnSave(r),
           UNCHANGED <<rows, lost, stp>>, Accepted' = Accepted
    PROVE  Sink!Next
<1>1. [id |-> reqId[r], req |-> r].req = r
  OBVIOUS
<1>2. r \in Sink!Stored /\ announced[r] = 0
  BY <1>1 DEF Sink!Stored, Inserted
<1>3. announced' = [announced EXCEPT ![r] = 1]
  BY <1>2 DEF OnSave, IInv, TypeOK
<1>4. UNCHANGED <<Accepted, rows, lost, Closed>>
  BY DEF Closed
<1>5. Sink!Announce(r)
  BY <1>2, <1>3, <1>4 DEF Sink!Announce, Accepted, Closed
<1>6. QED
  BY <1>5 DEF Sink!Next

\* Every step of the writer is a step of the sink or changes nothing there.
LEMMA StepRefines ==
    ASSUME IInv, Next
    PROVE  Sink!Next \/ UNCHANGED AbsVars
<1>0. TypeOK /\ OnePlace /\ Progress /\ Rows /\ Mutex /\ Stopping
  BY DEF IInv
<1>1. ASSUME NEW r \in Reqs, EnqueueSend(r) \/ EnqueueSync(r)
      PROVE  Sink!Next
  <2>1. Accepted' = Accepted \cup {r} /\ r \notin Accepted
    BY <1>0, <1>1 DEF EnqueueSend, EnqueueSync, Accepted, TypeOK
  <2>2. Closed => Sink!Settled
    <3>1. SUFFICES ASSUME Closed PROVE Sink!Settled
      OBVIOUS
    <3>2. \A w \in Workers : phase[w] = "exited"
      BY <1>0, <3>1 DEF Closed, Stopping
    <3>3. \A x \in Reqs : enq[x] \in {"new", "returned"}
      BY <1>0, <1>1 DEF EnqueueSend, EnqueueSync, EnqMuHeld, TypeOK
    <3>4. QED
      BY <3>2, <3>3, SettledWhenExited
  <2>3. UNCHANGED <<rows, announced, lost, Closed>>
    BY <1>1 DEF EnqueueSend, EnqueueSync, db, Closed
  <2>4. \E D \in SUBSET (Sink!Pending \cup {r}) : lost' = lost \cup D
    <3>1. {} \in SUBSET (Sink!Pending \cup {r}) /\ lost' = lost \cup {}
      BY <2>3
    <3>2. QED
      BY <3>1
  <2>5. Sink!Accept(r)
    BY <2>1, <2>2, <2>3, <2>4 DEF Sink!Accept, Accepted, Closed
  <2>6. QED
    BY <2>5 DEF Sink!Next
<1>2. ASSUME NEW r \in Reqs, EnqueueSave(r)
      PROVE  Sink!Next
  <2>1. Fresh(r) /\ enq[r] # "new" /\ Accepted' = Accepted /\ UNCHANGED <<announced, stp>>
    BY <1>0, <1>2 DEF EnqueueSave, Progress, Accepted, TypeOK
  <2>2. CASE SaveOk(r)
    BY <2>1, <2>2, SaveIsPersist DEF Sink!Next
  <2>3. CASE SaveErr(r)
    BY <2>1, <2>3, SaveErrIsDiscard
  <2>4. QED
    BY <1>2, <2>2, <2>3 DEF EnqueueSave
<1>3. ASSUME NEW r \in Reqs, EnqueueAnnounce(r)
      PROVE  Sink!Next
  <2>1. /\ Inserted(r) /\ OnSave(r) /\ Accepted' = Accepted
        /\ UNCHANGED <<rows, lost, stp>>
    BY <1>0, <1>3 DEF EnqueueAnnounce, Progress, Accepted, TypeOK, db
  <2>2. QED
    BY <2>1, OnSaveIsAnnounce
<1>4. ASSUME NEW s \in Stoppers, StopFirst(s) \/ StopAgain(s) \/ StopWaited(s)
      PROVE  UNCHANGED AbsVars
  <2>1. UNCHANGED <<enq, rows, announced, lost>>
    BY <1>4 DEF StopFirst, StopAgain, StopWaited, db
  <2>2. Closed' <=> Closed
    <3>1. CASE StopAgain(s)
      <4>1. PICK t \in Stoppers : stp[t] = "returned"
        BY <1>0, <3>1 DEF StopAgain, Stopping, EnqMuHeld, TypeOK
      <4>2. stp'[t] = "returned"
        BY <1>0, <3>1, <4>1 DEF StopAgain, TypeOK
      <4>3. QED
        BY <4>1, <4>2 DEF Closed
    <3>2. CASE StopFirst(s) \/ StopWaited(s)
      BY <1>0, <3>2 DEF StopFirst, StopWaited, TypeOK, Closed
    <3>3. QED
      BY <1>4, <3>1, <3>2
  <2>3. QED
    BY <2>1, <2>2 DEF AbsVars, Accepted, Closed
<1>5. ASSUME NEW s \in Stoppers, StopDrain(s)
      PROVE  Sink!Next \/ UNCHANGED AbsVars
  <2>1. \A w \in Workers : phase[w] = "exited"
    BY <1>0, <1>5 DEF StopDrain, Stopping
  <2>2. ch = <<>>
    BY <2>1, ExitedMeansSettled
  <2>3. PICK ok \in SUBSET (1..Len(ch)) :
           /\ Insert(ch, ok)
           /\ announced' = [r \in Reqs |-> IF \E i \in ok : ch[i] = r
                                           THEN announced[r] + 1 ELSE announced[r]]
           /\ lost' = lost \cup {ch[i] : i \in (1..Len(ch)) \ ok}
    BY <1>5 DEF StopDrain
  <2>4. UNCHANGED <<rows, announced, lost, enq>>
    BY <1>0, <1>5, <2>2, <2>3 DEF Insert, TypeOK, StopDrain
  <2>5. Closed'
    BY <1>0, <1>5 DEF StopDrain, TypeOK, Closed
  <2>6. \A x \in Reqs : enq[x] \in {"new", "returned"}
    BY <1>0, <1>5 DEF StopDrain, Mutex, TypeOK
  <2>7. Sink!Settled
    BY <2>1, <2>6, SettledWhenExited
  <2>8. CASE ~Closed
    BY <2>4, <2>5, <2>7, <2>8 DEF Sink!Next, Sink!Close, Accepted, Closed
  <2>9. CASE Closed
    <3>1. Accepted' = Accepted
      BY <2>4 DEF Accepted
    <3>2. (Closed' <=> Closed)
      BY <2>5, <2>9
    <3>3. QED
      BY <2>4, <3>1, <3>2 DEF AbsVars, Closed
  <2>10. QED
    BY <2>8, <2>9
<1>6. ASSUME NEW w \in Workers,
             Receive(w) \/ Tick(w) \/ SeeStop(w) \/ Drain(w) \/ Drained(w)
               \/ SaveBatchErr(w)
      PROVE  UNCHANGED AbsVars
  <2>1. UNCHANGED <<enq, rows, announced, lost, stp>>
    BY <1>6 DEF Receive, Tick, SeeStop, Drain, Drained, SaveBatchErr, db
  <2>2. QED
    BY <2>1 DEF AbsVars, Accepted, Closed
<1>7. ASSUME NEW w \in Workers, SaveBatchOk(w)
      PROVE  Sink!Next
  <2>1. /\ batch[w] \in Seq(Reqs) /\ Distinct(batch[w]) /\ batch[w] # <<>>
        /\ \A r \in Reqs : In(batch[w], r) => Fresh(r) /\ enq[r] # "new"
    BY <1>0, <1>7 DEF SaveBatchOk, TypeOK, OnePlace, Progress, Done, Stopping
  <2>2. /\ Insert(batch[w], 1..Len(batch[w]))
        /\ UNCHANGED <<lost, announced, stp>> /\ Accepted' = Accepted
    BY <1>7 DEF SaveBatchOk, Accepted
  <2>3. QED
    BY <2>1, <2>2, InsertIsPersist DEF Sink!Next
<1>8. ASSUME NEW w \in Workers, FallbackSave(w)
      PROVE  Sink!Next
  <2>1. batch[w] # <<>> /\ batch[w] \in Seq(Reqs)
    BY <1>0, <1>8 DEF FallbackSave, Stopping, TypeOK
  <2>2. PICK h \in Reqs : h = Head(batch[w]) /\ In(batch[w], h)
    BY <2>1, TailIn
  <2>3. Fresh(h) /\ enq[h] # "new"
    BY <1>0, <1>8, <2>2 DEF FallbackSave, Progress, Done, OnePlace
  <2>4. UNCHANGED <<announced, stp>> /\ Accepted' = Accepted
    BY <1>8 DEF FallbackSave, Accepted
  <2>5. SaveOk(h) \/ SaveErr(h)
    BY <1>8, <2>2 DEF FallbackSave
  <2>6. QED
    BY <2>3, <2>4, <2>5, SaveIsPersist, SaveErrIsDiscard DEF Sink!Next
<1>9. ASSUME NEW w \in Workers, Announce(w) \/ AnnounceSync(w)
      PROVE  Sink!Next
  <2>1. phase[w] \in {"announce", "announceSync"}
    BY <1>9 DEF Announce, AnnounceSync, AnnounceHead
  <2>2. batch[w] # <<>> /\ batch[w] \in Seq(Reqs)
    BY <1>0, <2>1 DEF Stopping, TypeOK
  <2>3. PICK h \in Reqs : h = Head(batch[w]) /\ In(batch[w], h)
    BY <2>2, TailIn
  <2>4. Inserted(h)
    BY <1>0, <2>1, <2>3 DEF Progress, Done
  <2>5. OnSave(h) /\ UNCHANGED <<rows, lost, stp>> /\ Accepted' = Accepted
    BY <1>9, <2>3 DEF Announce, AnnounceSync, AnnounceHead, db, Accepted
  <2>6. QED
    BY <2>4, <2>5, OnSaveIsAnnounce
<1>10. CASE Terminated
  BY <1>10 DEF Terminated, vars, procs, db, AbsVars, Accepted, Closed
<1>11. QED
  BY <1>1, <1>2, <1>3, <1>4, <1>5, <1>6, <1>7, <1>8, <1>9, <1>10
     DEF Next, Enqueue, Stop, Worker

\* BatchWriter implements the abstract sink: rows are inserted once and in
\* transactions of pending requests, announcements follow their row, and Stop
\* closes a settled sink.
THEOREM Refinement == Spec => SinkSpec
<1>1. Init => Sink!Init
  BY DEF Init, Sink!Init
<1>2. ASSUME IInv, [Next]_vars PROVE [Sink!Next]_(Sink!vars)
  <2>1. CASE UNCHANGED vars
    BY <2>1 DEF vars, procs, db, Sink!vars
  <2>2. CASE Next
    BY <1>2, <2>2, StepRefines DEF AbsVars, Accepted, Closed, Sink!vars
  <2>3. QED
    BY <1>2, <2>1, <2>2
<1>3. QED
  BY Invariance, <1>1, <1>2, PTL DEF Spec, SinkSpec, Sink!Spec
=============================================================================
