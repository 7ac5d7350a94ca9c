------------------------------ MODULE RingQueue ------------------------------
(***************************************************************************)
(* What the memory ring buffer of the capture engine promises: a bounded   *)
(* queue that never makes a producer wait.  A record that does not fit is  *)
(* counted as dropped, or pushes the oldest record out; consumers take     *)
(* everything there is in the order it was pushed, and sleep on a          *)
(* condition variable while there is nothing.  MemRing (slots and indices) *)
(* implements it; AsyncWriterPool is built on it.                          *)
(***************************************************************************)
EXTENDS Naturals, Sequences, FiniteSets, SequencesExt

CONSTANTS
    Recs,       \* captured requests; each is pushed at most once
    Consumers,  \* goroutines that call PopBatch
    Cap         \* records the ring can hold (at least one)

VARIABLES
    pushed,     \* records handed to Push
    q,          \* the records in the ring, oldest first
    dropped,    \* records given up
    refused,    \* records whose Push returned false
    taken,      \* the records handed out by PopBatch, in order
    stopped,    \* Stop has been called
    con         \* con[c]: "out" of PopBatch, "parked" on the condition
                \* variable, or "woken" and about to look again

vars == <<pushed, q, dropped, refused, taken, stopped, con>>

TypeOK ==
    /\ pushed \subseteq Recs
    /\ q \in Seq(Recs) /\ Len(q) <= Cap
    /\ dropped \subseteq Recs
    /\ refused \subseteq Recs
    /\ taken \in Seq(Recs)
    /\ stopped \in BOOLEAN
    /\ con \in [Consumers -> {"out", "parked", "woken"}]

Init ==
    /\ pushed = {}
    /\ q = <<>>
    /\ dropped = {}
    /\ refused = {}
    /\ taken = <<>>
    /\ stopped = FALSE
    /\ con = [c \in Consumers |-> "out"]

\* sync.Cond: Signal wakes one sleeper if there is any, Broadcast all.
Parked == {c \in Consumers : con[c] = "parked"}

Signal ==
    IF Parked = {} THEN UNCHANGED con
    ELSE \E c \in Parked : con' = [con EXCEPT ![c] = "woken"]

Broadcast == con' = [c \in Consumers |-> IF con[c] = "parked" THEN "woken" ELSE con[c]]

-----------------------------------------------------------------------------
Refuse(r) ==
    /\ stopped
    /\ refused' = refused \cup {r}
    /\ UNCHANGED <<q, dropped, taken, stopped, con>>

DropNew(r) ==
    /\ ~stopped
    /\ dropped' = dropped \cup {r}
    /\ UNCHANGED <<q, refused, taken, stopped, con>>

Add(r) ==
    /\ ~stopped
    /\ Len(q) < Cap
    /\ q' = Append(q, r)
    /\ Signal
    /\ UNCHANGED <<dropped, refused, taken, stopped>>

\* Room is made for r even when q is not full: a ring may also be limited by
\* the bytes it holds.
DropOldest(r) ==
    /\ ~stopped
    /\ q # <<>>
    /\ q' = Append(Tail(q), r)
    /\ dropped' = dropped \cup {Head(q)}
    /\ Signal
    /\ UNCHANGED <<refused, taken, stopped>>

Push(r) ==
    /\ r \notin pushed
    /\ pushed' = pushed \cup {r}
    /\ Refuse(r) \/ DropNew(r) \/ Add(r) \/ DropOldest(r)

Take(c) ==
    /\ con[c] # "parked"
    /\ q # <<>>
    /\ taken' = taken \o q
    /\ q' = <<>>
    /\ con' = [con EXCEPT ![c] = "out"]
    /\ UNCHANGED <<pushed, dropped, refused, stopped>>

Park(c) ==
    /\ con[c] # "parked"
    /\ q = <<>> /\ ~stopped
    /\ con' = [con EXCEPT ![c] = "parked"]
    /\ UNCHANGED <<pushed, q, dropped, refused, taken, stopped>>

Leave(c) ==
    /\ con[c] # "parked"
    /\ q = <<>> /\ stopped
    /\ con' = [con EXCEPT ![c] = "out"]
    /\ UNCHANGED <<pushed, q, dropped, refused, taken, stopped>>

Stop ==
    /\ stopped' = TRUE
    /\ Broadcast
    /\ UNCHANGED <<pushed, q, dropped, refused, taken>>

Next ==
    \/ \E r \in Recs : Push(r)
    \/ \E c \in Consumers : Take(c) \/ Park(c) \/ Leave(c)
    \/ Stop

Spec == Init /\ [][Next]_vars
=============================================================================
