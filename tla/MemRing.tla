------------------------------- MODULE MemRing -------------------------------
(***************************************************************************)
(* internal/capture/memring.go, MemRingBuffer: a ring of Size slots with   *)
(* an entry cap and a byte cap, many producers (the capture workers) and   *)
(* consumers that sleep on a sync.Cond while the ring is empty.            *)
(*                                                                         *)
(* Every method runs under mu from its first to its last line and is one   *)
(* step; only PopBatch lets go of mu, inside cv.Wait.  Push(nil), which    *)
(* nothing in the program calls, is left out.                              *)
(***************************************************************************)
EXTENDS Integers, Sequences, FiniteSets, SequencesExt, FiniteSetsExt

CONSTANTS
    Recs,       \* captured requests; each is pushed at most once
    Consumers,  \* goroutines that call PopBatch
    NoRec,      \* what a slot holds before its first use
    Size,       \* number of slots
    MaxBytes,   \* maxRingBytes
    SizeOf      \* recordSize of each request

\* NewMemRingBuffer: two slots or more, and a power of two, so that a
\* bitwise "and" with Size - 1 is the remainder by Size.
RingSize(entryCount) ==
    LET wanted == IF entryCount <= 0 THEN 262144
                  ELSE IF entryCount < 2 THEN 2 ELSE entryCount
    IN  Min({2^k : k \in {j \in 1..20 : wanted <= 2^j}})

ASSUME RingAssumption ==
    /\ Size \in Nat /\ Size >= 2
    /\ Consumers # {}
    /\ NoRec \notin Recs
    /\ SizeOf \in [Recs -> Nat \ {0}]
    /\ MaxBytes \in Nat

VARIABLES
    buf, head, tail,    \* the slots, the next one to write, the oldest one
    bytes,              \* the ledger of the sizes of the records in the ring
    dropCount,          \* the counter `dropped`
    stopped,
    con,                \* con[c]: where consumer c is in PopBatch
    pushed,             \* the records handed to Push
    taken,              \* every batch returned so far, one after the other
    gone,               \* the records dropped
    refused             \* the records whose Push returned false

ring == <<buf, head, tail, bytes>>
vars == <<ring, dropCount, stopped, con, pushed, taken, gone, refused>>

Slots == 0..Size-1

Mask(i) == i % Size

\* Fault: mask - tail + head, without the 1.
Used_OffByOne == IF head >= tail THEN head - tail ELSE Size - 1 - tail + head

\* The records in the ring, oldest first.
Used == IF head >= tail THEN head - tail ELSE Size - tail + head
Live == [i \in 1..Used |-> buf[Mask(tail + i - 1)]]

Init ==
    /\ buf = [i \in Slots |-> NoRec]
    /\ head = 0 /\ tail = 0
    /\ bytes = 0
    /\ dropCount = 0
    /\ stopped = FALSE
    /\ con = [c \in Consumers |-> "out"]
    /\ pushed = {}
    /\ taken = <<>>
    /\ gone = {}
    /\ refused = {}

\* Fault: Push does not wake anybody.
Signal_None == UNCHANGED con

Signal ==
    LET parked == {c \in Consumers : con[c] = "parked"}
    IN  IF parked = {} THEN UNCHANGED con
        ELSE \E c \in parked : con' = [con EXCEPT ![c] = "woken"]

Broadcast == con' = [c \in Consumers |-> IF con[c] = "parked" THEN "woken" ELSE con[c]]

-----------------------------------------------------------------------------
PushRefused(r) ==
    /\ stopped
    /\ refused' = refused \cup {r}
    /\ UNCHANGED <<ring, dropCount, stopped, con, taken, gone>>

PushOversized(r) ==
    /\ ~stopped
    /\ SizeOf[r] > MaxBytes
    /\ dropCount' = dropCount + 1
    /\ gone' = gone \cup {r}
    /\ UNCHANGED <<ring, stopped, con, taken, refused>>

\* The bytes left when a record of size n leaves the ring (the clamp).
SlotSize(i) == IF buf[i] = NoRec THEN 0 ELSE SizeOf[buf[i]]
Less(n) == IF n > bytes THEN 0 ELSE bytes - n

Full == Mask(head + 1) = tail

MustEvict(r) == Full \/ bytes + SizeOf[r] > MaxBytes

Write(r) ==
    /\ buf' = [buf EXCEPT ![head] = r]
    /\ head' = Mask(head + 1)
    /\ Signal

PushAppend(r) ==
    /\ ~stopped
    /\ SizeOf[r] <= MaxBytes
    /\ ~MustEvict(r)
    /\ Write(r)
    /\ bytes' = bytes + SizeOf[r]
    /\ UNCHANGED <<tail, dropCount, stopped, taken, gone, refused>>

\* Fault: the evicted record stays in the ledger.
PushEvict_Unbooked(r) ==
    /\ ~stopped
    /\ SizeOf[r] <= MaxBytes
    /\ MustEvict(r)
    /\ Write(r)
    /\ bytes' = bytes + SizeOf[r]
    /\ tail' = Mask(tail + 1)
    /\ dropCount' = dropCount + 1
    /\ gone' = gone \cup {buf[tail]}
    /\ UNCHANGED <<stopped, taken, refused>>

PushEvict(r) ==
    /\ ~stopped
    /\ SizeOf[r] <= MaxBytes
    /\ MustEvict(r)
    /\ Write(r)
    /\ bytes' = Less(SlotSize(tail)) + SizeOf[r]
    /\ tail' = Mask(tail + 1)
    /\ dropCount' = dropCount + 1
    /\ gone' = gone \cup {buf[tail]}
    /\ UNCHANGED <<stopped, taken, refused>>

Push(r) ==
    /\ r \notin pushed
    /\ pushed' = pushed \cup {r}
    /\ PushRefused(r) \/ PushOversized(r) \/ PushAppend(r) \/ PushEvict(r)

-----------------------------------------------------------------------------
(***************************************************************************)
(* PopBatch, entered from outside or back from cv.Wait.                    *)
(***************************************************************************)
\* Fault: the ledger is not reset.
PopBatch_KeepBytes(c) ==
    /\ con[c] # "parked"
    /\ head # tail
    /\ taken' = taken \o Live
    /\ tail' = head
    /\ con' = [con EXCEPT ![c] = "out"]
    /\ UNCHANGED <<buf, head, bytes, dropCount, stopped, pushed, gone, refused>>

PopBatch(c) ==
    /\ con[c] # "parked"
    /\ head # tail
    /\ taken' = taken \o Live
    /\ tail' = head
    /\ bytes' = 0
    /\ con' = [con EXCEPT ![c] = "out"]
    /\ UNCHANGED <<buf, head, dropCount, stopped, pushed, gone, refused>>

PopWait(c) ==
    /\ con[c] # "parked"
    /\ head = tail /\ ~stopped
    /\ con' = [con EXCEPT ![c] = "parked"]
    /\ UNCHANGED <<ring, dropCount, stopped, pushed, taken, gone, refused>>

PopNil(c) ==
    /\ con[c] # "parked"
    /\ head = tail /\ stopped
    /\ con' = [con EXCEPT ![c] = "out"]
    /\ UNCHANGED <<ring, dropCount, stopped, pushed, taken, gone, refused>>

Stop ==
    /\ stopped' = TRUE
    /\ Broadcast
    /\ UNCHANGED <<ring, dropCount, pushed, taken, gone, refused>>

Next ==
    \/ \E r \in Recs : Push(r)
    \/ \E c \in Consumers : PopBatch(c) \/ PopWait(c) \/ PopNil(c)
    \/ Stop

Spec == Init /\ [][Next]_vars

-----------------------------------------------------------------------------
(***************************************************************************)
(* Properties                                                              *)
(***************************************************************************)
TypeOK ==
    /\ buf \in [Slots -> Recs \cup {NoRec}]
    /\ head \in Slots /\ tail \in Slots
    /\ bytes \in Nat
    /\ dropCount \in Nat
    /\ stopped \in BOOLEAN
    /\ con \in [Consumers -> {"out", "parked", "woken"}]
    /\ pushed \subseteq Recs
    /\ taken \in Seq(Recs)
    /\ gone \subseteq Recs
    /\ refused \subseteq Recs

Total(S) == MapThenSumSet(LAMBDA r : SizeOf[r], S)

\* The byte ledger is exactly the size of what is in the ring after any
\* sequence of pushes, evictions and batches, so the clamp against drift in
\* Push never fires and an empty ring is never taken for a full one.
LedgerExact == bytes = Total(Range(Live))

\* Every record pushed is in exactly one place: in the ring, in a batch,
\* dropped or refused, and nothing else is; and the counter `dropped` says how many were dropped.
NothingVanishes ==
    /\ dropCount = Cardinality(gone)
    /\ IsInjective(taken \o Live)
    /\ pushed = Range(taken \o Live) \cup gone \cup refused
    /\ Range(taken \o Live) \cap (gone \cup refused) = {}
    /\ gone \cap refused = {}

\* The ring at every moment: types, the byte ledger and no record lost.
Inv == TypeOK /\ LedgerExact /\ NothingVanishes

\* A wake-up is never lost: while there are records, some consumer is not
\* asleep, and after Stop nobody sleeps.
NoLostWakeup ==
    /\ head # tail => \E c \in Consumers : con[c] # "parked"
    /\ stopped => \A c \in Consumers : con[c] # "parked"

\* The slots and indices implement the drop-oldest queue.
Queue == INSTANCE RingQueue WITH
            Cap <- Size - 1, q <- Live, dropped <- gone

QueueSpec == Queue!Spec
=============================================================================
