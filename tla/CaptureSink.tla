----------------------------- MODULE CaptureSink -----------------------------
(***************************************************************************)
(* What the two buffered writers of PacketLab promise to the code that     *)
(* hands them captured requests.  proxy.BatchWriter (a channel drained by  *)
(* workers) and capture.AsyncWriterPool (a ring buffer drained by workers) *)
(* both implement it: an accepted request is stored at most once, it is    *)
(* announced to the web clients only after its row exists and at most      *)
(* once, and once the writer has been closed nothing accepted before is    *)
(* left half way.                                                          *)
(*                                                                         *)
(* A row is a record [id, req]: the primary key SQLite assigned and the    *)
(* captured request.  Ids only grow.                                       *)
(***************************************************************************)
EXTENDS Naturals

CONSTANT Reqs           \* the captured requests

VARIABLES
    accepted,           \* requests handed to the writer
    rows,               \* rows of the table `requests`
    announced,          \* how often onSave / BroadcastCapture ran for a request
    lost,               \* accepted requests given up (logged or counted only)
    closed              \* Stop has returned

vars == <<accepted, rows, announced, lost, closed>>

Stored  == {row.req : row \in rows}
Pending == accepted \ (Stored \cup lost)

\* Nothing is in flight: every accepted request has been announced or given up.
Settled == Pending = {} /\ \A r \in Stored : announced[r] = 1

Init ==
    /\ accepted = {}
    /\ rows = {}
    /\ announced = [r \in Reqs |-> 0]
    /\ lost = {}
    /\ closed = FALSE

\* A writer with a bounded buffer may give up requests that are still pending,
\* the new one included, to take it.
\* After Close requests are still taken, but one at a time and each one
\* settled before the next (the synchronous path).
Accept(r) ==
    /\ r \notin accepted
    /\ closed => Settled
    /\ accepted' = accepted \cup {r}
    /\ \E D \in SUBSET (Pending \cup {r}) : lost' = lost \cup D
    /\ UNCHANGED <<rows, announced, closed>>

\* One transaction: new rows for pending requests, one row per request, with
\* ids above every id in the table.
Persist ==
    LET fresh == rows' \ rows
    IN  /\ rows \subseteq rows'
        /\ fresh # {}
        /\ \A x \in fresh : x.req \in Pending
        /\ \A x, y \in fresh : x.req = y.req \/ x.id = y.id => x = y
        /\ \A x \in rows, y \in fresh : x.id < y.id
        /\ UNCHANGED <<accepted, announced, lost, closed>>

Announce(r) ==
    /\ r \in Stored
    /\ announced[r] = 0
    /\ announced' = [announced EXCEPT ![r] = 1]
    /\ UNCHANGED <<accepted, rows, lost, closed>>

Discard(r) ==
    /\ r \in Pending
    /\ lost' = lost \cup {r}
    /\ UNCHANGED <<accepted, rows, announced, closed>>

Close ==
    /\ ~closed
    /\ Settled
    /\ closed' = TRUE
    /\ UNCHANGED <<accepted, rows, announced, lost>>

Next ==
    \/ \E r \in Reqs : Accept(r) \/ Announce(r) \/ Discard(r)
    \/ Persist
    \/ Close

Spec == Init /\ [][Next]_vars
=============================================================================
