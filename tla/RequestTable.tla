---------------------------- MODULE RequestTable ----------------------------
(***************************************************************************)
(* The table `requests` of internal/store as its two buffered writers see  *)
(* it, with what they do around a save: the id given back in req.ID, the   *)
(* announcement to the web clients, and the log line when a save fails.    *)
(*                                                                         *)
(* A call of Store.Save or Store.SaveBatch is one step: both run under     *)
(* Store.mu in one transaction.  It succeeds or fails, as SQLite pleases.  *)
(***************************************************************************)
EXTENDS Naturals, Sequences

CONSTANT Reqs   \* captured requests

VARIABLES
    rows,       \* table `requests`: records [id, req]
    lastId,     \* the highest id given out
    reqId,      \* reqId[r]: the field req.ID (0: not set)
    announced,  \* announced[r]: calls of onSave / BroadcastCapture for r
    lost        \* requests whose last save failed

\* Save or SaveBatch for the sequence q: the requests at the positions in ok
\* get a row each, with ids in the order of q.
Insert(q, ok) ==
    /\ rows' = rows \cup {[id |-> lastId + i, req |-> q[i]] : i \in ok}
    /\ lastId' = lastId + Len(q)
    /\ reqId' = [r \in Reqs |->
                   IF \E i \in ok : q[i] = r
                   THEN lastId + (CHOOSE i \in ok : q[i] = r)
                   ELSE reqId[r]]

SaveOk(r) == Insert(<<r>>, {1}) /\ UNCHANGED lost

SaveErr(r) ==
    /\ lost' = lost \cup {r}
    /\ UNCHANGED <<rows, lastId, reqId>>

OnSave(r) == announced' = [announced EXCEPT ![r] = @ + 1]

Stored == {row.req : row \in rows}

\* No retry, no fallback and no drain inserts the same captured request
\* twice (flush and saveSync in batch.go, flushAll in memring.go).
SavedAtMostOnce ==
    \A x, y \in rows : x.req = y.req \/ x.id = y.id => x = y

\* A request is announced at most once, only after a row for it exists, with
\* the id of that row in req.ID; one whose save failed is never announced.
AnnouncedIsPersisted ==
    \A r \in Reqs : announced[r] > 0 =>
        /\ announced[r] = 1
        /\ [id |-> reqId[r], req |-> r] \in rows
        /\ r \notin lost
=============================================================================
