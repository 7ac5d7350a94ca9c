--------------------------- MODULE AsyncWriterPool ---------------------------
(***************************************************************************)
(* internal/capture/memring.go, AsyncWriterPool: the workers that move     *)
(* captured requests from the ring buffer of the packet engine into the    *)
(* database.  The ring is the drop-oldest queue RingQueue, which MemRing   *)
(* implements slot by slot.                                                *)
(*                                                                         *)
(* flushAll takes everything out of the ring and saves it chunk by chunk.  *)
(* It runs in the workers, on a tick, and at the end of Stop, in the       *)
(* goroutine that stops the engine; both kinds of caller are Flushers.     *)
(***************************************************************************)
EXTENDS RequestTable, FiniteSets, SequencesExt

CONSTANTS
    Workers,    \* goroutines running loop()
    Stopper,    \* the goroutine that calls Stop, once
    Cap,        \* records the ring can hold
    ChunkSize,  \* requests saved by one SaveBatch (500 in the code)
    MaxTries    \* SaveBatch attempts of one chunk (len(flushBackoffs))

Flushers == Workers \cup {Stopper}

ASSUME PoolAssumption ==
    /\ Cap \in Nat \ {0}
    /\ ChunkSize \in Nat \ {0}
    /\ MaxTries \in Nat \ {0}
    /\ Workers # {} /\ Stopper \notin Workers

VARIABLES
    pushed, q, dropped, refused, taken, stopped, con,   \* the ring
    stopCh,     \* stopCh is closed
    phase,      \* phase[f]: where f is in loop(), Stop() or flushAll()
    batch,      \* batch[f]: what f has taken and not dealt with, chunk first
    pos,        \* pos[f]: requests of the chunk already saved or announced
    tries       \* tries[f]: failed SaveBatch attempts of the chunk

Ring == INSTANCE RingQueue WITH Recs <- Reqs, Consumers <- Flushers

ringVars == <<pushed, q, dropped, refused, taken, stopped, con>>
local    == <<batch, pos, tries>>
db       == <<rows, lastId, reqId, lost>>
vars     == <<ringVars, stopCh, phase, local, db, announced>>

Min2(a, b) == IF a < b THEN a ELSE b

Init ==
    /\ Ring!Init
    /\ stopCh = FALSE
    /\ phase = [f \in Flushers |-> IF f = Stopper THEN "new" ELSE "select"]
    /\ batch = [f \in Flushers |-> <<>>]
    /\ pos = [f \in Flushers |-> 0]
    /\ tries = [f \in Flushers |-> 0]
    /\ rows = {}
    /\ lastId = 0
    /\ reqId = [r \in Reqs |-> 0]
    /\ announced = [r \in Reqs |-> 0]
    /\ lost = {}

-----------------------------------------------------------------------------
\* Engine.emitNonBlocking: a Push whose result nobody looks at.
Emit(r) ==
    /\ Ring!Push(r)
    /\ UNCHANGED <<stopCh, phase, local, db, announced>>

\* Fault: a tick is used only when the ring is full.
Tick_WhenFull(w) ==
    /\ phase[w] = "select"
    /\ Len(q) = Cap
    /\ phase' = [phase EXCEPT ![w] = "pop"]
    /\ UNCHANGED <<ringVars, stopCh, local, db, announced>>

Tick(w) ==
    /\ phase[w] = "select"
    /\ phase' = [phase EXCEPT ![w] = "pop"]
    /\ UNCHANGED <<ringVars, stopCh, local, db, announced>>

SeeStop(w) ==
    /\ phase[w] = "select"
    /\ stopCh
    /\ phase' = [phase EXCEPT ![w] = "exited"]
    /\ UNCHANGED <<ringVars, stopCh, local, db, announced>>

(***************************************************************************)
(* Stop()                                                                  *)
(***************************************************************************)
StopClose ==
    /\ phase[Stopper] = "new"
    /\ stopCh' = TRUE
    /\ phase' = [phase EXCEPT ![Stopper] = "closed"]
    /\ UNCHANGED <<ringVars, local, db, announced>>

StopRing ==
    /\ phase[Stopper] = "closed"
    /\ Ring!Stop
    /\ phase' = [phase EXCEPT ![Stopper] = "waiting"]
    /\ UNCHANGED <<stopCh, local, db, announced>>

\* Fault: Stop does not wait for the workers.
StopWaited_NoWait ==
    /\ phase[Stopper] = "waiting"
    /\ phase' = [phase EXCEPT ![Stopper] = "pop"]
    /\ UNCHANGED <<ringVars, stopCh, local, db, announced>>

StopWaited ==
    /\ phase[Stopper] = "waiting"
    /\ \A w \in Workers : phase[w] = "exited"
    /\ phase' = [phase EXCEPT ![Stopper] = "pop"]
    /\ UNCHANGED <<ringVars, stopCh, local, db, announced>>

Stop == StopClose \/ StopRing \/ StopWaited

(***************************************************************************)
(* flushAll()                                                              *)
(***************************************************************************)
Pop(f) ==
    /\ phase[f] = "pop"
    /\ Ring!Take(f)
    /\ batch' = [batch EXCEPT ![f] = q]
    /\ phase' = [phase EXCEPT ![f] = "flush"]
    /\ UNCHANGED <<stopCh, pos, tries, db, announced>>

PopWait(f) ==
    /\ phase[f] = "pop"
    /\ Ring!Park(f)
    /\ UNCHANGED <<stopCh, phase, local, db, announced>>

PopNil(f) ==
    /\ phase[f] = "pop"
    /\ Ring!Leave(f)
    /\ phase' = [phase EXCEPT ![f] = "done"]
    /\ UNCHANGED <<stopCh, local, db, announced>>

Chunk(f) == SubSeq(batch[f], 1, Min2(ChunkSize, Len(batch[f])))

SaveBatchOk(f) ==
    /\ phase[f] = "flush"
    /\ Insert(Chunk(f), DOMAIN Chunk(f))
    /\ tries' = [tries EXCEPT ![f] = 0]
    /\ phase' = [phase EXCEPT ![f] = "announce"]
    /\ UNCHANGED <<ringVars, stopCh, batch, pos, lost, announced>>

SaveBatchErr(f) ==
    /\ phase[f] = "flush"
    /\ IF tries[f] + 1 < MaxTries
       THEN /\ tries' = [tries EXCEPT ![f] = @ + 1]
            /\ phase' = [phase EXCEPT ![f] = "backoff"]
       ELSE /\ tries' = [tries EXCEPT ![f] = 0]
            /\ phase' = [phase EXCEPT ![f] = "fallback"]
    /\ UNCHANGED <<ringVars, stopCh, batch, pos, db, announced>>

BackoffOver(f) ==
    /\ phase[f] = "backoff"
    /\ phase' = [phase EXCEPT ![f] = "flush"]
    /\ UNCHANGED <<ringVars, stopCh, local, db, announced>>

\* Fault: a stop during the back-off gives the batch up (as the plan for this
\* code had it).
BackoffStopped_Return(f) ==
    /\ phase[f] = "backoff"
    /\ stopCh
    /\ tries' = [tries EXCEPT ![f] = 0]
    /\ batch' = [batch EXCEPT ![f] = <<>>]
    /\ phase' = [phase EXCEPT ![f] = "done"]
    /\ UNCHANGED <<ringVars, stopCh, pos, db, announced>>

BackoffStopped(f) ==
    /\ phase[f] = "backoff"
    /\ stopCh
    /\ tries' = [tries EXCEPT ![f] = 0]
    /\ phase' = [phase EXCEPT ![f] = "fallback"]
    /\ UNCHANGED <<ringVars, stopCh, batch, pos, db, announced>>

\* Go on to the next request of the chunk, or past its end.
NextInChunk(f, then) ==
    IF pos[f] + 1 < Len(Chunk(f))
    THEN pos' = [pos EXCEPT ![f] = @ + 1] /\ UNCHANGED <<phase, batch>>
    ELSE pos' = [pos EXCEPT ![f] = 0] /\ then

FallbackSave(f) ==
    /\ phase[f] = "fallback"
    /\ LET r == batch[f][pos[f] + 1] IN SaveOk(r) \/ SaveErr(r)
    /\ NextInChunk(f, phase' = [phase EXCEPT ![f] = "announce"] /\ UNCHANGED batch)
    /\ UNCHANGED <<ringVars, stopCh, tries, announced>>

Announce(f) ==
    /\ phase[f] = "announce"
    /\ LET r == batch[f][pos[f] + 1] IN
         IF reqId[r] > 0 THEN OnSave(r) ELSE UNCHANGED announced
    /\ NextInChunk(f,
         LET rest == SubSeq(batch[f], Len(Chunk(f)) + 1, Len(batch[f]))
         IN  /\ batch' = [batch EXCEPT ![f] = rest]
             /\ phase' = [phase EXCEPT ![f] = IF rest = <<>> THEN "done" ELSE "flush"])
    /\ UNCHANGED <<ringVars, stopCh, tries, db>>

\* Where the caller of flushAll goes on.
Return(f) ==
    /\ phase[f] = "done"
    /\ phase' = [phase EXCEPT ![f] = IF f = Stopper THEN "returned" ELSE "select"]
    /\ UNCHANGED <<ringVars, stopCh, local, db, announced>>

FlushAll(f) ==
    \/ Pop(f) \/ PopWait(f) \/ PopNil(f)
    \/ SaveBatchOk(f) \/ SaveBatchErr(f) \/ BackoffOver(f) \/ BackoffStopped(f)
    \/ FallbackSave(f) \/ Announce(f) \/ Return(f)

\* Stop has returned and every request has been pushed.
Terminated ==
    /\ phase[Stopper] = "returned"
    /\ pushed = Reqs
    /\ UNCHANGED vars

Next ==
    \/ \E r \in Reqs : Emit(r)
    \/ \E w \in Workers : Tick(w) \/ SeeStop(w)
    \/ Stop
    \/ \E f \in Flushers : FlushAll(f)
    \/ Terminated

Spec == Init /\ [][Next]_vars

(***************************************************************************)
(* Fairness: goroutines that can run do, tickers tick, and database calls  *)
(* return.  A select picks at random among the branches that are ready, so *)
(* a closed stopCh is seen sooner or later: strong fairness of SeeStop.    *)
(* Whether Emit or Stop is ever called is left open.                       *)
(***************************************************************************)
FairSpec ==
    /\ Spec
    /\ WF_vars(StopRing) /\ WF_vars(StopWaited)
    /\ \A f \in Flushers : WF_vars(FlushAll(f))
    /\ \A w \in Workers : WF_vars(Tick(w)) /\ SF_vars(SeeStop(w))

-----------------------------------------------------------------------------
(***************************************************************************)
(* Properties                                                              *)
(***************************************************************************)
TypeOK ==
    /\ Ring!TypeOK
    /\ stopCh \in BOOLEAN
    /\ phase \in [Flushers -> {"new", "closed", "waiting", "returned", "select",
                               "exited", "pop", "flush", "backoff", "fallback",
                               "announce", "done"}]
    /\ batch \in [Flushers -> Seq(Reqs)]
    /\ \A f \in Flushers : pos[f] \in 0..ChunkSize-1 /\ tries[f] \in 0..MaxTries-1
    /\ rows \subseteq [id : Nat \ {0}, req : Reqs]
    /\ lastId \in Nat
    /\ reqId \in [Reqs -> Nat]
    /\ announced \in [Reqs -> Nat]
    /\ lost \subseteq Reqs

Accepted == pushed \ refused
GivenUp  == lost \cup dropped

\* When Stop has returned the ring and every batch are empty, and each
\* request the ring took is announced, or was dropped or failed to save.
StopLeavesNothing ==
    phase[Stopper] = "returned" =>
        /\ q = <<>>
        /\ \A f \in Flushers : batch[f] = <<>>
        /\ \A r \in Accepted : r \in GivenUp \/ (r \in Stored /\ announced[r] = 1)

\* A request is given up only for a full ring or a failed save: none is both
\* dropped and stored, and the rest of what was accepted is still on its way.
NothingVanishes ==
    /\ GivenUp \cap Stored = {}
    /\ Accepted = GivenUp \cup Stored \cup Range(q) \cup
                  UNION {Range(batch[f]) : f \in Flushers}

\* The pool at every moment: types, no record lost or stored after all, and a
\* Stop that leaves nothing behind.
Inv == TypeOK /\ NothingVanishes /\ StopLeavesNothing

\* Every captured request is announced or given up: a record is not left
\* behind in the ring by workers that are all asleep.
EveryRequestSettles ==
    \A r \in Reqs : r \in pushed ~> (announced[r] = 1 \/ r \in GivenUp \cup refused)

\* The pool implements the abstract sink.
Sink == INSTANCE CaptureSink WITH
            accepted <- Accepted, lost <- GivenUp,
            closed <- phase[Stopper] = "returned"

SinkSpec == Sink!Spec
=============================================================================
