----------------------------- MODULE BatchWriter -----------------------------
(***************************************************************************)
(* internal/proxy/batch.go: the batch writer behind the proxy.  Handlers   *)
(* of the proxy call Enqueue, two workers collect requests from a bounded  *)
(* channel and write them in batches, Stop drains everything.              *)
(*                                                                         *)
(* enqMu is held by at most one call of Enqueue or Stop.  A call that      *)
(* sends on the channel acquires and releases it within one step; a call   *)
(* that saves synchronously, and Stop, hold it from one step to a later    *)
(* one, which is when EnqMuHeld is true.                                   *)
(*                                                                         *)
(* Saves and announcements are those of RequestTable.                      *)
(***************************************************************************)
EXTENDS RequestTable

CONSTANTS
    Workers,    \* goroutines running loop() (2 in NewBatchWriter)
    Stoppers,   \* calls of Stop
    ChanCap,    \* capacity of ch (16384 in the code)
    BatchSize,  \* requests that trigger a flush (batchSize)
    MaxTries    \* SaveBatch attempts of one flush (3 in the code)

ASSUME BatchAssumption ==
    /\ ChanCap \in Nat \ {0}
    /\ BatchSize \in Nat \ {0}
    /\ MaxTries \in Nat \ {0}
    /\ Workers # {}

VARIABLES
    ch,         \* the channel of captured requests
    stopped,    \* `stopped` and the closing of stopCh, done in one step of Stop
    enq,        \* enq[r]: where the call Enqueue(r) is
    stp,        \* stp[s]: where the call Stop() of s is
    phase,      \* phase[w]: where worker w is in loop() and flush()
    batch,      \* batch[w]: requests of w's batch not dealt with yet
    tries,      \* tries[w]: failed SaveBatch attempts of the flush in progress
    quit        \* quit[w]: w has taken the stopCh branch

procs == <<enq, stp, phase, batch, tries, quit>>
db    == <<rows, lastId, reqId, lost>>
vars  == <<ch, stopped, procs, db, announced>>

EnqMuHeld ==
    \/ \E r \in Reqs : enq[r] \in {"saving", "announcing"}
    \/ \E s \in Stoppers : stp[s] \in {"waiting", "draining"}

TypeOK ==
    /\ ch \in Seq(Reqs) /\ Len(ch) <= ChanCap
    /\ stopped \in BOOLEAN
    /\ enq \in [Reqs -> {"new", "saving", "announcing", "returned"}]
    /\ stp \in [Stoppers -> {"new", "waiting", "draining", "returned"}]
    /\ phase \in [Workers -> {"select", "drain", "flush", "announce",
                              "fallback", "announceSync", "exited"}]
    /\ batch \in [Workers -> Seq(Reqs)]
    /\ tries \in [Workers -> 0..MaxTries-1]
    /\ quit \in [Workers -> BOOLEAN]
    /\ rows \subseteq [id : Nat \ {0}, req : Reqs]
    /\ lastId \in Nat
    /\ reqId \in [Reqs -> Nat]
    /\ announced \in [Reqs -> Nat]
    /\ lost \subseteq Reqs

Init ==
    /\ ch = <<>>
    /\ stopped = FALSE
    /\ enq = [r \in Reqs |-> "new"]
    /\ stp = [s \in Stoppers |-> "new"]
    /\ phase = [w \in Workers |-> "select"]
    /\ batch = [w \in Workers |-> <<>>]
    /\ tries = [w \in Workers |-> 0]
    /\ quit = [w \in Workers |-> FALSE]
    /\ rows = {}
    /\ lastId = 0
    /\ reqId = [r \in Reqs |-> 0]
    /\ announced = [r \in Reqs |-> 0]
    /\ lost = {}

-----------------------------------------------------------------------------
(***************************************************************************)
(* Enqueue(r)                                                              *)
(***************************************************************************)
\* Fault: `stopped` is not checked before the send.
EnqueueSend_Unchecked(r) ==
    /\ enq[r] = "new" /\ ~EnqMuHeld
    /\ Len(ch) < ChanCap
    /\ ch' = Append(ch, r)
    /\ enq' = [enq EXCEPT ![r] = "returned"]
    /\ UNCHANGED <<stopped, stp, phase, batch, tries, quit, db, announced>>

EnqueueSend(r) ==
    /\ enq[r] = "new" /\ ~EnqMuHeld
    /\ ~stopped
    /\ Len(ch) < ChanCap
    /\ ch' = Append(ch, r)
    /\ enq' = [enq EXCEPT ![r] = "returned"]
    /\ UNCHANGED <<stopped, stp, phase, batch, tries, quit, db, announced>>

EnqueueSync(r) ==
    /\ enq[r] = "new" /\ ~EnqMuHeld
    /\ stopped \/ Len(ch) >= ChanCap
    /\ enq' = [enq EXCEPT ![r] = "saving"]
    /\ UNCHANGED <<ch, stopped, stp, phase, batch, tries, quit, db, announced>>

EnqueueSave(r) ==
    /\ enq[r] = "saving"
    /\ \/ SaveOk(r) /\ enq' = [enq EXCEPT ![r] = "announcing"]
       \/ SaveErr(r) /\ enq' = [enq EXCEPT ![r] = "returned"]
    /\ UNCHANGED <<ch, stopped, stp, phase, batch, tries, quit, announced>>

EnqueueAnnounce(r) ==
    /\ enq[r] = "announcing"
    /\ OnSave(r)
    /\ enq' = [enq EXCEPT ![r] = "returned"]
    /\ UNCHANGED <<ch, stopped, stp, phase, batch, tries, quit, db>>

Enqueue(r) ==
    EnqueueSend(r) \/ EnqueueSync(r) \/ EnqueueSave(r) \/ EnqueueAnnounce(r)

(***************************************************************************)
(* Stop()                                                                  *)
(***************************************************************************)
StopFirst(s) ==
    /\ stp[s] = "new" /\ ~EnqMuHeld
    /\ ~stopped
    /\ stopped' = TRUE
    /\ stp' = [stp EXCEPT ![s] = "waiting"]
    /\ UNCHANGED <<ch, enq, phase, batch, tries, quit, db, announced>>

StopAgain(s) ==
    /\ stp[s] = "new" /\ ~EnqMuHeld
    /\ stopped
    /\ stp' = [stp EXCEPT ![s] = "returned"]
    /\ UNCHANGED <<ch, stopped, enq, phase, batch, tries, quit, db, announced>>

\* Fault: Stop drains without waiting for the workers.
StopWaited_NoWait(s) ==
    /\ stp[s] = "waiting"
    /\ stp' = [stp EXCEPT ![s] = "draining"]
    /\ UNCHANGED <<ch, stopped, enq, phase, batch, tries, quit, db, announced>>

StopWaited(s) ==
    /\ stp[s] = "waiting"
    /\ \A w \in Workers : phase[w] = "exited"
    /\ stp' = [stp EXCEPT ![s] = "draining"]
    /\ UNCHANGED <<ch, stopped, enq, phase, batch, tries, quit, db, announced>>

\* The drain loop puts whatever is left in the channel through saveSync; the
\* positions in ok are the ones whose Save succeeds.  (The id of a failed
\* Save is skipped here; SQLite would give it to the next row.)
StopDrain(s) ==
    /\ stp[s] = "draining"
    /\ \E ok \in SUBSET (1..Len(ch)) :
         /\ Insert(ch, ok)
         /\ announced' = [r \in Reqs |-> IF \E i \in ok : ch[i] = r
                                         THEN announced[r] + 1 ELSE announced[r]]
         /\ lost' = lost \cup {ch[i] : i \in (1..Len(ch)) \ ok}
    /\ ch' = <<>>
    /\ stp' = [stp EXCEPT ![s] = "returned"]
    /\ UNCHANGED <<stopped, enq, phase, batch, tries, quit>>

Stop(s) == StopFirst(s) \/ StopAgain(s) \/ StopWaited(s) \/ StopDrain(s)

-----------------------------------------------------------------------------
(***************************************************************************)
(* loop(): the select of worker w, its drain on stopCh, and flush().       *)
(***************************************************************************)
Receive(w) ==
    /\ phase[w] = "select"
    /\ ch # <<>>
    /\ ch' = Tail(ch)
    /\ batch' = [batch EXCEPT ![w] = Append(@, Head(ch))]
    /\ phase' = [phase EXCEPT ![w] = IF Len(batch'[w]) >= BatchSize
                                     THEN "flush" ELSE "select"]
    /\ UNCHANGED <<stopped, enq, stp, tries, quit, db, announced>>

\* Fault: the ticker flushes full batches only.
Tick_FullOnly(w) ==
    /\ phase[w] = "select"
    /\ Len(batch[w]) >= BatchSize
    /\ phase' = [phase EXCEPT ![w] = "flush"]
    /\ UNCHANGED <<ch, stopped, enq, stp, batch, tries, quit, db, announced>>

\* A tick on an empty batch returns from flush() at once.
Tick(w) ==
    /\ phase[w] = "select"
    /\ batch[w] # <<>>
    /\ phase' = [phase EXCEPT ![w] = "flush"]
    /\ UNCHANGED <<ch, stopped, enq, stp, batch, tries, quit, db, announced>>

SeeStop(w) ==
    /\ phase[w] = "select"
    /\ stopped
    /\ phase' = [phase EXCEPT ![w] = "drain"]
    /\ quit' = [quit EXCEPT ![w] = TRUE]
    /\ UNCHANGED <<ch, stopped, enq, stp, batch, tries, db, announced>>

Drain(w) ==
    /\ phase[w] = "drain"
    /\ ch # <<>>
    /\ ch' = Tail(ch)
    /\ batch' = [batch EXCEPT ![w] = Append(@, Head(ch))]
    /\ UNCHANGED <<stopped, enq, stp, phase, tries, quit, db, announced>>

Drained(w) ==
    /\ phase[w] = "drain"
    /\ ch = <<>>
    /\ phase' = [phase EXCEPT ![w] = IF batch[w] = <<>> THEN "exited" ELSE "flush"]
    /\ UNCHANGED <<ch, stopped, enq, stp, batch, tries, quit, db, announced>>

\* Where w goes when the request at the head of its batch is dealt with:
\* on with the rest of the batch, or out of flush().
AfterHead(w, more) ==
    IF Tail(batch[w]) # <<>> THEN more
    ELSE IF quit[w] THEN "exited" ELSE "select"

SaveBatchOk(w) ==
    /\ phase[w] = "flush"
    /\ Insert(batch[w], 1..Len(batch[w]))
    /\ tries' = [tries EXCEPT ![w] = 0]
    /\ phase' = [phase EXCEPT ![w] = "announce"]
    /\ UNCHANGED <<ch, stopped, enq, stp, batch, quit, lost, announced>>

SaveBatchErr(w) ==
    /\ phase[w] = "flush"
    /\ IF tries[w] + 1 < MaxTries
       THEN /\ tries' = [tries EXCEPT ![w] = @ + 1]
            /\ UNCHANGED phase
       ELSE /\ tries' = [tries EXCEPT ![w] = 0]
            /\ phase' = [phase EXCEPT ![w] = "fallback"]
    /\ UNCHANGED <<ch, stopped, enq, stp, batch, quit, db, announced>>

FallbackSave(w) ==
    /\ phase[w] = "fallback"
    /\ \/ /\ SaveOk(Head(batch[w]))
          /\ phase' = [phase EXCEPT ![w] = "announceSync"]
          /\ UNCHANGED batch
       \/ /\ SaveErr(Head(batch[w]))
          /\ phase' = [phase EXCEPT ![w] = AfterHead(w, "fallback")]
          /\ batch' = [batch EXCEPT ![w] = Tail(@)]
    /\ UNCHANGED <<ch, stopped, enq, stp, tries, quit, announced>>

AnnounceHead(w, here, more) ==
    /\ phase[w] = here
    /\ OnSave(Head(batch[w]))
    /\ phase' = [phase EXCEPT ![w] = AfterHead(w, more)]
    /\ batch' = [batch EXCEPT ![w] = Tail(@)]
    /\ UNCHANGED <<ch, stopped, enq, stp, tries, quit, db>>

Announce(w)     == AnnounceHead(w, "announce", "announce")
AnnounceSync(w) == AnnounceHead(w, "announceSync", "fallback")

Worker(w) ==
    \/ Receive(w) \/ Tick(w) \/ SeeStop(w) \/ Drain(w) \/ Drained(w)
    \/ SaveBatchOk(w) \/ SaveBatchErr(w) \/ FallbackSave(w)
    \/ Announce(w) \/ AnnounceSync(w)

\* The writer has been stopped and no call is left to make.
Terminated ==
    /\ \A r \in Reqs : enq[r] = "returned"
    /\ \A s \in Stoppers : stp[s] = "returned"
    /\ UNCHANGED vars

Next ==
    \/ \E r \in Reqs : Enqueue(r)
    \/ \E s \in Stoppers : Stop(s)
    \/ \E w \in Workers : Worker(w)
    \/ Terminated

Spec == Init /\ [][Next]_vars

(***************************************************************************)
(* Fairness.  The Go scheduler runs every goroutine that can run, and a    *)
(* database call returns.  Whether Enqueue or Stop is ever called is up to *)
(* the environment: only calls that have begun must go on.                 *)
(***************************************************************************)
CallInProgress ==
    \/ \E r \in Reqs : EnqueueSave(r) \/ EnqueueAnnounce(r)
    \/ \E s \in Stoppers : StopWaited(s) \/ StopDrain(s)

FairSpec ==
    /\ Spec
    /\ WF_vars(CallInProgress)
    /\ \A w \in Workers : WF_vars(Worker(w))

-----------------------------------------------------------------------------
(***************************************************************************)
(* Properties                                                              *)
(***************************************************************************)
\* When any call of Stop has returned, no request is left in the channel or
\* in a worker's batch, and none of the requests whose Enqueue has returned
\* is still waiting for a row or for its announcement.
StopLeavesNothing ==
    (\E s \in Stoppers : stp[s] = "returned") =>
        /\ ch = <<>>
        /\ \A w \in Workers : phase[w] = "exited" /\ batch[w] = <<>>
        /\ \A r \in Reqs : enq[r] = "returned" =>
              r \in lost \/ (r \in Stored /\ announced[r] = 1)

\* The writer at every moment: types, announcements with the row's id, and a
\* Stop that leaves nothing behind.
Inv == TypeOK /\ AnnouncedIsPersisted /\ StopLeavesNothing

\* The drain loop at the end of Stop has nothing to do: enqMu keeps senders
\* out and the last worker to leave has emptied the channel (the comment on
\* Enqueue: a send never lands in a channel nobody reads).
DrainFindsNothing ==
    \A s \in Stoppers : stp[s] = "draining" => ch = <<>>

\* Every request whose Enqueue went through is announced, or its last save
\* failed: none waits in a batch for company that never comes.
EveryRequestSettles ==
    \A r \in Reqs : enq[r] # "new" ~> (announced[r] = 1 \/ r \in lost)

\* The writer implements the abstract sink.
Sink == INSTANCE CaptureSink WITH
            accepted <- {r \in Reqs : enq[r] # "new"},
            closed <- (\E s \in Stoppers : stp[s] = "returned")

SinkSpec == Sink!Spec
=============================================================================
