---------------------------- MODULE CaptureEngine ----------------------------
(***************************************************************************)
(* internal/capture: the life of an Engine, from Start to Stop.  Start     *)
(* opens the network interface and makes a packetLoop, which hands packets *)
(* to the workers; a worker keeps what it has not recorded yet in streams  *)
(* (Assembler) and pushes records into a ring; the writer pool empties the *)
(* ring into the database (AsyncWriterPool).  Stop closes the interface,   *)
(* waits for packetLoop, which waits for the workers, and stops the pool.  *)
(*                                                                         *)
(* The four workers are one here, and so is what they have under way: a    *)
(* packet that meets another one is dropped by packetLoop or replaces it,  *)
(* and neither matters to the order in which the parts of an engine end.   *)
(* flushLoop and emitBuf do nothing once the ring exists.                  *)
(***************************************************************************)
EXTENDS Naturals

CONSTANT Engines

VARIABLES
    running,    \* running[e]: Engine.running, and that Engine.handle is open:
                \* both change together under Engine.mu
    loop,       \* packetLoop: "none", "spawned", "reading", "closing", "done"
    worker,     \* the workers: "none", "running", "left"
    pool,       \* the writer: "none", "running", "stopped"
    cargo       \* where the latest packet of e is: "none", "channel" of a
                \* worker, "stream", "ring", or "refused" by a stopped ring

engineVars == <<running, loop, worker, pool, cargo>>

EngineTypeOK ==
    /\ running \in [Engines -> BOOLEAN]
    /\ loop \in [Engines -> {"none", "spawned", "reading", "closing", "done"}]
    /\ worker \in [Engines -> {"none", "running", "left"}]
    /\ pool \in [Engines -> {"none", "running", "stopped"}]
    /\ cargo \in [Engines -> {"none", "channel", "stream", "ring", "refused"}]

\* The engines in E have been started, the others not.
EngineInit(E) ==
    /\ running = [e \in Engines |-> e \in E]
    /\ loop = [e \in Engines |-> IF e \in E THEN "spawned" ELSE "none"]
    /\ worker = [e \in Engines |-> IF e \in E THEN "running" ELSE "none"]
    /\ pool = [e \in Engines |-> IF e \in E THEN "running" ELSE "none"]
    /\ cargo = [e \in Engines |-> "none"]

-----------------------------------------------------------------------------
(***************************************************************************)
(* Start and Stop, in the goroutine of the caller                          *)
(***************************************************************************)
\* All of Start is one step: it holds Engine.mu, and nobody else knows of the
\* engine yet.
StartEngine(e) ==
    /\ ~running[e]
    /\ running' = [running EXCEPT ![e] = TRUE]
    /\ loop' = [loop EXCEPT ![e] = "spawned"]
    /\ worker' = [worker EXCEPT ![e] = "running"]
    /\ pool' = [pool EXCEPT ![e] = "running"]
    /\ UNCHANGED cargo

\* The interface cannot be opened, promiscuous or not, or the filter cannot be
\* set: what was opened is closed again.  (The Stop that follows finds an
\* engine that does not run.)
StartFails(e) ==
    /\ ~running[e]
    /\ UNCHANGED engineVars

\* The first half of Stop.  A call that finds the engine not running returns,
\* although another one may not have finished.
StopCall(e) ==
    /\ running' = [running EXCEPT ![e] = FALSE]
    /\ UNCHANGED <<loop, worker, pool, cargo>>

\* Fault: Stop does not wait for packetLoop.
StopDone_NoWait(e) ==
    /\ pool' = [pool EXCEPT ![e] = "stopped"]
    /\ cargo' = [cargo EXCEPT ![e] = IF @ = "ring" THEN "none" ELSE @]
    /\ UNCHANGED <<running, loop, worker>>

\* The second half: packetLoop is done, and the writer pool is stopped, which
\* empties the ring (AsyncWriterPool!StopLeavesNothing).
StopDone(e) ==
    /\ loop[e] = "done"
    /\ pool' = [pool EXCEPT ![e] = "stopped"]
    /\ cargo' = [cargo EXCEPT ![e] = IF @ = "ring" THEN "none" ELSE @]
    /\ UNCHANGED <<running, loop, worker>>

(***************************************************************************)
(* packetLoop                                                              *)
(***************************************************************************)
\* It makes a packet source of Engine.handle, without Engine.mu.  When Stop
\* has been faster the handle is nil, and the program panics.
LoopPanics(e) == loop[e] = "spawned" /\ ~running[e]

LoopStart(e) ==
    /\ loop[e] = "spawned" /\ running[e]
    /\ loop' = [loop EXCEPT ![e] = "reading"]
    /\ UNCHANGED <<running, worker, pool, cargo>>

\* A packet.  The one that was read before Stop may still be handed on.
Receive(e) ==
    /\ loop[e] = "reading"
    /\ cargo[e] = "none"
    /\ cargo' = [cargo EXCEPT ![e] = "channel"]
    /\ UNCHANGED <<running, loop, worker, pool>>

\* The handle is closed, or the engine seen not running: the deferred function
\* closes the workers' channels ...
LoopLeave(e) ==
    /\ loop[e] = "reading" /\ ~running[e]
    /\ loop' = [loop EXCEPT ![e] = "closing"]
    /\ UNCHANGED <<running, worker, pool, cargo>>

\* ... waits for the workers and closes packetLoopDone.
LoopDone(e) ==
    /\ loop[e] = "closing" /\ worker[e] = "left"
    /\ loop' = [loop EXCEPT ![e] = "done"]
    /\ UNCHANGED <<running, worker, pool, cargo>>

(***************************************************************************)
(* workerLoop, and the writer pool                                         *)
(***************************************************************************)
\* emitNonBlocking
Pushed(e) == IF pool[e] = "running" THEN "ring" ELSE "refused"

\* A packet joins a stream, completes a record, or is of no interest ...
Work(e) ==
    /\ worker[e] = "running" /\ cargo[e] = "channel"
    /\ \E to \in {"none", "stream", Pushed(e)} : cargo' = [cargo EXCEPT ![e] = to]
    /\ UNCHANGED <<running, loop, worker, pool>>

\* ... and a stream is recorded when another packet or the ticker ends it.
StreamEnds(e) ==
    /\ worker[e] = "running" /\ cargo[e] = "stream"
    /\ cargo' = [cargo EXCEPT ![e] = Pushed(e)]
    /\ UNCHANGED <<running, loop, worker, pool>>

\* The channel is closed and empty: FlushAllWithPending records the streams.
WorkerLeave(e) ==
    /\ worker[e] = "running" /\ loop[e] = "closing" /\ cargo[e] # "channel"
    /\ worker' = [worker EXCEPT ![e] = "left"]
    /\ cargo' = [cargo EXCEPT ![e] = IF @ = "stream" THEN Pushed(e) ELSE @]
    /\ UNCHANGED <<running, loop, pool>>

\* The pool saves what is in the ring, or gives it up.
Saved(e) ==
    /\ pool[e] = "running" /\ cargo[e] = "ring"
    /\ cargo' = [cargo EXCEPT ![e] = "none"]
    /\ UNCHANGED <<running, loop, worker, pool>>

Goroutines(e) ==
    \/ LoopStart(e) \/ Receive(e) \/ LoopLeave(e) \/ LoopDone(e)
    \/ Work(e) \/ StreamEnds(e) \/ WorkerLeave(e) \/ Saved(e)

-----------------------------------------------------------------------------
(***************************************************************************)
(* Properties                                                              *)
(***************************************************************************)
\* The comments on packetLoopDone and in Stop: the workers are through before
\* the pool is stopped, so a Stop that has returned leaves no goroutine that
\* works on the engine and nothing that was captured unsaved, and no record
\* comes to a ring that is closed.
StopIsClean ==
    \A e \in Engines :
        /\ cargo[e] # "refused"
        /\ pool[e] = "stopped" => loop[e] = "done" /\ worker[e] = "left" /\ cargo[e] = "none"
=============================================================================
