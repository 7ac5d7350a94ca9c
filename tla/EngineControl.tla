---------------------------- MODULE EngineControl ----------------------------
(***************************************************************************)
(* Who owns the capture engine: internal/api/server.go (handleCaptureStart *)
(* and handleCaptureStop) and the shutdown of cmd/proxy/main.go.           *)
(*                                                                         *)
(* Every start makes an engine of its own.  The API server keeps a pointer *)
(* to the current one under mu; main keeps a pointer to the one it started *)
(* itself.  A start holds captureMu all the way; a stop does not take it.  *)
(* The engines themselves are those of CaptureEngine.                      *)
(***************************************************************************)
EXTENDS CaptureEngine, FiniteSets

CONSTANTS
    Starters,   \* requests for /api/capture/start
    Stoppers,   \* requests for /api/capture/stop
    Boot,       \* the engine main makes at startup
    None

Handlers == Starters \cup Stoppers

\* The engine a start makes is named after its request.
ASSUME ControlAssumption ==
    /\ Engines = Starters \cup {Boot}
    /\ Starters \cap Stoppers = {}
    /\ Boot \notin Handlers
    /\ None \notin Engines

VARIABLES
    current,    \* Server.captureEngine
    captureMu,  \* the request that holds it, or None
    pc,         \* pc[h]: where the handler of request h is
    mine,       \* mine[h]: the engine it has read from Server.captureEngine
    main,       \* "serving", "draining", "capture", "waiting", "exited",
                \* or "panicked"
    capEngine   \* main's own pointer

control == <<current, captureMu, pc, mine, main, capEngine>>
vars    == <<engineVars, control>>

Running == {e \in Engines : running[e]}

\* The program is there.
Alive == main \notin {"exited", "panicked"}

TypeOK ==
    /\ EngineTypeOK
    /\ current \in Engines \cup {None}
    /\ captureMu \in Starters \cup {None}
    /\ \A h \in Starters : pc[h] \in {"start", "stopOld", "wait", "set"} => captureMu = h
    /\ pc \in [Handlers -> {"new", "lock", "start", "stopOld", "wait", "set", "unset", "done"}]
    /\ mine \in [Handlers -> Engines \cup {None}]
    /\ main \in {"serving", "draining", "capture", "waiting", "exited", "panicked"}
    /\ capEngine \in {Boot, None}

\* At startup main may start an engine (--capture), or fail, or not try.
Init ==
    /\ capEngine \in {Boot, None}
    /\ current = capEngine
    /\ EngineInit({capEngine} \ {None})
    /\ captureMu = None
    /\ pc = [h \in Handlers |-> "new"]
    /\ mine = [h \in Handlers |-> None]
    /\ main = "serving"

Goto(h, where) == pc' = [pc EXCEPT ![h] = where]

(***************************************************************************)
(* handleCaptureStart                                                      *)
(***************************************************************************)
Request(h) ==
    /\ pc[h] = "new" /\ main = "serving"
    /\ Goto(h, "lock")
    /\ UNCHANGED <<engineVars, current, captureMu, mine, main, capEngine>>

Lock(h) ==
    /\ h \in Starters /\ pc[h] = "lock"
    /\ captureMu = None
    /\ captureMu' = h
    /\ mine' = [mine EXCEPT ![h] = current]
    /\ Goto(h, "start")
    /\ UNCHANGED <<engineVars, current, main, capEngine>>

Unlock(h) == captureMu' = IF captureMu = h THEN None ELSE captureMu

\* Fault: the old engine is told to stop before the new one has started.
Start_StopOldFirst(h) ==
    /\ pc[h] = "start"
    /\ IF mine[h] # None /\ running[mine[h]]
       THEN StopCall(mine[h]) /\ UNCHANGED <<captureMu, pc>>
       ELSE \/ StartEngine(h) /\ Goto(h, "set") /\ UNCHANGED captureMu
            \/ StartFails(h) /\ Goto(h, "done") /\ Unlock(h)
    /\ UNCHANGED <<current, mine, main, capEngine>>

\* Fault: a start that fails returns without releasing captureMu.
Start_KeepLock(h) ==
    /\ pc[h] = "start"
    /\ \/ StartEngine(h) /\ Goto(h, IF mine[h] = None THEN "set" ELSE "stopOld")
       \/ StartFails(h) /\ Goto(h, "done")
    /\ UNCHANGED <<current, captureMu, mine, main, capEngine>>

\* The new engine starts, or fails and is cleaned up.
Start(h) ==
    /\ pc[h] = "start"
    /\ \/ /\ StartEngine(h)
          /\ Goto(h, IF mine[h] = None THEN "set" ELSE "stopOld")
          /\ UNCHANGED captureMu
       \/ StartFails(h) /\ Goto(h, "done") /\ Unlock(h)
    /\ UNCHANGED <<current, mine, main, capEngine>>

\* Both handlers stop the engine they have read ...
StopOld(h) ==
    /\ pc[h] = "stopOld"
    /\ StopCall(mine[h])
    /\ Goto(h, IF running[mine[h]] THEN "wait"
               ELSE IF h \in Starters THEN "set" ELSE "unset")
    /\ UNCHANGED <<current, captureMu, mine, main, capEngine>>

\* ... and wait for it ...
StopOldDone(h) ==
    /\ pc[h] = "wait"
    /\ StopDone(mine[h])
    /\ Goto(h, IF h \in Starters THEN "set" ELSE "unset")
    /\ UNCHANGED <<current, captureMu, mine, main, capEngine>>

\* ... before a start publishes its own.
SetNew(h) ==
    /\ pc[h] = "set"
    /\ current' = h
    /\ Unlock(h)
    /\ Goto(h, "done")
    /\ UNCHANGED <<engineVars, mine, main, capEngine>>

(***************************************************************************)
(* handleCaptureStop                                                       *)
(***************************************************************************)
Read(h) ==
    /\ h \in Stoppers /\ pc[h] = "lock"
    /\ mine' = [mine EXCEPT ![h] = current]
    /\ Goto(h, IF current = None THEN "done" ELSE "stopOld")
    /\ UNCHANGED <<engineVars, current, captureMu, main, capEngine>>

SetNil(h) ==
    /\ pc[h] = "unset"
    /\ current' = None
    /\ Goto(h, "done")
    /\ UNCHANGED <<engineVars, captureMu, mine, main, capEngine>>

(***************************************************************************)
(* The end of main                                                         *)
(***************************************************************************)
Signal ==
    /\ main = "serving"
    /\ main' = "draining"
    /\ UNCHANGED <<engineVars, current, captureMu, pc, mine, capEngine>>

\* Shutdown of the API's HTTP server: the handlers have returned, or thirty
\* seconds have passed.
Drained ==
    /\ main = "draining"
    /\ main' = "capture"
    /\ UNCHANGED <<engineVars, current, captureMu, pc, mine, capEngine>>

StopCapture ==
    /\ main = "capture"
    /\ IF capEngine = None
       THEN main' = "exited" /\ UNCHANGED engineVars
       ELSE /\ StopCall(capEngine)
            /\ main' = IF running[capEngine] THEN "waiting" ELSE "exited"
    /\ UNCHANGED <<current, captureMu, pc, mine, capEngine>>

StopCaptureDone ==
    /\ main = "waiting"
    /\ StopDone(capEngine)
    /\ main' = "exited"
    /\ UNCHANGED <<current, captureMu, pc, mine, capEngine>>

\* A packetLoop that finds no handle takes the whole program with it.
Panic ==
    /\ \E e \in Engines : LoopPanics(e)
    /\ main' = "panicked"
    /\ UNCHANGED <<engineVars, current, captureMu, pc, mine, capEngine>>

\* Handlers, engines and main run until the program ends.
Handler(h) ==
    /\ Alive
    /\ \/ Lock(h) \/ Start(h) \/ Read(h)
       \/ StopOld(h) \/ StopOldDone(h) \/ SetNew(h) \/ SetNil(h)

Within(step) == Alive /\ step /\ UNCHANGED control

Engine(e) == Within(Goroutines(e))

Next ==
    \/ \E h \in Handlers : Request(h) \/ Handler(h)
    \/ \E e \in Engines : Engine(e)
    \/ Signal \/ Drained \/ StopCapture \/ StopCaptureDone
    \/ Alive /\ Panic

Spec == Init /\ [][Next]_vars

\* Handlers go on, and captureMu is given to a waiting one as sync.Mutex does;
\* the goroutines of an engine go on to their end.
FairSpec ==
    /\ Spec
    /\ \A h \in Handlers : WF_vars(Handler(h))
    /\ WF_vars(Alive /\ Panic)
    /\ \A e \in Engines :
         /\ WF_vars(Within(LoopStart(e))) /\ WF_vars(Within(LoopLeave(e)))
         /\ WF_vars(Within(LoopDone(e))) /\ WF_vars(Within(Work(e)))
         /\ WF_vars(Within(WorkerLeave(e)))

-----------------------------------------------------------------------------
(***************************************************************************)
(* Properties                                                              *)
(***************************************************************************)
\* The comment on captureMu: no engine is leaked by concurrent requests.  While
\* no request is under way, an engine that runs is the one the server knows.
NoEngineLeaks ==
    (\A h \in Handlers : pc[h] \in {"new", "done"}) /\ main \in {"serving", "draining"}
        => Running \subseteq {current}

\* Requests to start leak none, however they interleave: captureMu does what
\* its comment says as long as nobody stops the capture.
StartsLeakNothing == (\A p \in Stoppers : pc[p] = "new") => NoEngineLeaks

\* The comment in handleCaptureStart: the old engine is only stopped after the
\* new one has started, so without a request to stop the capture never pauses;
\* and no more than the two engines of one replacement ever store the same
\* traffic.
CaptureNeverPauses ==
    (\A p \in Stoppers : pc[p] = "new") /\ main \in {"serving", "draining"}
        => (current # None => Cardinality(Running) \in {1, 2})

\* What the server calls current runs, or a request that has stopped it is
\* about to say so: the pointer is never left at an engine that is over.
CurrentIsLive ==
    current # None /\ ~running[current] =>
        \/ \E h \in Handlers : mine[h] = current /\ pc[h] \in {"wait", "set", "unset"}
        \/ main \in {"waiting", "exited", "panicked"}

\* The engines at every moment: whoever starts and stops them, a Stop is clean,
\* starts leak nothing, and the pointer is not left at an engine that is over.
Inv == TypeOK /\ StopIsClean /\ StartsLeakNothing /\ CurrentIsLive

\* A request for start or stop is answered, unless the program ends before.
RequestsAnswered ==
    \A h \in Handlers : pc[h] # "new" ~> pc[h] = "done" \/ ~Alive
=============================================================================
