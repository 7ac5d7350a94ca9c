------------------------ MODULE EngineControlProofs ------------------------
(***************************************************************************)
(* Theorems about EngineControl for any number of requests to start and to *)
(* stop the capture: every Stop is clean, concurrent starts leak no engine *)
(* and never pause the capture, and the server's pointer is not left at an *)
(* engine that is over.                                                    *)
(***************************************************************************)
EXTENDS EngineControl, FiniteSetTheorems, TLAPS

(***************************************************************************)
(* The inductive invariant                                                 *)
(***************************************************************************)
\* How far the parts of an engine can be apart.  The writer pool outlives the
\* workers, and the workers outlive packetLoop's reading.
PartsInOrder(e) ==
    /\ loop[e] = "none" => /\ ~running[e] /\ worker[e] = "none"
                           /\ pool[e] = "none" /\ cargo[e] = "none"
    /\ loop[e] # "none" => worker[e] # "none" /\ pool[e] # "none"
    /\ running[e] => loop[e] \in {"spawned", "reading"}
    /\ worker[e] = "left" => loop[e] \in {"closing", "done"} /\ cargo[e] \in {"none", "ring"}
    /\ loop[e] = "done" => worker[e] = "left"
    /\ pool[e] = "stopped" => loop[e] = "done" /\ cargo[e] = "none"
    /\ cargo[e] # "refused"

HoldsLock == {"start", "stopOld", "wait", "set"}

\* Who holds captureMu, and which requests go where.
Roles ==
    /\ \A h \in Starters : pc[h] \in HoldsLock <=> captureMu = h
    /\ \A h \in Starters : pc[h] # "unset"
    /\ \A h \in Stoppers : pc[h] \notin {"start", "set"}
    /\ \A h \in Handlers : pc[h] \in {"stopOld", "wait"} => mine[h] # None
    /\ main = "waiting" => capEngine # None

\* The engine of a request is known to nobody else until it is published, so
\* nobody can stop it before.
Unpublished ==
    \A h \in Starters :
        /\ pc[h] \in {"new", "lock", "start"} => loop[h] = "none"
        /\ pc[h] \in {"stopOld", "wait", "set"} => running[h]
        /\ pc[h] \in {"new", "lock"} \cup HoldsLock =>
              current # h /\ \A g \in Handlers : mine[g] # h

\* Nobody has asked to stop the capture, and main has not begun to.
OnlyStarts ==
    (\A p \in Stoppers : pc[p] = "new") /\ main \in {"serving", "draining"}

\* Then these engines run: the current one, from the start of its replacement
\* on both, and from its stop on the new one.
Replacement ==
    OnlyStarts =>
        IF captureMu = None THEN Running = {current} \ {None}
        ELSE /\ mine[captureMu] = current
             /\ pc[captureMu] = "start" => Running = {current} \ {None}
             /\ pc[captureMu] = "stopOld" => Running = {current, captureMu}
             /\ pc[captureMu] \in {"wait", "set"} => Running = {captureMu}

IInv ==
    /\ TypeOK
    /\ \A e \in Engines : PartsInOrder(e)
    /\ Roles
    /\ Unpublished
    /\ Replacement
    /\ CurrentIsLive

\* The part of it that is about the engines alone.
PartsOK == EngineTypeOK /\ \A e \in Engines : PartsInOrder(e)

-----------------------------------------------------------------------------
(***************************************************************************)
(* The engines                                                             *)
(***************************************************************************)
\* A step of packetLoop, of the workers or of the pool keeps the parts of the
\* engines in order, and starts or stops none.
LEMMA GoroutinesKeep ==
    ASSUME NEW e \in Engines, PartsOK, Goroutines(e)
    PROVE  /\ PartsOK'
           /\ UNCHANGED running
           /\ \A d \in Engines : loop'[d] = "none" <=> loop[d] = "none"
<1> USE DEF PartsOK, EngineTypeOK, PartsInOrder
<1>1. CASE LoopStart(e)
  BY <1>1 DEF LoopStart
<1>2. CASE Receive(e)
  BY <1>2 DEF Receive
<1>3. CASE LoopLeave(e)
  BY <1>3 DEF LoopLeave
<1>4. CASE LoopDone(e)
  BY <1>4 DEF LoopDone
<1>5. CASE Work(e)
  <2>1. pool[e] = "running"
    BY <1>5 DEF Work
  <2> QED
    BY <1>5, <2>1 DEF Work, Pushed
<1>6. CASE StreamEnds(e)
  <2>1. pool[e] = "running"
    BY <1>6 DEF StreamEnds
  <2> QED
    BY <1>6, <2>1 DEF StreamEnds, Pushed
<1>7. CASE WorkerLeave(e)
  <2>1. pool[e] = "running"
    BY <1>7 DEF WorkerLeave
  <2> QED
    BY <1>7, <2>1 DEF WorkerLeave, Pushed
<1>8. CASE Saved(e)
  BY <1>8 DEF Saved
<1> QED
  BY <1>1, <1>2, <1>3, <1>4, <1>5, <1>6, <1>7, <1>8 DEF Goroutines

\* Start on a new engine makes all its parts.
LEMMA StartEngineKeeps ==
    ASSUME NEW e \in Engines, PartsOK, loop[e] = "none", StartEngine(e)
    PROVE  /\ PartsOK'
           /\ running' = [running EXCEPT ![e] = TRUE]
           /\ \A d \in Engines \ {e} : loop'[d] = loop[d]
BY DEF PartsOK, EngineTypeOK, PartsInOrder, StartEngine

\* The first half of Stop only clears the flag.
LEMMA StopCallKeeps ==
    ASSUME NEW e \in Engines, PartsOK, StopCall(e)
    PROVE  /\ PartsOK'
           /\ running' = [running EXCEPT ![e] = FALSE]
           /\ UNCHANGED loop
BY DEF PartsOK, EngineTypeOK, PartsInOrder, StopCall

\* The second half finds the workers gone and takes the rest out of the ring.
LEMMA StopDoneKeeps ==
    ASSUME NEW e \in Engines, PartsOK, StopDone(e)
    PROVE  /\ PartsOK'
           /\ UNCHANGED <<running, loop>>
BY DEF PartsOK, EngineTypeOK, PartsInOrder, StopDone

LEMMA PartsStay ==
    ASSUME PartsOK, UNCHANGED engineVars
    PROVE  PartsOK'
BY DEF PartsOK, EngineTypeOK, PartsInOrder, engineVars
-----------------------------------------------------------------------------
(***************************************************************************)
(* The requests.  A step that only moves goroutines changes nothing that   *)
(* the rest of the invariant speaks of.                                    *)
(***************************************************************************)
LEMMA EngineKeeps ==
    ASSUME IInv, NEW e \in Engines, Engine(e)
    PROVE  IInv'
<1> USE DEF IInv
<1>1. PartsOK' /\ UNCHANGED running /\ \A d \in Engines : loop'[d] = "none" <=> loop[d] = "none"
  BY GoroutinesKeep DEF PartsOK, TypeOK, Engine, Within
<1>2. UNCHANGED <<current, captureMu, pc, mine, main, capEngine>>
  BY DEF Engine, Within, control
<1>3. TypeOK'
  BY <1>1, <1>2 DEF TypeOK, PartsOK
<1>4. Roles'
  BY <1>2 DEF Roles
<1>5. Unpublished'
  BY <1>1, <1>2, ControlAssumption DEF Unpublished, Handlers
<1>6. Replacement'
  BY <1>1, <1>2 DEF Replacement, OnlyStarts, Running
<1>7. CurrentIsLive'
  BY <1>1, <1>2 DEF CurrentIsLive
<1> QED
  BY <1>1, <1>3, <1>4, <1>5, <1>6, <1>7 DEF PartsOK

\* A request comes in.
LEMMA RequestKeeps ==
    ASSUME IInv, NEW h \in Handlers, Request(h)
    PROVE  IInv'
<1> USE DEF IInv, Request, Goto
<1>1. PartsOK'
  BY PartsStay DEF PartsOK, TypeOK
<1>2. TypeOK'
  BY <1>1 DEF TypeOK, PartsOK
<1>3. Roles'
  BY DEF Roles, TypeOK, HoldsLock, Handlers
<1>4. Unpublished'
  BY DEF Unpublished, TypeOK, HoldsLock, Handlers, engineVars
<1>5. Replacement'
  <2>1. Running' = Running
    BY DEF Running, engineVars
  <2>2. OnlyStarts' => OnlyStarts
    BY ControlAssumption DEF OnlyStarts, TypeOK, Handlers
  <2>3. captureMu # None => captureMu # h
    BY ControlAssumption DEF Roles, TypeOK, HoldsLock
  <2> QED
    BY <2>1, <2>2, <2>3 DEF Replacement, TypeOK, Handlers
<1>6. CurrentIsLive'
  BY DEF CurrentIsLive, TypeOK, engineVars
<1> QED
  BY <1>1, <1>2, <1>3, <1>4, <1>5, <1>6 DEF PartsOK

\* A start gets captureMu and reads the current engine.
LEMMA LockKeeps ==
    ASSUME IInv, NEW h \in Handlers, Lock(h)
    PROVE  IInv'
<1> USE DEF IInv, Lock, Goto
<1>1. PartsOK'
  BY PartsStay DEF PartsOK, TypeOK
<1>2. TypeOK'
  BY <1>1, ControlAssumption DEF TypeOK, PartsOK, Roles, HoldsLock
<1>3. Roles'
  BY ControlAssumption DEF Roles, TypeOK, HoldsLock, Handlers
<1>4. Unpublished'
  BY DEF Unpublished, TypeOK, HoldsLock, Handlers, engineVars
<1>5. Replacement'
  <2>1. Running' = Running
    BY DEF Running, engineVars
  <2>2. OnlyStarts' => OnlyStarts
    BY ControlAssumption DEF OnlyStarts, TypeOK, Handlers
  <2> QED
    BY <2>1, <2>2, ControlAssumption DEF Replacement, TypeOK, Handlers
<1>6. CurrentIsLive'
  BY DEF CurrentIsLive, TypeOK, engineVars
<1> QED
  BY <1>1, <1>2, <1>3, <1>4, <1>5, <1>6 DEF PartsOK

\* The new engine starts, or does not.
LEMMA StartKeeps ==
    ASSUME IInv, NEW h \in Handlers, Start(h)
    PROVE  IInv'
<1> USE DEF IInv
<1>1. h \in Starters /\ captureMu = h /\ h \in Engines /\ loop[h] = "none" /\ ~running[h]
  BY ControlAssumption DEF Start, Roles, Unpublished, HoldsLock, Handlers, PartsInOrder
<1>2. current # h /\ \A g \in Handlers : mine[g] # h
  BY <1>1 DEF Start, Unpublished, HoldsLock
<1>3. ASSUME StartEngine(h), Goto(h, IF mine[h] = None THEN "set" ELSE "stopOld"),
             UNCHANGED <<captureMu, current, mine, main, capEngine>>
      PROVE  IInv'
  <2>1. PartsOK' /\ running' = [running EXCEPT ![h] = TRUE]
        /\ \A d \in Engines \ {h} : loop'[d] = loop[d]
    BY <1>1, <1>3, StartEngineKeeps DEF PartsOK, TypeOK
  <2>2. TypeOK'
    BY <1>1, <1>3, <2>1 DEF TypeOK, PartsOK, Goto, Roles, HoldsLock
  <2>3. Roles'
    BY <1>1, <1>3, ControlAssumption DEF Roles, TypeOK, HoldsLock, Handlers, Goto
  <2>4. Unpublished'
    BY <1>1, <1>2, <1>3, <2>1, ControlAssumption
    DEF Unpublished, TypeOK, EngineTypeOK, HoldsLock, Handlers, Goto
  <2>5. Replacement'
    <3>1. Running' = Running \cup {h}
      BY <1>1, <2>1 DEF Running, TypeOK, EngineTypeOK
    <3>2. OnlyStarts' => OnlyStarts
      BY <1>1, <1>3, ControlAssumption DEF OnlyStarts, TypeOK, Handlers, Goto
    <3>3. pc[h] = "start" /\ captureMu # None
      BY <1>1, ControlAssumption DEF Start
    <3> QED
      BY <1>1, <1>3, <3>1, <3>2, <3>3 DEF Replacement, TypeOK, Goto
  <2>6. CurrentIsLive'
    BY <1>1, <1>2, <1>3, <2>1 DEF CurrentIsLive, TypeOK, EngineTypeOK, Goto, Start
  <2> QED
    BY <2>1, <2>2, <2>3, <2>4, <2>5, <2>6 DEF PartsOK
<1>4. ASSUME StartFails(h), Goto(h, "done"), Unlock(h),
             UNCHANGED <<current, mine, main, capEngine>>
      PROVE  IInv'
  <2>1. PartsOK'
    BY <1>4, PartsStay DEF PartsOK, TypeOK, StartFails
  <2>2. UNCHANGED <<running, loop>> /\ captureMu' = None
    BY <1>1, <1>4 DEF StartFails, engineVars, Unlock
  <2>3. TypeOK'
    BY <1>1, <1>4, <2>1, <2>2 DEF TypeOK, PartsOK, Goto, Roles, HoldsLock
  <2>4. Roles'
    BY <1>1, <1>4, <2>2, ControlAssumption DEF Roles, TypeOK, HoldsLock, Handlers, Goto
  <2>5. Unpublished'
    BY <1>4, <2>2 DEF Unpublished, TypeOK, HoldsLock, Handlers, Goto
  <2>6. Replacement'
    <3>1. Running' = Running
      BY <2>2 DEF Running
    <3>2. OnlyStarts' => OnlyStarts
      BY <1>1, <1>4, ControlAssumption DEF OnlyStarts, TypeOK, Handlers, Goto
    <3>3. pc[h] = "start" /\ captureMu # None
      BY <1>1, ControlAssumption DEF Start
    <3> QED
      BY <1>1, <1>4, <2>2, <3>1, <3>2, <3>3 DEF Replacement
  <2>7. CurrentIsLive'
    BY <1>1, <1>4, <2>2 DEF CurrentIsLive, TypeOK, Goto, Start
  <2> QED
    BY <2>1, <2>3, <2>4, <2>5, <2>6, <2>7 DEF PartsOK
<1> QED
  BY <1>3, <1>4 DEF Start

\* Whoever stops an engine stops one that the server knew or main made, and
\* never the engine of a start that has not been published.
LEMMA StopOldKeeps ==
    ASSUME IInv, NEW h \in Handlers, StopOld(h)
    PROVE  IInv'
<1> USE DEF IInv
<1>1. pc[h] = "stopOld" /\ mine[h] \in Engines
  BY DEF StopOld, Roles, TypeOK
<1>2. \A g \in Starters : pc[g] \in HoldsLock => mine[h] # g /\ current # g
  BY DEF Unpublished
<1>3. PartsOK' /\ running' = [running EXCEPT ![mine[h]] = FALSE] /\ UNCHANGED loop
  BY <1>1, StopCallKeeps DEF PartsOK, TypeOK, StopOld
<1>4. UNCHANGED <<current, captureMu, mine, main, capEngine>>
  BY DEF StopOld
<1>5. /\ pc' = [pc EXCEPT ![h] = pc'[h]]
      /\ pc'[h] = IF running[mine[h]] THEN "wait"
                  ELSE IF h \in Starters THEN "set" ELSE "unset"
  BY DEF StopOld, Goto, TypeOK
<1>6. TypeOK'
  BY <1>1, <1>3, <1>4, <1>5, ControlAssumption DEF TypeOK, PartsOK, Handlers
<1>7. Roles'
  BY <1>1, <1>4, <1>5, ControlAssumption DEF Roles, TypeOK, HoldsLock, Handlers
<1>8. Unpublished'
  BY <1>1, <1>2, <1>3, <1>4, <1>5, ControlAssumption
  DEF Unpublished, TypeOK, EngineTypeOK, HoldsLock, Handlers
<1>9. Replacement'
  <2> SUFFICES ASSUME OnlyStarts'
               PROVE  Replacement'
    BY DEF Replacement
  <2>1. OnlyStarts /\ h \in Starters
    BY <1>1, <1>4, <1>5, ControlAssumption DEF OnlyStarts, TypeOK, Handlers
  <2>2. captureMu = h /\ captureMu # None
    BY <1>1, <2>1, ControlAssumption DEF Roles, HoldsLock
  <2>3. mine[h] = current /\ Running = {current, h} /\ current # h
    BY <1>1, <1>2, <2>1, <2>2 DEF Replacement, HoldsLock
  <2>4. running[mine[h]] /\ Running' = {h}
    BY <1>1, <1>3, <2>3 DEF Running, TypeOK, EngineTypeOK
  <2> QED
    BY <1>4, <1>5, <2>2, <2>3, <2>4 DEF Replacement
<1>10. CurrentIsLive'
  BY <1>1, <1>3, <1>4, <1>5 DEF CurrentIsLive, TypeOK, EngineTypeOK
<1> QED
  BY <1>3, <1>6, <1>7, <1>8, <1>9, <1>10 DEF PartsOK

LEMMA StopOldDoneKeeps ==
    ASSUME IInv, NEW h \in Handlers, StopOldDone(h)
    PROVE  IInv'
<1> USE DEF IInv
<1>1. pc[h] = "wait" /\ mine[h] \in Engines
  BY DEF StopOldDone, Roles, TypeOK
<1>2. PartsOK' /\ UNCHANGED <<running, loop>>
  BY <1>1, StopDoneKeeps DEF PartsOK, TypeOK, StopOldDone
<1>3. UNCHANGED <<current, captureMu, mine, main, capEngine>>
  BY DEF StopOldDone
<1>4. /\ pc' = [pc EXCEPT ![h] = pc'[h]]
      /\ pc'[h] = IF h \in Starters THEN "set" ELSE "unset"
  BY DEF StopOldDone, Goto, TypeOK
<1>5. TypeOK'
  BY <1>1, <1>2, <1>3, <1>4, ControlAssumption DEF TypeOK, PartsOK, Handlers
<1>6. Roles'
  BY <1>1, <1>3, <1>4, ControlAssumption DEF Roles, TypeOK, HoldsLock, Handlers
<1>7. Unpublished'
  BY <1>1, <1>2, <1>3, <1>4, ControlAssumption DEF Unpublished, TypeOK, HoldsLock, Handlers
<1>8. Replacement'
  <2>1. Running' = Running
    BY <1>2 DEF Running
  <2>2. OnlyStarts' => OnlyStarts
    BY <1>1, <1>3, <1>4, ControlAssumption DEF OnlyStarts, TypeOK, Handlers
  <2>3. captureMu = h => pc[captureMu] = "wait" /\ pc'[captureMu] \in {"set", "unset"}
    BY <1>1, <1>4
  <2>4. captureMu = h /\ captureMu # None => h \in Starters
    BY DEF TypeOK
  <2> QED
    BY <1>1, <1>3, <1>4, <2>1, <2>2, <2>3, <2>4 DEF Replacement, TypeOK, Handlers
<1>9. CurrentIsLive'
  BY <1>1, <1>2, <1>3, <1>4 DEF CurrentIsLive, TypeOK
<1> QED
  BY <1>2, <1>5, <1>6, <1>7, <1>8, <1>9 DEF PartsOK

\* The start makes its engine the current one: it runs.
LEMMA SetNewKeeps ==
    ASSUME IInv, NEW h \in Handlers, SetNew(h)
    PROVE  IInv'
<1> USE DEF IInv
<1>1. pc[h] = "set" /\ h \in Starters /\ captureMu = h /\ h \in Engines /\ h # None
  BY ControlAssumption DEF SetNew, Roles, HoldsLock, Handlers
<1>2. PartsOK' /\ UNCHANGED <<running, loop>>
  BY PartsStay DEF PartsOK, TypeOK, SetNew, engineVars
<1>3. /\ current' = h /\ captureMu' = None
      /\ UNCHANGED <<mine, main, capEngine>>
      /\ pc' = [pc EXCEPT ![h] = "done"]
  BY <1>1 DEF SetNew, Unlock, Goto
<1>4. TypeOK'
  BY <1>1, <1>2, <1>3, ControlAssumption DEF TypeOK, PartsOK, Roles, HoldsLock
<1>5. Roles'
  BY <1>1, <1>3, ControlAssumption DEF Roles, TypeOK, HoldsLock, Handlers
<1>6. Unpublished'
  BY <1>1, <1>2, <1>3 DEF Unpublished, TypeOK, HoldsLock, Handlers
<1>7. Replacement'
  <2>1. Running' = Running
    BY <1>2 DEF Running
  <2>2. OnlyStarts' => OnlyStarts
    BY <1>1, <1>3, ControlAssumption DEF OnlyStarts, TypeOK, Handlers
  <2>3. OnlyStarts => Running = {h}
    BY <1>1 DEF Replacement
  <2> QED
    BY <1>1, <1>3, <2>1, <2>2, <2>3 DEF Replacement
<1>8. CurrentIsLive'
  BY <1>1, <1>2, <1>3 DEF CurrentIsLive, Unpublished
<1> QED
  BY <1>2, <1>4, <1>5, <1>6, <1>7, <1>8 DEF PartsOK

\* A stop takes what it finds, and forgets whatever is there when it is done.
LEMMA ReadKeeps ==
    ASSUME IInv, NEW h \in Handlers, Read(h)
    PROVE  IInv'
<1> USE DEF IInv
<1>1. pc[h] = "lock" /\ h \in Stoppers /\ h \notin Starters
  BY ControlAssumption DEF Read
<1>2. PartsOK' /\ UNCHANGED <<running, loop>>
  BY PartsStay DEF PartsOK, TypeOK, Read, engineVars
<1>3. /\ mine' = [mine EXCEPT ![h] = current]
      /\ UNCHANGED <<current, captureMu, main, capEngine>>
      /\ pc' = [pc EXCEPT ![h] = IF current = None THEN "done" ELSE "stopOld"]
  BY DEF Read, Goto
<1>4. TypeOK'
  BY <1>1, <1>2, <1>3 DEF TypeOK, PartsOK
<1>5. Roles'
  BY <1>1, <1>3 DEF Roles, TypeOK, HoldsLock, Handlers
<1>6. Unpublished'
  BY <1>1, <1>2, <1>3 DEF Unpublished, TypeOK, HoldsLock, Handlers
<1>7. ~OnlyStarts'
  BY <1>1, <1>3 DEF OnlyStarts, TypeOK, Handlers
<1>8. Replacement'
  BY <1>7 DEF Replacement
<1>9. CurrentIsLive'
  BY <1>1, <1>2, <1>3 DEF CurrentIsLive, TypeOK
<1> QED
  BY <1>2, <1>4, <1>5, <1>6, <1>8, <1>9 DEF PartsOK

LEMMA SetNilKeeps ==
    ASSUME IInv, NEW h \in Handlers, SetNil(h)
    PROVE  IInv'
<1> USE DEF IInv
<1>1. pc[h] = "unset" /\ h \in Stoppers /\ h \notin Starters
  BY ControlAssumption DEF SetNil, Roles, Handlers
<1>2. PartsOK' /\ UNCHANGED <<running, loop>>
  BY PartsStay DEF PartsOK, TypeOK, SetNil, engineVars
<1>3. /\ current' = None
      /\ UNCHANGED <<captureMu, mine, main, capEngine>>
      /\ pc' = [pc EXCEPT ![h] = "done"]
  BY DEF SetNil, Goto
<1>4. TypeOK'
  BY <1>1, <1>2, <1>3 DEF TypeOK, PartsOK
<1>5. Roles'
  BY <1>1, <1>3 DEF Roles, TypeOK, HoldsLock, Handlers
<1>6. Unpublished'
  BY <1>1, <1>2, <1>3, ControlAssumption DEF Unpublished, TypeOK, HoldsLock, Handlers
<1>7. ~OnlyStarts'
  BY <1>1, <1>3 DEF OnlyStarts, TypeOK, Handlers
<1>8. Replacement'
  BY <1>7 DEF Replacement
<1>9. CurrentIsLive'
  BY <1>3 DEF CurrentIsLive
<1> QED
  BY <1>2, <1>4, <1>5, <1>6, <1>8, <1>9 DEF PartsOK

-----------------------------------------------------------------------------
(***************************************************************************)
(* main                                                                    *)
(***************************************************************************)
\* The end of main stops nothing but its own engine, which no start has made.
LEMMA StopCaptureKeeps ==
    ASSUME IInv, StopCapture
    PROVE  IInv'
<1> USE DEF IInv
<1>1. main = "capture" /\ UNCHANGED <<current, captureMu, pc, mine, capEngine>>
  BY DEF StopCapture
<1>2. /\ PartsOK' /\ UNCHANGED loop
      /\ \A e \in Engines : e # Boot => running'[e] = running[e]
  <2>1. CASE capEngine = None
    BY <2>1, PartsStay DEF PartsOK, TypeOK, StopCapture, engineVars
  <2>2. CASE capEngine # None
    <3>1. StopCall(capEngine) /\ capEngine = Boot /\ Boot \in Engines
      BY <2>2, ControlAssumption DEF StopCapture, TypeOK
    <3> QED
      BY <3>1, StopCallKeeps DEF PartsOK, TypeOK, EngineTypeOK
  <2> QED
    BY <2>1, <2>2
<1>3. main' \in {"waiting", "exited"} /\ (main' = "waiting" => capEngine # None)
  BY DEF StopCapture
<1>4. TypeOK'
  BY <1>1, <1>2, <1>3 DEF TypeOK, PartsOK
<1>5. Roles'
  BY <1>1, <1>3 DEF Roles
<1>6. Unpublished'
  BY <1>1, <1>2, ControlAssumption DEF Unpublished, HoldsLock, Handlers
<1>7. Replacement'
  BY <1>3 DEF Replacement, OnlyStarts
<1>8. CurrentIsLive'
  BY <1>3 DEF CurrentIsLive
<1> QED
  BY <1>2, <1>4, <1>5, <1>6, <1>7, <1>8 DEF PartsOK

LEMMA StopCaptureDoneKeeps ==
    ASSUME IInv, StopCaptureDone
    PROVE  IInv'
<1> USE DEF IInv
<1>1. main' = "exited" /\ UNCHANGED <<current, captureMu, pc, mine, capEngine>>
  BY DEF StopCaptureDone
<1>2. PartsOK' /\ UNCHANGED <<running, loop>>
  <2>1. StopDone(capEngine) /\ capEngine \in Engines
    BY ControlAssumption DEF StopCaptureDone, TypeOK, Roles
  <2> QED
    BY <2>1, StopDoneKeeps DEF PartsOK, TypeOK
<1>3. TypeOK'
  BY <1>1, <1>2 DEF TypeOK, PartsOK
<1>4. Roles'
  BY <1>1 DEF Roles
<1>5. Unpublished'
  BY <1>1, <1>2 DEF Unpublished
<1>6. Replacement'
  BY <1>1 DEF Replacement, OnlyStarts
<1>7. CurrentIsLive'
  BY <1>1 DEF CurrentIsLive
<1> QED
  BY <1>2, <1>3, <1>4, <1>5, <1>6, <1>7 DEF PartsOK

\* The steps of main that touch no engine, and the end of a program without a
\* handle.
LEMMA MainKeeps ==
    ASSUME IInv, Signal \/ Drained \/ Panic
    PROVE  IInv'
<1> USE DEF IInv
<1>1. /\ UNCHANGED <<engineVars, current, captureMu, pc, mine, capEngine>>
      /\ main' \in {"draining", "capture", "panicked"}
      /\ main' = "draining" => main = "serving"
      /\ main \in {"waiting", "exited", "panicked"} => main' = "panicked"
  BY DEF Signal, Drained, Panic
<1>2. PartsOK'
  BY <1>1, PartsStay DEF PartsOK, TypeOK
<1>3. UNCHANGED <<running, loop, Running>>
  BY <1>1 DEF engineVars, Running
<1>4. TypeOK'
  BY <1>1, <1>2 DEF TypeOK, PartsOK
<1>5. Roles'
  BY <1>1 DEF Roles
<1>6. Unpublished'
  BY <1>1, <1>3 DEF Unpublished
<1>7. Replacement'
  BY <1>1, <1>3 DEF Replacement, OnlyStarts
<1>8. CurrentIsLive'
  BY <1>1, <1>3 DEF CurrentIsLive
<1> QED
  BY <1>2, <1>4, <1>5, <1>6, <1>7, <1>8 DEF PartsOK

-----------------------------------------------------------------------------
(***************************************************************************)
(* The theorems                                                            *)
(***************************************************************************)
LEMMA InitOK == Init => IInv
<1> SUFFICES ASSUME Init
             PROVE  IInv
  OBVIOUS
<1> USE ControlAssumption DEF Init, EngineInit
<1>1. TypeOK
  BY DEF TypeOK, EngineTypeOK, Handlers
<1>2. \A e \in Engines : PartsInOrder(e)
  BY DEF PartsInOrder
<1>3. Roles
  BY DEF Roles, HoldsLock, Handlers
<1>4. Unpublished
  BY DEF Unpublished, HoldsLock, Handlers
<1>5. Replacement
  BY DEF Replacement, Running
<1>6. CurrentIsLive
  BY DEF CurrentIsLive
<1> QED
  BY <1>1, <1>2, <1>3, <1>4, <1>5, <1>6 DEF IInv

LEMMA StepOK == IInv /\ [Next]_vars => IInv'
<1> SUFFICES ASSUME IInv, [Next]_vars
             PROVE  IInv'
  OBVIOUS
<1>1. ASSUME NEW h \in Handlers, Request(h) \/ Handler(h)
      PROVE  IInv'
  BY <1>1, RequestKeeps, LockKeeps, StartKeeps, StopOldKeeps, StopOldDoneKeeps,
     SetNewKeeps, ReadKeeps, SetNilKeeps DEF Handler
<1>2. ASSUME NEW e \in Engines, Engine(e)
      PROVE  IInv'
  BY <1>2, EngineKeeps
<1>3. CASE Signal \/ Drained \/ Panic
  BY <1>3, MainKeeps
<1>4. CASE StopCapture
  BY <1>4, StopCaptureKeeps
<1>5. CASE StopCaptureDone
  BY <1>5, StopCaptureDoneKeeps
<1>6. CASE UNCHANGED vars
  <2>1. PartsOK' /\ Running' = Running
    BY <1>6, PartsStay DEF vars, engineVars, IInv, PartsOK, TypeOK, Running
  <2> QED
    BY <1>6, <2>1 DEF vars, engineVars, control, IInv, PartsOK, TypeOK, Roles,
       Unpublished, Replacement, OnlyStarts, CurrentIsLive
<1> QED
  BY <1>1, <1>2, <1>3, <1>4, <1>5, <1>6 DEF Next

\* Whatever requests, goroutines and main do, the parts of every engine are in
\* order, captureMu is held by the one start that works, an engine nobody has
\* heard of is stopped by nobody, and replacements go old, both, new.
THEOREM Invariance == Spec => []IInv
BY InitOK, StepOK, PTL DEF Spec

\* handleCaptureStart, handleCaptureStop and Engine.Stop for any number of
\* requests: the types, a Stop that leaves no goroutine and nothing unsaved
\* (engine.go:248), starts that leak no engine (server.go:811), and a pointer
\* that is not left at an engine that is over.
THEOREM Safety == Spec => []Inv
<1>1. IInv => Inv
  <2> SUFFICES ASSUME IInv
               PROVE  Inv
    OBVIOUS
  <2> USE DEF IInv
  <2>1. StopIsClean
    BY DEF StopIsClean, PartsInOrder
  <2>2. StartsLeakNothing
    <3> SUFFICES ASSUME \A p \in Stoppers : pc[p] = "new",
                        \A h \in Handlers : pc[h] \in {"new", "done"},
                        main \in {"serving", "draining"}
                 PROVE  Running \subseteq {current}
      BY DEF StartsLeakNothing, NoEngineLeaks
    <3>1. captureMu = None
      BY DEF Roles, TypeOK, HoldsLock, Handlers
    <3> QED
      BY <3>1 DEF Replacement, OnlyStarts
  <2> QED
    BY <2>1, <2>2 DEF Inv
<1> QED
  BY <1>1, Invariance, PTL

\* The order of handleCaptureStart, new before old (server.go:815): while nobody
\* asks to stop, one engine runs or two do, once there is one at all.
THEOREM NeverPauses == Spec => []CaptureNeverPauses
<1>1. IInv => CaptureNeverPauses
  <2> SUFFICES ASSUME IInv, OnlyStarts, current # None
               PROVE  Cardinality(Running) \in {1, 2}
    BY DEF CaptureNeverPauses, OnlyStarts
  <2>1. \/ Running = {current} \/ Running = {captureMu}
        \/ Running = {current, captureMu} /\ current # captureMu
    BY DEF IInv, Replacement, Roles, Unpublished, TypeOK, HoldsLock
  <2>2. \A x : IsFiniteSet({x}) /\ Cardinality({x}) = 1
    BY FS_Singleton
  <2>3. ASSUME Running = {current, captureMu}, current # captureMu
        PROVE  Cardinality(Running) = 2
    <3>1. Running = {current} \cup {captureMu}
      BY <2>3
    <3>2. Cardinality(Running) = Cardinality({current}) + 1
      BY <2>2, <2>3, <3>1, FS_AddElement
    <3>3. Cardinality({current}) = 1
      BY <2>2
    <3> QED
      BY <3>2, <3>3
  <2> QED
    BY <2>1, <2>2, <2>3
<1> QED
  BY <1>1, Invariance, PTL
=============================================================================
