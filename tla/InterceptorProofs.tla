-------------------------- MODULE InterceptorProofs --------------------------
(***************************************************************************)
(* Interceptor for every value of its constants: no dead entry stays in    *)
(* the pending queue, Resolve's send never blocks, a prompt decision is    *)
(* honoured, and the log tells what happened.                              *)
(*                                                                         *)
(* The inductive invariant follows a message from the queue through the    *)
(* call of Resolve that took it to its result channel: it is in at most    *)
(* one of the three, and `decided` is set in between.                      *)
(***************************************************************************)
EXTENDS Interceptor, FiniteSetTheorems, TLAPS

Early == {"new", "block", "allow", "manual", "refuse"}
Held  == {"waiting", "expired", "giveup"}

Types ==
    /\ mode \in {"auto", "manual"}
    /\ rules \in RuleLists \cup {<<>>}
    /\ pending \in [Ids -> Msgs \cup {None}]
    /\ pc \in [Msgs -> {"new", "block", "allow", "manual", "refuse", "waiting",
                        "expired", "giveup", "timeout", "done"}]
    /\ id \in [Msgs -> Ids \cup {None}]
    /\ timer \in [Msgs -> {"unset", "running", "fired", "received", "stopped"}]
    /\ result \in [Msgs -> Decisions \cup {None}]
    /\ outcome \in [Msgs -> {"forwarded", "modified", "blocked", "badRequest",
                             "refused", None}]
    /\ call \in [Admins -> {"idle", "taken", "send"}]
    /\ about \in [Admins -> [msg : Msgs, decision : Decisions] \cup {None}]
    /\ decided \in [Msgs -> Decisions \cup {None}]
    /\ prompt \in [Msgs -> BOOLEAN]

LogTypes ==
    /\ logCh \in Seq(Entries) /\ Len(logCh) <= LogCap
    /\ closed \in BOOLEAN
    /\ writer \in {"running", "exited"}
    /\ stop \in {"new", "waiting", "returned"}
    /\ saved \subseteq Entries

\* The queue: a pending message waits under its own id, and no decision about
\* it is under way.
QueueInv ==
    \A i \in Ids : pending[i] # None =>
        /\ id[pending[i]] = i
        /\ pc[pending[i]] \in Held
        /\ decided[pending[i]] = None
        /\ result[pending[i]] = None
        /\ \A a \in Admins : call[a] # "idle" => about[a].msg # pending[i]

Bound == Cardinality(Waiting) <= MaxPending

\* A call of Resolve under way is the only one about its message, and is about
\* to send what it has decided.
CallInv ==
    \A a \in Admins : call[a] # "idle" =>
        /\ about[a] \in [msg : Msgs, decision : Decisions]
        /\ result[about[a].msg] = None
        /\ pc[about[a].msg] \notin Early
        /\ \A b \in Admins : call[b] # "idle" /\ about[b].msg = about[a].msg => a = b
        /\ call[a] = "taken" => decided[about[a].msg] = None
        /\ call[a] = "send" => decided[about[a].msg] = about[a].decision

MsgInv ==
    \A m \in Msgs :
        /\ pc[m] \in Early => decided[m] = None /\ result[m] = None /\ ~prompt[m]
        /\ pc[m] = "manual" => id[m] \in Ids
        /\ result[m] # None => decided[m] = result[m]
        /\ pc[m] \in {"expired", "giveup", "timeout"} => timer[m] = "received"
        /\ pc[m] \in Early \cup {"waiting"} => timer[m] # "received"

\* What a prompt decision has led to so far.
PromptInv ==
    \A m \in Msgs : prompt[m] =>
        /\ decided[m] # None
        /\ \/ /\ pc[m] = "waiting" /\ timer[m] = "stopped"
              /\ \E a \in Admins : call[a] = "send" /\ about[a].msg = m
           \/ pc[m] \in {"waiting", "expired"} /\ result[m] # None
           \/ pc[m] = "done" /\ outcome[m] = Effect(m, decided[m])

Logged == saved \cup {logCh[n] : n \in DOMAIN logCh}

\* Until its handler returns, the log has nothing about a message but what
\* Resolve decided.
LogInv ==
    \A e \in Logged :
        /\ pc[e.msg] # "done" => decided[e.msg] # None /\ e.action = decided[e.msg]
        /\ pc[e.msg] = "done" /\ decided[e.msg] # None /\ prompt[e.msg]
              => e.action = decided[e.msg]
        /\ pc[e.msg] = "done" /\ decided[e.msg] = None
              => (e.action = "drop" <=> outcome[e.msg] \in {"blocked", "refused"})

StopInv ==
    /\ writer = "exited" => closed /\ logCh = <<>>
    /\ stop = "returned" => writer = "exited"

IInv ==
    /\ Types /\ LogTypes /\ Bound
    /\ QueueInv /\ CallInv /\ MsgInv /\ PromptInv
    /\ LogInv /\ StopInv

-----------------------------------------------------------------------------
\* Steps that touch neither the queue nor a message nor a call.
Quiet ==
    SetMode \/ SetRules \/ SaveLog \/ WriterExit \/ StopClose \/ StopWaited
        \/ UNCHANGED vars

LEMMA QuietFrame ==
    ASSUME Quiet
    PROVE  UNCHANGED <<pending, pc, id, timer, result, outcome, call, about,
                       decided, prompt>>
BY DEF Quiet, SetMode, SetRules, SaveLog, WriterExit, StopClose, StopWaited,
       vars, gate, handler, api, log, history

\* The steps of Next, and stuttering.
LEMMA Steps ==
    ASSUME [Next]_vars
    PROVE  \/ Quiet
           \/ \E m \in Msgs :
                \/ Pass(m) \/ Judge(m) \/ Judged(m) \/ Hold(m) \/ Enqueue(m)
                \/ Refuse(m) \/ Decide(m) \/ Expire(m) \/ LookAgain(m)
                \/ GiveUp(m) \/ TimedOut(m) \/ TimerFires(m)
           \/ \E a \in Admins : ResolveTake(a) \/ ResolveLog(a) \/ ResolveSend(a)
BY DEF Next, Arrive, Handler, Resolve, Quiet

\* handleResult ends in one of these outcomes, and only a drop blocks.
LEMMA EffectFacts ==
    ASSUME NEW m, NEW d \in Decisions
    PROVE  /\ Effect(m, d) \in {"forwarded", "modified", "blocked", "badRequest"}
           /\ Effect(m, d) = "blocked" <=> d = "drop"
<1>1. d \in {"allow", "modify", "garbled", "drop", "unknown"}
  BY GateAssumption
<1>2. QED
  BY <1>1 DEF Effect

LEMMA VerdictFacts ==
    ASSUME NEW m
    PROVE  Verdict(m) \in {"none", "block", "allow"}
BY DEF Verdict


\* The types of the gate and of the messages.
LEMMA TypesStep ==
    ASSUME Types, CallInv, [Next]_vars
    PROVE  Types'
<1>1. CASE Quiet
  <2>1. mode' \in {"auto", "manual"} /\ rules' \in RuleLists \cup {<<>>}
    BY <1>1 DEF Types, Quiet, SetMode, SetRules, SaveLog, WriterExit, StopClose,
                 StopWaited, vars, gate
  <2>2. QED
    BY <1>1, <2>1, QuietFrame DEF Types
<1>2. ASSUME NEW m \in Msgs, Pass(m) PROVE Types'
  BY <1>2, GateAssumption DEF Types, CallInv, Pass, Goto, Return, gate, handler, api, log, history
<1>3. ASSUME NEW m \in Msgs, Judge(m) PROVE Types'
  <2>1. Verdict(m) \in {"block", "allow"}
    BY <1>3, VerdictFacts DEF Judge
  <2>2. QED
    BY <1>3, <2>1 DEF Types, Judge, Goto, gate, api, log, history
<1>4. ASSUME NEW m \in Msgs, Judged(m) PROVE Types'
  BY <1>4, GateAssumption DEF Types, CallInv, Judged, Goto, Return, gate, handler, api, log, history
<1>5. ASSUME NEW m \in Msgs, Hold(m) PROVE Types'
  BY <1>5, GateAssumption DEF Types, CallInv, Hold, Goto, Return, gate, handler, api, log, history
<1>6. ASSUME NEW m \in Msgs, Enqueue(m) PROVE Types'
  BY <1>6, GateAssumption DEF Types, CallInv, Enqueue, Goto, Return, gate, handler, api, log, history
<1>7. ASSUME NEW m \in Msgs, Refuse(m) PROVE Types'
  BY <1>7, GateAssumption DEF Types, CallInv, Refuse, Goto, Return, gate, handler, api, log, history
<1>8. ASSUME NEW m \in Msgs, Decide(m) PROVE Types'
  <2>1. Effect(m, result[m]) \in {"forwarded", "modified", "blocked", "badRequest"}
    BY <1>8, EffectFacts DEF Types, Decide
  <2>2. QED
    BY <1>8, <2>1 DEF Types, Decide, Return, Goto, gate, api, log, history
<1>9. ASSUME NEW m \in Msgs, Expire(m) PROVE Types'
  BY <1>9, GateAssumption DEF Types, CallInv, Expire, Goto, Return, gate, handler, api, log, history
<1>10. ASSUME NEW m \in Msgs, LookAgain(m) PROVE Types'
  <2>1. result[m] # None =>
          Effect(m, result[m]) \in {"forwarded", "modified", "blocked", "badRequest"}
    BY EffectFacts DEF Types
  <2>2. QED
    BY <1>10, <2>1 DEF Types, LookAgain, Return, Goto, gate, api, log, history
<1>11. ASSUME NEW m \in Msgs, GiveUp(m) PROVE Types'
  BY <1>11, GateAssumption DEF Types, CallInv, GiveUp, Goto, Return, gate, handler, api, log, history
<1>12. ASSUME NEW m \in Msgs, TimedOut(m) PROVE Types'
  BY <1>12, GateAssumption DEF Types, CallInv, TimedOut, Goto, Return, gate, handler, api, log, history
<1>13. ASSUME NEW m \in Msgs, TimerFires(m) PROVE Types'
  BY <1>13, GateAssumption DEF Types, CallInv, TimerFires, Goto, Return, gate, handler, api, log, history
<1>14. ASSUME NEW a \in Admins, ResolveTake(a) PROVE Types'
  <2>1. PICK i \in Waiting, d \in Decisions :
          /\ about' = [about EXCEPT ![a] = [msg |-> pending[i], decision |-> d]]
          /\ pending' = [pending EXCEPT ![i] = None]
    BY <1>14 DEF ResolveTake
  <2>2. [msg |-> pending[i], decision |-> d] \in [msg : Msgs, decision : Decisions]
    BY <2>1 DEF Types, Waiting
  <2>3. QED
    BY <1>14, <2>1, <2>2 DEF Types, ResolveTake, handler, log, history
<1>15. ASSUME NEW a \in Admins, ResolveLog(a) PROVE Types'
  BY <1>15, GateAssumption DEF Types, CallInv, ResolveLog, Goto, Return, gate, handler, api, log, history
<1>16. ASSUME NEW a \in Admins, ResolveSend(a) PROVE Types'
  BY <1>16, GateAssumption DEF Types, CallInv, ResolveSend, Goto, Return, gate, handler, api, log, history
<1>17. QED
  BY <1>1, <1>2, <1>3, <1>4, <1>5, <1>6, <1>7, <1>8, <1>9, <1>10, <1>11, <1>12, <1>13, <1>14, <1>15, <1>16, Steps

-----------------------------------------------------------------------------
(***************************************************************************)
(* What a step of a handler, or the timer, does to its message m; all that *)
(* the other lemmas need to know.                                          *)
(***************************************************************************)
OthersKept(m) ==
    \A n \in Msgs : n # m =>
        /\ pc'[n] = pc[n] /\ id'[n] = id[n] /\ timer'[n] = timer[n]
        /\ result'[n] = result[n] /\ outcome'[n] = outcome[n]

Kept(m) == id'[m] = id[m] /\ timer'[m] = timer[m] /\ result'[m] = result[m]

From(m, here, there) == pc[m] \in here /\ pc'[m] \in there

Finishes(m)  == From(m, {"new", "block", "allow", "refuse", "timeout"}, {"done"})
                    /\ Kept(m) /\ pending' = pending
Holds(m)     == From(m, {"new"}, {"manual"}) /\ id'[m] \in Ids
                    /\ timer'[m] = "running" /\ result'[m] = result[m] /\ pending' = pending
Moves(m)     == From(m, {"new"}, {"block", "allow"}) /\ Kept(m) /\ pending' = pending
TurnsAway(m) == From(m, {"manual"}, {"refuse"}) /\ id'[m] = id[m]
                    /\ timer'[m] = "stopped" /\ result'[m] = result[m] /\ pending' = pending
Queues(m)    == From(m, {"manual"}, {"waiting"}) /\ Kept(m)
                    /\ ~(Cardinality(Waiting) >= MaxPending)
                    /\ pending' = [pending EXCEPT ![id[m]] = m]
Obeys(m)     == From(m, {"waiting", "expired"}, {"done"}) /\ result[m] # None
                    /\ result'[m] = None /\ outcome'[m] = Effect(m, result[m])
                    /\ id'[m] = id[m] /\ timer'[m] = timer[m] /\ pending' = pending
Expires(m)   == From(m, {"waiting"}, {"expired"}) /\ timer[m] = "fired"
                    /\ timer'[m] = "received" /\ id'[m] = id[m]
                    /\ result'[m] = result[m] /\ pending' = pending
SeesNone(m)  == From(m, {"expired"}, {"giveup"}) /\ result[m] = None /\ Kept(m)
                    /\ pending' = pending
Deletes(m)   == From(m, {"giveup"}, {"timeout"}) /\ Kept(m)
                    /\ pending' = [pending EXCEPT ![id[m]] = None]
Fires(m)     == pc'[m] = pc[m] /\ timer[m] = "running" /\ timer'[m] = "fired"
                    /\ id'[m] = id[m] /\ result'[m] = result[m]
                    /\ outcome'[m] = outcome[m] /\ pending' = pending

Effects(m) ==
    /\ OthersKept(m)
    /\ UNCHANGED <<call, about, decided, prompt>>
    /\ \/ Finishes(m) \/ Holds(m) \/ Moves(m) \/ TurnsAway(m) \/ Queues(m)
       \/ Obeys(m) \/ Expires(m) \/ SeesNone(m) \/ Deletes(m) \/ Fires(m)

HandlerStep(m) ==
    \/ Pass(m) \/ Judge(m) \/ Judged(m) \/ Hold(m) \/ Enqueue(m) \/ Refuse(m)
    \/ Decide(m) \/ Expire(m) \/ LookAgain(m) \/ GiveUp(m) \/ TimedOut(m)
    \/ TimerFires(m)

LEMMA HandlerEffects ==
    ASSUME Types, NEW m \in Msgs, HandlerStep(m)
    PROVE  Effects(m)
<1>1. ASSUME Pass(m) PROVE OthersKept(m) /\ UNCHANGED <<call, about, decided, prompt>> /\ (Finishes(m))
  BY <1>1, VerdictFacts DEF Types, Pass, Goto, Return, gate, handler, api, log, history, OthersKept, Kept, From, Finishes
<1>2. ASSUME Judge(m) PROVE OthersKept(m) /\ UNCHANGED <<call, about, decided, prompt>> /\ (Moves(m))
  BY <1>2, VerdictFacts DEF Types, Judge, Goto, Return, gate, handler, api, log, history, OthersKept, Kept, From, Moves
<1>3. ASSUME Judged(m) PROVE OthersKept(m) /\ UNCHANGED <<call, about, decided, prompt>> /\ (Finishes(m))
  BY <1>3, VerdictFacts DEF Types, Judged, Goto, Return, gate, handler, api, log, history, OthersKept, Kept, From, Finishes
<1>4. ASSUME Hold(m) PROVE OthersKept(m) /\ UNCHANGED <<call, about, decided, prompt>> /\ (Holds(m))
  BY <1>4, VerdictFacts DEF Types, Hold, Goto, Return, gate, handler, api, log, history, OthersKept, Kept, From, Holds
<1>5. ASSUME Enqueue(m) PROVE OthersKept(m) /\ UNCHANGED <<call, about, decided, prompt>> /\ (TurnsAway(m) \/ Queues(m))
  BY <1>5, VerdictFacts DEF Types, Enqueue, Goto, Return, gate, handler, api, log, history, OthersKept, Kept, From, TurnsAway, Queues
<1>6. ASSUME Refuse(m) PROVE OthersKept(m) /\ UNCHANGED <<call, about, decided, prompt>> /\ (Finishes(m))
  BY <1>6, VerdictFacts DEF Types, Refuse, Goto, Return, gate, handler, api, log, history, OthersKept, Kept, From, Finishes
<1>7. ASSUME Decide(m) PROVE OthersKept(m) /\ UNCHANGED <<call, about, decided, prompt>> /\ (Obeys(m))
  BY <1>7, VerdictFacts DEF Types, Decide, Goto, Return, gate, handler, api, log, history, OthersKept, Kept, From, Obeys
<1>8. ASSUME Expire(m) PROVE OthersKept(m) /\ UNCHANGED <<call, about, decided, prompt>> /\ (Expires(m))
  BY <1>8, VerdictFacts DEF Types, Expire, Goto, Return, gate, handler, api, log, history, OthersKept, Kept, From, Expires
<1>9. ASSUME LookAgain(m) PROVE OthersKept(m) /\ UNCHANGED <<call, about, decided, prompt>> /\ (Obeys(m) \/ SeesNone(m))
  BY <1>9, VerdictFacts DEF Types, LookAgain, Goto, Return, gate, handler, api, log, history, OthersKept, Kept, From, Obeys, SeesNone
<1>10. ASSUME GiveUp(m) PROVE OthersKept(m) /\ UNCHANGED <<call, about, decided, prompt>> /\ (Deletes(m))
  BY <1>10, VerdictFacts DEF Types, GiveUp, Goto, Return, gate, handler, api, log, history, OthersKept, Kept, From, Deletes
<1>11. ASSUME TimedOut(m) PROVE OthersKept(m) /\ UNCHANGED <<call, about, decided, prompt>> /\ (Finishes(m))
  BY <1>11, VerdictFacts DEF Types, TimedOut, Goto, Return, gate, handler, api, log, history, OthersKept, Kept, From, Finishes
<1>12. ASSUME TimerFires(m) PROVE OthersKept(m) /\ UNCHANGED <<call, about, decided, prompt>> /\ (Fires(m))
  BY <1>12, VerdictFacts DEF Types, TimerFires, Goto, Return, gate, handler, api, log, history, OthersKept, Kept, From, Fires
<1>13. QED
  BY <1>1, <1>2, <1>3, <1>4, <1>5, <1>6, <1>7, <1>8, <1>9, <1>10, <1>11, <1>12 DEF HandlerStep, Effects

\* What the steps of Resolve do.
TakesEffect(a) ==
    \E i \in Ids, d \in Decisions :
        /\ pending[i] \in Msgs
        /\ call[a] = "idle" /\ call'[a] = "taken"
        /\ about'[a] = [msg |-> pending[i], decision |-> d]
        /\ about'[a].msg = pending[i] /\ about'[a].decision = d
        /\ pending' = [pending EXCEPT ![i] = None]
        /\ UNCHANGED <<pc, id, timer, result, outcome, decided, prompt>>

LogsEffect(a) ==
    LET m == about[a].msg
    IN  /\ call[a] = "taken" /\ call'[a] = "send"
        /\ about' = about
        /\ timer[m] # "received" => timer'[m] = "stopped"
        /\ timer[m] = "received" => timer'[m] = "received"
        /\ decided'[m] = about[a].decision
        /\ prompt'[m] = (pc[m] = "waiting")
        /\ \A n \in Msgs : n # m => /\ timer'[n] = timer[n] /\ decided'[n] = decided[n]
                                    /\ prompt'[n] = prompt[n]
        /\ UNCHANGED <<pending, pc, id, result, outcome>>

SendsEffect(a) ==
    LET m == about[a].msg
    IN  /\ call[a] = "send" /\ call'[a] = "idle"
        /\ result[m] = None
        /\ result'[m] = about[a].decision
        /\ prompt'[m] = (prompt[m] \/ pc[m] \in {"waiting", "expired"})
        /\ \A n \in Msgs : n # m => result'[n] = result[n] /\ prompt'[n] = prompt[n]
        /\ UNCHANGED <<pending, pc, id, timer, outcome, decided>>

CallsKept(a) ==
    \A b \in Admins : b # a => call'[b] = call[b] /\ about'[b] = about[b]

LEMMA ResolveEffects ==
    ASSUME Types, CallInv, NEW a \in Admins,
           ResolveTake(a) \/ ResolveLog(a) \/ ResolveSend(a)
    PROVE  CallsKept(a) /\ (TakesEffect(a) \/ LogsEffect(a) \/ SendsEffect(a))
<1>1. CASE ResolveTake(a)
  <2>1. PICK i \in Waiting, d \in Decisions :
          /\ about' = [about EXCEPT ![a] = [msg |-> pending[i], decision |-> d]]
          /\ pending' = [pending EXCEPT ![i] = None]
    BY <1>1 DEF ResolveTake
  <2>2. i \in Ids /\ pending[i] \in Msgs
    BY DEF Waiting, Types
  <2>3. /\ [msg |-> pending[i], decision |-> d].msg = pending[i]
        /\ [msg |-> pending[i], decision |-> d].decision = d
    OBVIOUS
  <2>4. /\ about'[a] = [msg |-> pending[i], decision |-> d]
        /\ \A b \in Admins : b # a => about'[b] = about[b]
    BY <2>1 DEF Types
  <2>5. call[a] = "idle" /\ call'[a] = "taken" /\ \A b \in Admins : b # a => call'[b] = call[b]
    BY <1>1 DEF Types, ResolveTake
  <2>6. UNCHANGED <<pc, id, timer, result, outcome, decided, prompt>>
    BY <1>1 DEF ResolveTake, handler, history
  <2>7. QED
    BY <2>1, <2>2, <2>3, <2>4, <2>5, <2>6 DEF CallsKept, TakesEffect
<1>2. CASE ResolveLog(a)
  <2>1. about[a].msg \in Msgs
    BY <1>2 DEF CallInv, ResolveLog
  <2>2. QED
    BY <1>2, <2>1 DEF Types, ResolveLog, CallsKept, LogsEffect, gate
<1>3. CASE ResolveSend(a)
  <2>1. about[a].msg \in Msgs
    BY <1>3 DEF CallInv, ResolveSend
  <2>2. QED
    BY <1>3, <2>1 DEF Types, ResolveSend, CallsKept, SendsEffect, gate, log
<1>4. QED
  BY <1>1, <1>2, <1>3

\* What is known of a message by where its handler is.
LEMMA MsgStep ==
    ASSUME IInv, [Next]_vars
    PROVE  MsgInv'
<1>1. CASE Quiet
  BY <1>1, QuietFrame DEF IInv, MsgInv
<1>2. ASSUME NEW m \in Msgs, Effects(m) PROVE MsgInv'
  BY <1>2, GateAssumption DEF IInv, Types, CallInv, QueueInv, MsgInv, Effects, OthersKept, Kept, From, Finishes, Holds, Moves, TurnsAway, Queues, Obeys, Expires, SeesNone, Deletes, Fires, Early, Held
<1>3. ASSUME NEW a \in Admins, CallsKept(a), TakesEffect(a) PROVE MsgInv'
  BY <1>3, GateAssumption DEF IInv, Types, CallInv, QueueInv, MsgInv, CallsKept, TakesEffect, LogsEffect, SendsEffect, Early, Held
<1>4. ASSUME NEW a \in Admins, CallsKept(a), LogsEffect(a) PROVE MsgInv'
  BY <1>4, GateAssumption DEF IInv, Types, CallInv, QueueInv, MsgInv, CallsKept, TakesEffect, LogsEffect, SendsEffect, Early, Held
<1>5. ASSUME NEW a \in Admins, CallsKept(a), SendsEffect(a) PROVE MsgInv'
  BY <1>5, GateAssumption DEF IInv, Types, CallInv, QueueInv, MsgInv, CallsKept, TakesEffect, LogsEffect, SendsEffect, Early, Held
<1>6. QED
  BY <1>1, <1>2, <1>3, <1>4, <1>5, Steps, HandlerEffects, ResolveEffects DEF IInv, HandlerStep

\* Nobody else holds a message that is in the queue.
LEMMA QueueStep ==
    ASSUME IInv, [Next]_vars
    PROVE  QueueInv'
<1>1. CASE Quiet
  BY <1>1, QuietFrame DEF IInv, QueueInv
<1>2. ASSUME NEW m \in Msgs, Effects(m) PROVE QueueInv'
  BY <1>2, GateAssumption DEF IInv, Types, CallInv, QueueInv, MsgInv, Effects, OthersKept, Kept, From, Finishes, Holds, Moves, TurnsAway, Queues, Obeys, Expires, SeesNone, Deletes, Fires, Early, Held
<1>3. ASSUME NEW a \in Admins, CallsKept(a), TakesEffect(a) PROVE QueueInv'
  BY <1>3, GateAssumption DEF IInv, Types, CallInv, QueueInv, MsgInv, CallsKept, TakesEffect, LogsEffect, SendsEffect, Early, Held
<1>4. ASSUME NEW a \in Admins, CallsKept(a), LogsEffect(a) PROVE QueueInv'
  BY <1>4, GateAssumption DEF IInv, Types, CallInv, QueueInv, MsgInv, CallsKept, TakesEffect, LogsEffect, SendsEffect, Early, Held
<1>5. ASSUME NEW a \in Admins, CallsKept(a), SendsEffect(a) PROVE QueueInv'
  BY <1>5, GateAssumption DEF IInv, Types, CallInv, QueueInv, MsgInv, CallsKept, TakesEffect, LogsEffect, SendsEffect, Early, Held
<1>6. QED
  BY <1>1, <1>2, <1>3, <1>4, <1>5, Steps, HandlerEffects, ResolveEffects DEF IInv, HandlerStep

\* The call of Resolve that took a message is alone with it.
LEMMA CallStep ==
    ASSUME IInv, [Next]_vars
    PROVE  CallInv'
<1>1. CASE Quiet
  BY <1>1, QuietFrame DEF IInv, CallInv
<1>2. ASSUME NEW m \in Msgs, Effects(m) PROVE CallInv'
  BY <1>2, GateAssumption DEF IInv, Types, CallInv, QueueInv, MsgInv, Effects, OthersKept, Kept, From, Finishes, Holds, Moves, TurnsAway, Queues, Obeys, Expires, SeesNone, Deletes, Fires, Early, Held
<1>3. ASSUME NEW a \in Admins, CallsKept(a), TakesEffect(a) PROVE CallInv'
  BY <1>3, GateAssumption DEF IInv, Types, CallInv, QueueInv, MsgInv, CallsKept, TakesEffect, LogsEffect, SendsEffect, Early, Held
<1>4. ASSUME NEW a \in Admins, CallsKept(a), LogsEffect(a) PROVE CallInv'
  BY <1>4, GateAssumption DEF IInv, Types, CallInv, QueueInv, MsgInv, CallsKept, TakesEffect, LogsEffect, SendsEffect, Early, Held
<1>5. ASSUME NEW a \in Admins, CallsKept(a), SendsEffect(a) PROVE CallInv'
  BY <1>5, GateAssumption DEF IInv, Types, CallInv, QueueInv, MsgInv, CallsKept, TakesEffect, LogsEffect, SendsEffect, Early, Held
<1>6. QED
  BY <1>1, <1>2, <1>3, <1>4, <1>5, Steps, HandlerEffects, ResolveEffects DEF IInv, HandlerStep

\* A prompt decision reaches the handler.
LEMMA PromptStep ==
    ASSUME IInv, [Next]_vars
    PROVE  PromptInv'
<1>1. CASE Quiet
  BY <1>1, QuietFrame DEF IInv, PromptInv
<1>2. ASSUME NEW m \in Msgs, Effects(m) PROVE PromptInv'
  BY <1>2, GateAssumption DEF IInv, Types, CallInv, QueueInv, MsgInv, PromptInv, Effects, OthersKept, Kept, From, Finishes, Holds, Moves, TurnsAway, Queues, Obeys, Expires, SeesNone, Deletes, Fires, Early, Held
<1>3. ASSUME NEW a \in Admins, CallsKept(a), TakesEffect(a) PROVE PromptInv'
  BY <1>3, GateAssumption DEF IInv, Types, CallInv, QueueInv, MsgInv, PromptInv, CallsKept, TakesEffect, LogsEffect, SendsEffect, Early, Held
<1>4. ASSUME NEW a \in Admins, CallsKept(a), LogsEffect(a) PROVE PromptInv'
  BY <1>4, GateAssumption DEF IInv, Types, CallInv, QueueInv, MsgInv, PromptInv, CallsKept, TakesEffect, LogsEffect, SendsEffect, Early, Held
<1>5. ASSUME NEW a \in Admins, CallsKept(a), SendsEffect(a) PROVE PromptInv'
  BY <1>5, GateAssumption DEF IInv, Types, CallInv, QueueInv, MsgInv, PromptInv, CallsKept, TakesEffect, LogsEffect, SendsEffect, Early, Held
<1>6. QED
  BY <1>1, <1>2, <1>3, <1>4, <1>5, Steps, HandlerEffects, ResolveEffects DEF IInv, HandlerStep

-----------------------------------------------------------------------------
\* The bound of the queue: an entry is added below the bound only.
LEMMA BoundStep ==
    ASSUME IInv, [Next]_vars
    PROVE  Bound'
<1>0. IsFiniteSet(Waiting) /\ Cardinality(Waiting) \in Nat /\ Cardinality(Waiting) <= MaxPending
  <2>1. Waiting \subseteq Ids
    BY DEF Waiting
  <2>2. QED
    BY <2>1, GateAssumption, FS_Subset, FS_CardinalityType DEF IInv, Bound
<1>1. SUFFICES ASSUME ~(Waiting' \subseteq Waiting)
               PROVE  Bound'
  <2>1. ASSUME Waiting' \subseteq Waiting PROVE Bound'
    <3>1. /\ IsFiniteSet(Waiting') /\ Cardinality(Waiting') <= Cardinality(Waiting)
      BY <1>0, <2>1, FS_Subset
    <3>2. Cardinality(Waiting') \in Nat
      BY <3>1, FS_CardinalityType
    <3>3. Cardinality(Waiting') <= MaxPending
      BY <1>0, <3>1, <3>2, GateAssumption
    <3>4. QED
      BY <3>3 DEF Bound
  <2>2. QED
    BY <2>1
<1>2. \E m \in Msgs : Queues(m)
  <2>1. ~Quiet
    BY <1>1, QuietFrame DEF Waiting
  <2>2. ASSUME NEW a \in Admins, TakesEffect(a) PROVE FALSE
    BY <1>1, <2>2 DEF IInv, Types, TakesEffect, Waiting
  <2>3. ASSUME NEW a \in Admins, LogsEffect(a) \/ SendsEffect(a) PROVE FALSE
    BY <1>1, <2>3 DEF LogsEffect, SendsEffect, Waiting
  <2>4. PICK m \in Msgs : Effects(m)
    BY <2>1, <2>2, <2>3, Steps, HandlerEffects, ResolveEffects DEF IInv, HandlerStep
  <2>5. Queues(m)
    BY <1>1, <2>4 DEF IInv, Types, Effects, Finishes, Holds, Moves, TurnsAway, Obeys,
                      Expires, SeesNone, Deletes, Fires, Waiting
  <2>6. QED
    BY <2>5
<1>3. PICK m \in Msgs : Queues(m)
  BY <1>2
<1>4. Waiting' \subseteq Waiting \cup {id[m]}
  BY <1>3 DEF IInv, Types, Queues, Waiting
<1>5. /\ IsFiniteSet(Waiting \cup {id[m]})
      /\ Cardinality(Waiting \cup {id[m]}) <= Cardinality(Waiting) + 1
  BY <1>0, FS_AddElement
<1>6. Cardinality(Waiting') <= Cardinality(Waiting \cup {id[m]})
  BY <1>4, <1>5, FS_Subset
<1>7. /\ Cardinality(Waiting \cup {id[m]}) \in Nat
      /\ Cardinality(Waiting') \in Nat
  BY <1>4, <1>5, FS_Subset, FS_CardinalityType
<1>8. Cardinality(Waiting) + 1 <= MaxPending
  BY <1>0, <1>3, GateAssumption DEF Queues
<1>9. QED
  BY <1>0, <1>5, <1>6, <1>7, <1>8, GateAssumption DEF Bound

-----------------------------------------------------------------------------
(***************************************************************************)
(* The log                                                                 *)
(***************************************************************************)
Entry(m, action) == [msg |-> m, action |-> action]

\* writeLog adds its entry or nothing, and nothing to a closed channel.
LEMMA WriteLogFacts ==
    ASSUME LogTypes, NEW m \in Msgs, NEW d \in Decisions \cup {"allow", "drop"},
           WriteLog(m, d)
    PROVE  /\ LogTypes'
           /\ Logged' \subseteq Logged \cup {Entry(m, d)}
           /\ UNCHANGED <<closed, writer, stop>>
           /\ closed => logCh' = logCh
<1>1. Entry(m, d) \in Entries
  BY DEF Entry, Entries
<1>2. UNCHANGED <<closed, writer, stop, saved>>
  BY DEF WriteLog
<1>3. CASE closed \/ Len(logCh) >= LogCap
  BY <1>2, <1>3 DEF WriteLog, LogTypes, Logged
<1>4. CASE ~(closed \/ Len(logCh) >= LogCap)
  <2>1. logCh' = Append(logCh, Entry(m, d))
    BY <1>4 DEF WriteLog, Entry
  <2>2. logCh' \in Seq(Entries) /\ Len(logCh') = Len(logCh) + 1
    BY <1>1, <2>1 DEF LogTypes
  <2>3. Len(logCh') <= LogCap
    BY <1>4, <2>2, GateAssumption DEF LogTypes
  <2>4. \A n \in DOMAIN logCh' : logCh'[n] = Entry(m, d) \/ (n \in DOMAIN logCh /\ logCh'[n] = logCh[n])
    BY <1>1, <2>1, <2>2 DEF LogTypes
  <2>5. Logged' \subseteq Logged \cup {Entry(m, d)}
    BY <1>2, <2>4 DEF Logged
  <2>6. QED
    BY <1>2, <1>4, <2>2, <2>3, <2>5 DEF LogTypes
<1>5. QED
  BY <1>3, <1>4

\* The writer moves an entry from the channel to the store, or drops it.
LEMMA SaveLogFacts ==
    ASSUME LogTypes, SaveLog
    PROVE  LogTypes' /\ Logged' \subseteq Logged
<1>1. /\ logCh \in Seq(Entries) /\ logCh # <<>>
      /\ logCh' = Tail(logCh)
      /\ saved' \subseteq saved \cup {Head(logCh)}
      /\ UNCHANGED <<closed, writer, stop>>
  BY DEF SaveLog, LogTypes
<1>2. /\ Head(logCh) = logCh[1] /\ 1 \in DOMAIN logCh /\ Head(logCh) \in Entries
      /\ logCh' \in Seq(Entries) /\ Len(logCh') = Len(logCh) - 1
      /\ \A n \in DOMAIN logCh' : n + 1 \in DOMAIN logCh /\ logCh'[n] = logCh[n + 1]
  BY <1>1
<1>3. Logged' \subseteq Logged
  BY <1>1, <1>2 DEF Logged
<1>4. Len(logCh') <= LogCap
  BY <1>1, <1>2, GateAssumption DEF LogTypes
<1>5. QED
  BY <1>1, <1>2, <1>3, <1>4 DEF LogTypes

\* Which steps write an entry.
LogKept == UNCHANGED <<logCh, closed, writer, stop, saved>>

LEMMA LogSteps ==
    ASSUME IInv, [Next]_vars
    PROVE  \/ LogKept
           \/ SaveLog \/ WriterExit \/ StopClose \/ StopWaited
           \/ \E m \in Msgs, d \in Decisions \cup {"allow", "drop"} : WriteLog(m, d)
<1>1. CASE Quiet
  BY <1>1 DEF Quiet, LogKept, SetMode, SetRules, vars, log
<1>2. ASSUME NEW m \in Msgs, HandlerStep(m)
      PROVE  LogKept \/ \E d \in {"allow", "drop"} : WriteLog(m, d)
  BY <1>2 DEF HandlerStep, Pass, Judge, Judged, Hold, Enqueue, Refuse, Decide, Expire,
              LookAgain, GiveUp, TimedOut, TimerFires, LogKept, log
<1>3. ASSUME NEW a \in Admins, ResolveTake(a) \/ ResolveSend(a) PROVE LogKept
  BY <1>3 DEF ResolveTake, ResolveSend, LogKept, log
<1>4. ASSUME NEW a \in Admins, ResolveLog(a)
      PROVE  \E m \in Msgs, d \in Decisions : WriteLog(m, d)
  BY <1>4 DEF IInv, CallInv, ResolveLog
<1>5. QED
  BY <1>1, <1>2, <1>3, <1>4, Steps DEF HandlerStep, Quiet, LogKept, vars, log, SetMode, SetRules

LEMMA LogTypesStep ==
    ASSUME IInv, [Next]_vars
    PROVE  LogTypes' /\ StopInv'
<1>1. CASE LogKept
  BY <1>1 DEF IInv, LogTypes, StopInv, LogKept
<1>2. CASE SaveLog
  BY <1>2, SaveLogFacts DEF IInv, StopInv, SaveLog
<1>3. CASE WriterExit \/ StopClose \/ StopWaited
  BY <1>3 DEF IInv, LogTypes, StopInv, WriterExit, StopClose, StopWaited
<1>4. ASSUME NEW m \in Msgs, NEW d \in Decisions \cup {"allow", "drop"}, WriteLog(m, d)
      PROVE  LogTypes' /\ StopInv'
  BY <1>4, WriteLogFacts DEF IInv, StopInv
<1>5. QED
  BY <1>1, <1>2, <1>3, <1>4, LogSteps

\* One entry, judged by the state it is looked at in.
Tells(e) ==
    /\ pc[e.msg] # "done" => decided[e.msg] # None /\ e.action = decided[e.msg]
    /\ pc[e.msg] = "done" /\ decided[e.msg] # None /\ prompt[e.msg]
          => e.action = decided[e.msg]
    /\ pc[e.msg] = "done" /\ decided[e.msg] = None
          => (e.action = "drop" <=> outcome[e.msg] \in {"blocked", "refused"})

LEMMA LoggedFacts ==
    ASSUME IInv, NEW e \in Logged
    PROVE  e \in Entries /\ e.msg \in Msgs /\ e.action \in Decisions \cup {"allow", "drop"}
           /\ Tells(e)
<1>1. saved \subseteq Entries /\ logCh \in Seq(Entries)
  BY DEF IInv, LogTypes
<1>2. ASSUME NEW n \in DOMAIN logCh PROVE logCh[n] \in Entries
  BY <1>1, <1>2
<1>3. e \in Entries
  BY <1>1, <1>2 DEF Logged
<1>4. e.msg \in Msgs /\ e.action \in Decisions \cup {"allow", "drop"}
  BY <1>3 DEF Entries
<1>5. Tells(e)
  BY DEF IInv, LogInv, Tells
<1>6. QED
  BY <1>3, <1>4, <1>5

LEMMA LogStep ==
    ASSUME IInv, [Next]_vars
    PROVE  LogInv'
<1>0. SUFFICES ASSUME NEW e \in Logged'
               PROVE  Tells(e)'
  BY DEF LogInv, Tells
<1>a. e \in Logged => Tells(e) /\ e.msg \in Msgs
  BY LoggedFacts
<1>1. CASE Quiet
  <2>1. Logged' \subseteq Logged
    BY <1>1, SaveLogFacts DEF IInv, Quiet, SetMode, SetRules, WriterExit, StopClose,
                              StopWaited, vars, log, Logged
  <2>2. QED
    BY <1>0, <1>a, <1>1, <2>1, QuietFrame DEF Tells
<1>2. ASSUME NEW m \in Msgs, Judged(m) \/ Refuse(m) \/ TimedOut(m)
      PROVE  Tells(e)'
  <2>1. PICK d \in {"allow", "drop"} :
          /\ WriteLog(m, d)
          /\ pc[m] \in {"block", "allow", "refuse", "timeout"} /\ pc'[m] = "done"
          /\ d = "drop" <=> outcome'[m] \in {"blocked", "refused"}
    BY <1>2 DEF IInv, Types, Judged, Refuse, TimedOut, Return, Goto
  <2>2. Effects(m)
    BY <1>2, HandlerEffects DEF IInv, HandlerStep
  <2>3. e \in Logged \/ e = Entry(m, d)
    BY <2>1, WriteLogFacts, <1>0 DEF IInv
  <2>4. decided[m] # None => ~prompt[m]
    BY <2>1 DEF IInv, PromptInv
  <2>5. CASE e = Entry(m, d)
    <3>1. e.msg = m /\ e.action = d
      BY <2>5 DEF Entry
    <3>2. QED
      BY <2>1, <2>2, <2>4, <3>1 DEF Tells, Effects
  <2>6. CASE e \in Logged /\ e.msg = m
    <3>1. decided[m] # None
      BY <1>a, <2>1, <2>6 DEF Tells
    <3>2. QED
      BY <2>1, <2>2, <2>4, <2>6, <3>1 DEF Tells, Effects
  <2>7. CASE e \in Logged /\ e.msg # m
    BY <1>a, <2>2, <2>7 DEF Tells, Effects, OthersKept
  <2>8. QED
    BY <2>3, <2>5, <2>6, <2>7
<1>3. ASSUME NEW m \in Msgs, HandlerStep(m), ~(Judged(m) \/ Refuse(m) \/ TimedOut(m))
      PROVE  Tells(e)'
  <2>1. LogKept
    BY <1>3 DEF HandlerStep, Pass, Judge, Hold, Enqueue, Decide, Expire, LookAgain, GiveUp,
                TimerFires, LogKept, log
  <2>2. e \in Logged
    BY <1>0, <2>1 DEF Logged, LogKept
  <2>3. Effects(m)
    BY <1>3, HandlerEffects DEF IInv
  <2>4. CASE e.msg # m
    BY <1>a, <2>2, <2>3, <2>4 DEF Tells, Effects, OthersKept
  <2>5. CASE e.msg = m
    <3>1. UNCHANGED <<decided, prompt>>
      BY <2>3 DEF Effects
    <3>2. CASE pc'[m] # "done" /\ pc[m] # "done"
      BY <1>a, <2>2, <2>5, <3>1, <3>2 DEF Tells
    <3>3. CASE pc[m] = "done"
      <4>1. pc'[m] = "done" /\ outcome'[m] = outcome[m]
        BY <2>3, <3>3 DEF Effects, From, Finishes, Holds, Moves, TurnsAway, Queues, Obeys,
                          Expires, SeesNone, Deletes, Fires
      <4>2. QED
        BY <1>a, <2>2, <2>5, <3>1, <3>3, <4>1 DEF Tells
    <3>4. CASE pc[m] # "done" /\ pc'[m] = "done"
      <4>1. decided[m] # None /\ e.action = decided[m]
        BY <1>a, <2>2, <2>5, <3>4 DEF Tells
      <4>2. QED
        BY <2>5, <3>1, <3>4, <4>1 DEF Tells
    <3>5. QED
      BY <3>2, <3>3, <3>4
  <2>6. QED
    BY <2>4, <2>5
<1>4. ASSUME NEW a \in Admins, ResolveTake(a) PROVE Tells(e)'
  BY <1>0, <1>a, <1>4 DEF ResolveTake, handler, log, history, Logged, Tells
<1>5. ASSUME NEW a \in Admins, ResolveLog(a) PROVE Tells(e)'
  <2> DEFINE m == about[a].msg  d == about[a].decision
  <2>1. m \in Msgs /\ d \in Decisions /\ decided[m] = None /\ WriteLog(m, d)
    BY <1>5 DEF IInv, CallInv, ResolveLog
  <2>2. /\ UNCHANGED <<pc, outcome>>
        /\ decided' = [decided EXCEPT ![m] = d]
        /\ prompt' = [prompt EXCEPT ![m] = pc[m] = "waiting"]
    BY <1>5 DEF ResolveLog
  <2> HIDE DEF m, d
  <2>3. decided'[m] = d /\ d # None /\ prompt'[m] = (pc[m] = "waiting")
    BY <2>1, <2>2, GateAssumption DEF IInv, Types
  <2>4. \A n \in Msgs : n # m => decided'[n] = decided[n] /\ prompt'[n] = prompt[n]
    BY <2>2 DEF IInv, Types
  <2>5. e \in Logged \/ e = Entry(m, d)
    BY <1>0, <2>1, WriteLogFacts DEF IInv
  <2>6. CASE e = Entry(m, d)
    <3>1. e.msg = m /\ e.action = d
      BY <2>6 DEF Entry
    <3>2. QED
      BY <2>2, <2>3, <3>1 DEF Tells
  <2>7. CASE e \in Logged /\ e.msg = m
    BY <1>a, <2>1, <2>2, <2>3, <2>7 DEF Tells
  <2>8. CASE e \in Logged /\ e.msg # m
    BY <1>a, <2>2, <2>4, <2>8 DEF Tells
  <2>9. QED
    BY <2>5, <2>6, <2>7, <2>8
<1>6. ASSUME NEW a \in Admins, ResolveSend(a) PROVE Tells(e)'
  <2>1. Logged' = Logged /\ UNCHANGED <<pc, outcome, decided>>
    BY <1>6 DEF ResolveSend, log, Logged
  <2>2. \A n \in Msgs : pc[n] = "done" => prompt'[n] = prompt[n]
    BY <1>6 DEF IInv, Types, ResolveSend
  <2>3. QED
    BY <1>0, <1>a, <2>1, <2>2 DEF Tells
<1>7. QED
  BY <1>1, <1>2, <1>3, <1>4, <1>5, <1>6, Steps DEF HandlerStep

-----------------------------------------------------------------------------
LEMMA InitIInv ==
    ASSUME Init
    PROVE  IInv
<1>1. Types
  BY DEF Init, Types
<1>2. LogTypes /\ StopInv
  <2>1. logCh = <<>> /\ saved = {} /\ closed = FALSE /\ writer = "running" /\ stop = "new"
    BY DEF Init
  <2>2. logCh \in Seq(Entries) /\ Len(logCh) <= LogCap
    BY <2>1, GateAssumption
  <2>3. closed \in BOOLEAN /\ saved \subseteq Entries
    BY <2>1
  <2>4. LogTypes
    BY <2>1, <2>2, <2>3 DEF LogTypes
  <2>5. StopInv
    BY <2>1 DEF StopInv
  <2>6. QED
    BY <2>4, <2>5
<1>3. Bound
  <2>1. Waiting = {}
    BY DEF Init, Waiting
  <2>2. QED
    BY <2>1, FS_EmptySet, GateAssumption DEF Bound
<1>4. QueueInv /\ CallInv /\ PromptInv /\ MsgInv
  BY DEF Init, QueueInv, CallInv, PromptInv, MsgInv
<1>5. LogInv
  BY DEF Init, LogInv, Logged
<1>6. QED
  BY <1>1, <1>2, <1>3, <1>4, <1>5 DEF IInv

LEMMA StepIInv ==
    ASSUME IInv, [Next]_vars
    PROVE  IInv'
<1>1. Types'
  BY TypesStep DEF IInv
<1>2. QED
  BY <1>1, MsgStep, QueueStep, CallStep, PromptStep, BoundStep, LogTypesStep, LogStep DEF IInv

\* The inductive invariant holds in every reachable state, whatever the
\* constants: a message is in the queue, in one call of Resolve or in its
\* result channel, and never in two of them.
THEOREM Invariance == Spec => []IInv
<1>1. Init => IInv
  BY InitIInv
<1>2. IInv /\ [Next]_vars => IInv'
  BY StepIInv
<1>3. QED
  BY <1>1, <1>2, PTL DEF Spec

\* Types, the bound of the pending queue (maxPending) and of the log channel.
THEOREM TypeCorrect == Spec => []TypeOK
<1>1. IInv => TypeOK
  BY DEF IInv, Types, LogTypes, Bound, TypeOK
<1>2. QED
  BY <1>1, Invariance, PTL

\* enqueuePending, Resolve and awaitDecision leave no dead entry in the queue.
THEOREM NoDeadEntries == Spec => []PendingIsWaiting
<1>1. IInv => PendingIsWaiting
  BY DEF IInv, QueueInv, PendingIsWaiting, Waiting, Held
<1>2. QED
  BY <1>1, Invariance, PTL

\* The send of Resolve on the channel of capacity one never blocks.
THEOREM SendsAtOnce == Spec => []ResolveNeverBlocks
<1>1. IInv => ResolveNeverBlocks
  BY DEF IInv, CallInv, ResolveNeverBlocks
<1>2. QED
  BY <1>1, Invariance, PTL

\* A decision that is in time is what happens to the message.
THEOREM PromptHonoured == Spec => []PromptDecisionHonoured
<1>1. IInv => PromptDecisionHonoured
  BY DEF IInv, PromptInv, PromptDecisionHonoured
<1>2. QED
  BY <1>1, Invariance, PTL

\* The intercept log does not contradict what happened to a message, unless a
\* decision about it came too late.
THEOREM LogIsTruthful == Spec => []LogTellsOutcome
<1>1. ASSUME IInv PROVE LogTellsOutcome
  <2>1. SUFFICES ASSUME NEW e \in Logged, pc[e.msg] = "done",
                        decided[e.msg] # None => prompt[e.msg]
                 PROVE  e.action = "drop" <=> outcome[e.msg] \in {"blocked", "refused"}
    BY DEF LogTellsOutcome, Logged
  <2>2. e.msg \in Msgs /\ Tells(e)
    BY <1>1, LoggedFacts
  <2>3. CASE decided[e.msg] = None
    BY <2>1, <2>2, <2>3 DEF Tells
  <2>4. CASE decided[e.msg] # None
    <3>1. e.action = decided[e.msg] /\ decided[e.msg] \in Decisions
      BY <1>1, <2>1, <2>2, <2>4 DEF Tells, IInv, Types
    <3>2. outcome[e.msg] = Effect(e.msg, decided[e.msg])
      BY <1>1, <2>1, <2>2, <2>4 DEF IInv, PromptInv
    <3>3. QED
      BY <3>1, <3>2, EffectFacts
  <2>5. QED
    BY <2>3, <2>4
<1>2. QED
  BY <1>1, Invariance, PTL

\* When Stop has returned the log channel is empty and the writer gone.
THEOREM StopDrains == Spec => []StopDrainsLog
<1>1. IInv => StopDrainsLog
  BY DEF IInv, StopInv, StopDrainsLog
<1>2. QED
  BY <1>1, Invariance, PTL

\* The gate is safe at every moment: no dead entries, no blocked administrator,
\* nothing left in the log's channel after Stop.
THEOREM Safety == Spec => []Inv
<1>1. TypeOK /\ PendingIsWaiting /\ ResolveNeverBlocks /\ StopDrainsLog => Inv
  BY DEF Inv
<1>2. QED
  BY <1>1, TypeCorrect, NoDeadEntries, SendsAtOnce, StopDrains, PTL
=============================================================================
