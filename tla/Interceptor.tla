----------------------------- MODULE Interceptor -----------------------------
(***************************************************************************)
(* internal/proxy/interceptor.go: the gate every proxied request and       *)
(* response passes.  In "auto" mode requests are checked against rules; in *)
(* "manual" mode each message waits in the pending queue for a decision of *)
(* a user (Resolve, called by the API) or for its timer.                   *)
(*                                                                         *)
(* Four kinds of goroutine run at once: the proxy's handlers (Handle and   *)
(* HandleResponse), the API's calls of Resolve, the log writer, and Stop.  *)
(* They share mode, rules and pending under mu, and for each message a     *)
(* channel of capacity one and a timer.  A step is what a goroutine does   *)
(* between two points where another one can come in.                       *)
(*                                                                         *)
(* A timer follows the rules Go has had since 1.23 (go.mod asks for 1.25): *)
(* once Stop has returned, nothing is received from it any more.           *)
(***************************************************************************)
EXTENDS Naturals, Sequences, FiniteSets

CONSTANTS
    Requests,       \* messages that go through Handle
    Responses,      \* messages that go through HandleResponse
    Admins,         \* concurrent API calls of Resolve
    Ids,            \* readings of the clock, from which a pending id is made
    ClockRepeats,   \* whether two messages may be given the same id
    Decisions,      \* what users send: "garbled" is a modified request that
                    \* http.NewRequest refuses, "unknown" any other action
    RuleLists,      \* the lists SetRules may be given
    MaxPending,     \* bound of the pending queue (512 in the code)
    LogCap,         \* capacity of logCh (1024 in the code)
    None

Msgs == Requests \cup Responses

ASSUME GateAssumption ==
    /\ IsFiniteSet(Ids)
    /\ ClockRepeats \in BOOLEAN
    /\ Decisions \subseteq {"allow", "modify", "garbled", "drop", "unknown"}
    /\ MaxPending \in Nat \ {0}
    /\ LogCap \in Nat \ {0}
    /\ Requests \cap Responses = {}
    /\ None \notin Msgs \cup Ids \cup Decisions
    /\ \A rs \in RuleLists : rs \in Seq([enabled : BOOLEAN, block : BOOLEAN,
                                         hits : SUBSET Requests])

VARIABLES
    mode, rules,
    pending,    \* pending[i]: the message waiting under id i, or None
    pc,         \* pc[m]: where m's handler is
    id,         \* id[m]: the id m was given, or None
    timer,      \* timer[m]: "unset", "running", "fired", "received", "stopped"
    result,     \* result[m]: what is in m's result channel, or None
    outcome,    \* outcome[m]: what became of m, or None
    call,       \* call[a]: where the call of Resolve is
    about,      \* about[a]: the message and the decision it carries
    logCh,      \* the channel of log entries [msg, action]
    closed,     \* closed, and logCh closed with it
    writer,     \* the log writer: "running" or "exited"
    stop,       \* the call of Stop: "new", "waiting", "returned"
    saved,      \* the log entries saved
    decided,    \* decided[m]: the decision Resolve took for m, or None
    prompt      \* prompt[m]: that decision came before m's timer was received,
                \* or was in the channel when the handler looked again

gate    == <<mode, rules, pending>>
handler == <<pc, id, timer, result, outcome>>
api     == <<call, about>>
log     == <<logCh, closed, writer, stop, saved>>
history == <<decided, prompt>>
vars    == <<gate, handler, api, log, history>>

Entries == [msg : Msgs, action : Decisions \cup {"allow", "drop"}]
Waiting == {i \in Ids : pending[i] # None}

TypeOK ==
    /\ mode \in {"auto", "manual"}
    /\ rules \in RuleLists \cup {<<>>}
    /\ pending \in [Ids -> Msgs \cup {None}]
    /\ Cardinality(Waiting) <= MaxPending
    /\ pc \in [Msgs -> {"new", "block", "allow", "manual", "refuse", "waiting",
                        "expired", "giveup", "timeout", "done"}]
    /\ id \in [Msgs -> Ids \cup {None}]
    /\ timer \in [Msgs -> {"unset", "running", "fired", "received", "stopped"}]
    /\ result \in [Msgs -> Decisions \cup {None}]
    /\ outcome \in [Msgs -> {"forwarded", "modified", "blocked", "badRequest",
                             "refused", None}]
    /\ call \in [Admins -> {"idle", "taken", "send"}]
    /\ about \in [Admins -> [msg : Msgs, decision : Decisions] \cup {None}]
    /\ logCh \in Seq(Entries) /\ Len(logCh) <= LogCap
    /\ closed \in BOOLEAN
    /\ writer \in {"running", "exited"}
    /\ stop \in {"new", "waiting", "returned"}
    /\ saved \subseteq Entries
    /\ decided \in [Msgs -> Decisions \cup {None}]
    /\ prompt \in [Msgs -> BOOLEAN]

Init ==
    /\ mode = "auto" /\ rules = <<>>
    /\ pending = [i \in Ids |-> None]
    /\ pc = [m \in Msgs |-> "new"]
    /\ id = [m \in Msgs |-> None]
    /\ timer = [m \in Msgs |-> "unset"]
    /\ result = [m \in Msgs |-> None]
    /\ outcome = [m \in Msgs |-> None]
    /\ call = [a \in Admins |-> "idle"]
    /\ about = [a \in Admins |-> None]
    /\ logCh = <<>> /\ closed = FALSE /\ writer = "running" /\ stop = "new"
    /\ saved = {}
    /\ decided = [m \in Msgs |-> None]
    /\ prompt = [m \in Msgs |-> FALSE]

-----------------------------------------------------------------------------
\* SetMode and SetRules, each one assignment under mu.
SetMode ==
    /\ mode' \in {"auto", "manual"}
    /\ UNCHANGED <<rules, pending, handler, api, log, history>>

SetRules ==
    /\ rules' \in RuleLists
    /\ UNCHANGED <<mode, pending, handler, api, log, history>>

\* writeLog: dropped after Stop, and dropped when the channel is full.
WriteLog(m, action) ==
    /\ logCh' = IF closed \/ Len(logCh) >= LogCap THEN logCh
                ELSE Append(logCh, [msg |-> m, action |-> action])
    /\ UNCHANGED <<closed, writer, stop, saved>>

Goto(m, where) == pc' = [pc EXCEPT ![m] = where]

Return(m, what) ==
    /\ Goto(m, "done")
    /\ outcome' = [outcome EXCEPT ![m] = what]

(***************************************************************************)
(* Handle(m) and HandleResponse(m)                                         *)
(***************************************************************************)
\* The first enabled rule that matches decides.
Verdict(m) ==
    LET hit == {n \in DOMAIN rules : rules[n].enabled /\ m \in rules[n].hits}
    IN  IF hit = {} THEN "none"
        ELSE LET first == CHOOSE n \in hit : \A k \in hit : n <= k
             IN  IF rules[first].block THEN "block" ELSE "allow"

\* mode and rules are read once, under mu.
Pass(m) ==
    /\ pc[m] = "new" /\ mode = "auto"
    /\ m \in Responses \/ Verdict(m) = "none"
    /\ Return(m, "forwarded")
    /\ UNCHANGED <<gate, id, timer, result, api, log, history>>

Judge(m) ==
    /\ pc[m] = "new" /\ mode = "auto"
    /\ m \in Requests /\ Verdict(m) # "none"
    /\ Goto(m, Verdict(m))
    /\ UNCHANGED <<gate, id, timer, result, outcome, api, log, history>>

Judged(m) ==
    /\ \/ pc[m] = "block" /\ WriteLog(m, "drop") /\ Return(m, "blocked")
       \/ pc[m] = "allow" /\ WriteLog(m, "allow") /\ Return(m, "forwarded")
    /\ UNCHANGED <<gate, id, timer, result, api, history>>

\* The id is made from the clock; the timer runs from here on, while the
\* preview of the body is read.
Hold(m) ==
    /\ pc[m] = "new" /\ mode = "manual"
    /\ \E i \in Ids :
         /\ ClockRepeats \/ \A n \in Msgs : id[n] # i
         /\ id' = [id EXCEPT ![m] = i]
    /\ timer' = [timer EXCEPT ![m] = "running"]
    /\ Goto(m, "manual")
    /\ UNCHANGED <<gate, result, outcome, api, log, history>>

\* enqueuePending.
Enqueue(m) ==
    /\ pc[m] = "manual"
    /\ IF Cardinality(Waiting) >= MaxPending
       THEN /\ Goto(m, "refuse")
            /\ timer' = [timer EXCEPT ![m] = "stopped"]
            /\ UNCHANGED pending
       ELSE /\ Goto(m, "waiting")
            /\ pending' = [pending EXCEPT ![id[m]] = m]
            /\ UNCHANGED timer
    /\ UNCHANGED <<mode, rules, id, result, outcome, api, log, history>>

Refuse(m) ==
    /\ pc[m] = "refuse"
    /\ WriteLog(m, "drop")
    /\ Return(m, "refused")
    /\ UNCHANGED <<gate, id, timer, result, api, history>>

\* handleResult.
Effect(m, d) ==
    CASE d = "drop"                       -> "blocked"
      [] d = "garbled" /\ m \in Requests  -> "badRequest"
      [] d \in {"modify", "garbled"}      -> "modified"
      [] d \in {"allow", "unknown"}       -> "forwarded"

\* awaitDecision, first select: a decision is there ...
Decide(m) ==
    /\ pc[m] = "waiting"
    /\ result[m] # None
    /\ result' = [result EXCEPT ![m] = None]
    /\ Return(m, Effect(m, result[m]))
    /\ UNCHANGED <<gate, id, timer, api, log, history>>

\* ... or the timer has fired.
Expire(m) ==
    /\ pc[m] = "waiting"
    /\ timer[m] = "fired"
    /\ timer' = [timer EXCEPT ![m] = "received"]
    /\ Goto(m, "expired")
    /\ UNCHANGED <<gate, id, result, outcome, api, log, history>>

\* Fault: the handler does not look at the channel again after the timer.
LookAgain_Not(m) ==
    /\ pc[m] = "expired"
    /\ Goto(m, "giveup")
    /\ UNCHANGED <<gate, id, timer, result, outcome, api, log, history>>

\* The second select: it takes a decision that has come meanwhile.
LookAgain(m) ==
    /\ pc[m] = "expired"
    /\ IF result[m] # None
       THEN /\ result' = [result EXCEPT ![m] = None]
            /\ Return(m, Effect(m, result[m]))
       ELSE Goto(m, "giveup") /\ UNCHANGED <<result, outcome>>
    /\ UNCHANGED <<gate, id, timer, api, log, history>>

\* Fault: the entry stays in the queue.
GiveUp_Keep(m) ==
    /\ pc[m] = "giveup"
    /\ Goto(m, "timeout")
    /\ UNCHANGED <<gate, id, timer, result, outcome, api, log, history>>

GiveUp(m) ==
    /\ pc[m] = "giveup"
    /\ pending' = [pending EXCEPT ![id[m]] = None]
    /\ Goto(m, "timeout")
    /\ UNCHANGED <<mode, rules, id, timer, result, outcome, api, log, history>>

\* Fault: the timed out message is logged as dropped.
TimedOut_LogDrop(m) ==
    /\ pc[m] = "timeout"
    /\ WriteLog(m, "drop")
    /\ Return(m, "forwarded")
    /\ UNCHANGED <<gate, id, timer, result, api, history>>

TimedOut(m) ==
    /\ pc[m] = "timeout"
    /\ WriteLog(m, "allow")
    /\ Return(m, "forwarded")
    /\ UNCHANGED <<gate, id, timer, result, api, history>>

Handler(m) ==
    \/ Judged(m) \/ Enqueue(m) \/ Refuse(m)
    \/ Decide(m) \/ Expire(m) \/ LookAgain(m) \/ GiveUp(m) \/ TimedOut(m)

Arrive(m) == Pass(m) \/ Judge(m) \/ Hold(m)

TimerFires(m) ==
    /\ timer[m] = "running"
    /\ timer' = [timer EXCEPT ![m] = "fired"]
    /\ UNCHANGED <<gate, pc, id, result, outcome, api, log, history>>

(***************************************************************************)
(* Resolve(i, d), for an id that is pending (otherwise it returns an error *)
(* and changes nothing).                                                   *)
(***************************************************************************)
ResolveTake(a) ==
    /\ call[a] = "idle"
    /\ \E i \in Waiting, d \in Decisions :
         /\ about' = [about EXCEPT ![a] = [msg |-> pending[i], decision |-> d]]
         /\ pending' = [pending EXCEPT ![i] = None]
    /\ call' = [call EXCEPT ![a] = "taken"]
    /\ UNCHANGED <<mode, rules, handler, log, history>>

\* timer.Stop and writeLog.
ResolveLog(a) ==
    /\ call[a] = "taken"
    /\ LET m == about[a].msg  d == about[a].decision
       IN  /\ timer' = [timer EXCEPT ![m] = IF @ = "received" THEN @ ELSE "stopped"]
           /\ WriteLog(m, d)
           /\ decided' = [decided EXCEPT ![m] = d]
           /\ prompt' = [prompt EXCEPT ![m] = pc[m] = "waiting"]
    /\ call' = [call EXCEPT ![a] = "send"]
    /\ UNCHANGED <<gate, pc, id, result, outcome, about>>

\* Fault: the decision never reaches the handler.
ResolveSend_Skip(a) ==
    /\ call[a] = "send"
    /\ call' = [call EXCEPT ![a] = "idle"]
    /\ about' = [about EXCEPT ![a] = None]
    /\ UNCHANGED <<gate, handler, log, history>>

\* The channel has room for one decision; a second one would block.
ResolveSend(a) ==
    /\ call[a] = "send"
    /\ LET m == about[a].msg
       IN  /\ result[m] = None
           /\ result' = [result EXCEPT ![m] = about[a].decision]
           /\ prompt' = [prompt EXCEPT ![m] = @ \/ pc[m] \in {"waiting", "expired"}]
    /\ call' = [call EXCEPT ![a] = "idle"]
    /\ about' = [about EXCEPT ![a] = None]
    /\ UNCHANGED <<gate, pc, id, timer, outcome, log, decided>>

Resolve(a) == ResolveTake(a) \/ ResolveLog(a) \/ ResolveSend(a)

(***************************************************************************)
(* The log writer and Stop                                                 *)
(***************************************************************************)
SaveLog ==
    /\ writer = "running" /\ logCh # <<>>
    /\ logCh' = Tail(logCh)
    /\ saved' \in {saved, saved \cup {Head(logCh)}}     \* failed, or saved
    /\ UNCHANGED <<gate, handler, api, closed, writer, stop, history>>

WriterExit ==
    /\ writer = "running" /\ logCh = <<>> /\ closed
    /\ writer' = "exited"
    /\ UNCHANGED <<gate, handler, api, logCh, closed, stop, saved, history>>

StopClose ==
    /\ stop = "new"
    /\ closed' = TRUE
    /\ stop' = "waiting"
    /\ UNCHANGED <<gate, handler, api, logCh, writer, saved, history>>

StopWaited ==
    /\ stop = "waiting"
    /\ writer = "exited"
    /\ stop' = "returned"
    /\ UNCHANGED <<gate, handler, api, logCh, closed, writer, saved, history>>

Next ==
    \/ SetMode \/ SetRules
    \/ \E m \in Msgs : Arrive(m) \/ Handler(m) \/ TimerFires(m)
    \/ \E a \in Admins : Resolve(a)
    \/ SaveLog \/ WriterExit \/ StopClose \/ StopWaited

Spec == Init /\ [][Next]_vars

(***************************************************************************)
(* Fairness: goroutines that can run do, timers fire, calls that have      *)
(* begun go on.  No user needs ever to decide anything.                    *)
(***************************************************************************)
FairSpec ==
    /\ Spec
    /\ \A m \in Msgs : WF_vars(Handler(m)) /\ WF_vars(TimerFires(m))
    /\ \A a \in Admins : WF_vars(ResolveLog(a) \/ ResolveSend(a))
    /\ WF_vars(SaveLog \/ WriterExit) /\ WF_vars(StopWaited)

-----------------------------------------------------------------------------
(***************************************************************************)
(* Properties                                                              *)
(***************************************************************************)
\* The queue holds no dead entries: whatever is pending belongs to a handler
\* that still waits for it under that id.  A leaked entry would count against
\* MaxPending for ever, until every message is refused.
PendingIsWaiting ==
    \A i \in Waiting :
        /\ id[pending[i]] = i
        /\ pc[pending[i]] \in {"waiting", "expired", "giveup"}
        /\ decided[pending[i]] = None

\* Resolve's send never blocks: a message gets at most one decision.
ResolveNeverBlocks ==
    \A a \in Admins : call[a] # "idle" =>
        /\ result[about[a].msg] = None
        /\ \A b \in Admins : call[b] # "idle" /\ about[b].msg = about[a].msg => a = b

\* A decision that stops the timer in time, or reaches the channel before the
\* handler looks at it for the second time, is what happens to the message.
PromptDecisionHonoured ==
    \A m \in Msgs : pc[m] = "done" /\ prompt[m] => outcome[m] = Effect(m, decided[m])

\* The log tells what happened: unless a decision came too late, an entry
\* "drop" stands for a message that was not let through, and any other entry
\* for one that was not blocked.
LogTellsOutcome ==
    \A e \in saved \cup {logCh[n] : n \in DOMAIN logCh} :
        pc[e.msg] = "done" /\ (decided[e.msg] # None => prompt[e.msg]) =>
            (e.action = "drop" <=> outcome[e.msg] \in {"blocked", "refused"})

\* Once Stop has returned, every entry taken into the channel has been handed
\* to the store.
StopDrainsLog == stop = "returned" => logCh = <<>> /\ writer = "exited"

\* The gate at every moment: the queue without dead entries, no call of Resolve
\* that blocks, no log entry left behind.
Inv == TypeOK /\ PendingIsWaiting /\ ResolveNeverBlocks /\ StopDrainsLog

\* Every message that enters the gate leaves it, whether anybody decides.
EveryMessageLeaves == \A m \in Msgs : pc[m] # "new" ~> pc[m] = "done"
=============================================================================
