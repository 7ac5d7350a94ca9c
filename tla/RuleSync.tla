------------------------------ MODULE RuleSync ------------------------------
(***************************************************************************)
(* internal/api/server.go, handleInterceptMode, handleInterceptRules and   *)
(* handleInterceptRuleByID, in the process Startup brings up: the mode and *)
(* the rules of the gate are kept twice, in the database and in memory.    *)
(*                                                                         *)
(* A change of the rules is written, the whole list read again, and given  *)
(* to the interceptor; a change of the mode is made in memory and then     *)
(* written.  No lock is held from one step to the next, so that calls of   *)
(* several administrators interleave.                                      *)
(***************************************************************************)
EXTENDS Startup

CONSTANT Handlers   \* concurrent calls

\* Version 13 sets the default mode.
ASSUME RuleAssumption == \E v \in Versions : Migrations[v] = "mode"

VARIABLES
    job,        \* job[h]: "idle", "list", "set" (rules) or "save" (mode)
    mine,       \* mine[h]: the changes of the rules up to its own
    got,        \* got[h]: the list it has read
    want,       \* want[h]: the mode it has set
    acked,      \* the changes of the rules up to the last one answered for
    overtaken,  \* a list was installed over a newer one
    crossed     \* a mode was written over that of a later call

calls == <<job, mine, got, want>>
seen  == <<acked, overtaken, crossed>>
vars  == <<bootVars, calls, seen>>

TypeOK ==
    /\ BootTypeOK
    /\ job \in [Handlers -> {"idle", "list", "set", "save"}]
    /\ mine \in [Handlers -> 0 .. MaxChanges]
    /\ got \in [Handlers -> 0 .. MaxChanges]
    /\ want \in [Handlers -> Modes]
    /\ acked \in 0 .. MaxChanges
    /\ overtaken \in BOOLEAN /\ crossed \in BOOLEAN

Init ==
    /\ BootInit
    /\ job = [h \in Handlers |-> "idle"]
    /\ mine = [h \in Handlers |-> 0]
    /\ got = [h \in Handlers |-> 0]
    /\ want = [h \in Handlers |-> "auto"]
    /\ acked = 0 /\ overtaken = FALSE /\ crossed = FALSE

Idle == \A h \in Handlers : job[h] = "idle"

-----------------------------------------------------------------------------
(***************************************************************************)
(* The process                                                             *)
(***************************************************************************)
\* The calls die with the process; the API server waits for them otherwise.
Die ==
    /\ Crash
    /\ job' = [h \in Handlers |-> "idle"]
    /\ mine' = [h \in Handlers |-> 0]
    /\ got' = [h \in Handlers |-> 0]
    /\ want' = [h \in Handlers |-> "auto"]
    /\ UNCHANGED seen

Exit ==
    /\ pc = "up" /\ Idle
    /\ Ends
    /\ UNCHANGED <<faults, calls, seen>>

\* What the gate gets at a start is not older than anything it had.
LoadGate ==
    /\ LoadRules
    /\ overtaken' = FALSE /\ crossed' = FALSE
    /\ UNCHANGED <<calls, acked>>

StartStep == (Main \/ Boot) /\ UNCHANGED <<calls, seen>>

(***************************************************************************)
(* Rules                                                                   *)
(***************************************************************************)
\* Fault: the list is read before the change is written.
Change_ListFirst(h) ==
    /\ pc = "up" /\ job[h] = "idle" /\ dbRules < MaxChanges
    /\ dbRules' = dbRules + 1
    /\ mine' = [mine EXCEPT ![h] = dbRules']
    /\ got' = [got EXCEPT ![h] = dbRules]
    /\ job' = [job EXCEPT ![h] = "set"]
    /\ UNCHANGED <<schema, dbMode, retention, files, pc, at, pair, memory, faults, want, seen>>

\* SaveRule, UpdateRule or DeleteRule; the last two may change nothing.  When
\* it fails the call is over.
Change(h) ==
    /\ pc = "up" /\ job[h] = "idle"
    /\ dbRules' \in {dbRules} \cup (IF dbRules < MaxChanges THEN {dbRules + 1} ELSE {})
    /\ mine' = [mine EXCEPT ![h] = dbRules']
    /\ job' = [job EXCEPT ![h] = "list"]
    /\ UNCHANGED <<schema, dbMode, retention, files, pc, at, pair, memory, faults, got, want, seen>>

\* The answer, after which whoever has made the change takes it to be in force,
\* be the list installed or not.
Answer(h) ==
    /\ acked' = IF mine[h] > acked THEN mine[h] ELSE acked
    /\ mine' = [mine EXCEPT ![h] = 0]
    /\ got' = [got EXCEPT ![h] = 0]
    /\ job' = [job EXCEPT ![h] = "idle"]

\* When the list cannot be read the call is answered all the same.
List(h) ==
    /\ job[h] = "list"
    /\ \/ /\ got' = [got EXCEPT ![h] = dbRules]
          /\ job' = [job EXCEPT ![h] = "set"]
          /\ UNCHANGED <<faults, degraded, acked>>
          /\ UNCHANGED mine
       \/ /\ Fault
          /\ degraded' = degraded \cup {"rules"}
          /\ Answer(h)
    /\ UNCHANGED <<schema, settings, files, pc, at, pair, memMode, memRules, mitm, want,
                   overtaken, crossed>>

\* A list that is up to date makes good what went wrong before.
Set(h) ==
    /\ job[h] = "set"
    /\ memRules' = got[h]
    /\ overtaken' = (got[h] # dbRules /\ (overtaken \/ got[h] < memRules))
    /\ degraded' = IF got[h] = dbRules THEN degraded \ {"rules"} ELSE degraded
    /\ Answer(h)
    /\ UNCHANGED <<schema, settings, files, pc, at, pair, memMode, mitm, faults, want, crossed>>

(***************************************************************************)
(* The mode                                                                *)
(***************************************************************************)
\* Fault: the mode is not written.
SetMode_NotSaved(h) ==
    /\ pc = "up" /\ job[h] = "idle"
    /\ memMode' \in Modes
    /\ UNCHANGED <<schema, settings, files, pc, at, pair, memRules, mitm, degraded, faults,
                   calls, seen>>

SetMode(h) ==
    /\ pc = "up" /\ job[h] = "idle"
    /\ memMode' \in Modes
    /\ want' = [want EXCEPT ![h] = memMode']
    /\ job' = [job EXCEPT ![h] = "save"]
    /\ UNCHANGED <<schema, settings, files, pc, at, pair, memRules, mitm, degraded, faults,
                   mine, got, seen>>

\* A failure is only logged.
SaveMode(h) ==
    /\ job[h] = "save"
    /\ \/ /\ dbMode' = want[h]
          /\ crossed' = (want[h] # memMode)
          /\ degraded' = degraded \ {"mode"}
          /\ UNCHANGED faults
       \/ /\ Fault
          /\ degraded' = degraded \cup {"mode"}
          /\ UNCHANGED <<dbMode, crossed>>
    /\ job' = [job EXCEPT ![h] = "idle"]
    /\ want' = [want EXCEPT ![h] = "auto"]
    /\ UNCHANGED <<schema, dbRules, retention, files, pc, at, pair, memMode, memRules, mitm,
                   mine, got, acked, overtaken>>

Call(h) == Change(h) \/ List(h) \/ Set(h) \/ SetMode(h) \/ SaveMode(h)

Next ==
    \/ StartStep \/ LoadGate \/ Die \/ Exit
    \/ RemoveFile /\ UNCHANGED <<calls, seen>>
    \/ \E h \in Handlers : Call(h)

Spec == Init /\ [][Next]_vars

\* Somebody starts the program when it is down, and main goes on.
FairSpec == Spec /\ WF_vars(StartStep) /\ WF_vars(LoadGate)

-----------------------------------------------------------------------------
(***************************************************************************)
(* Properties                                                              *)
(***************************************************************************)
\* What a start finds and makes, after any number of starts that have died: the
\* whole schema, and an authority that can be used.
Inv == TypeOK /\ SchemaIsComplete /\ MitmUnlessTorn

\* handleInterceptRules: once a change of the rules has been answered, the gate
\* has it, now and after a restart, unless the list could not be read or a call
\* installed a list that was read before the change was.
RulesEnforced ==
    pc = "up" => memRules >= acked \/ overtaken \/ "rules" \in degraded

\* handleInterceptMode: with no call under way the gate's mode is the one that
\* a restart will load, unless a write failed or two calls crossed.
ModeSurvives ==
    pc = "up" /\ Idle => memMode = dbMode \/ crossed \/ "mode" \in degraded

\* main and store.New: whatever an earlier start has left, the program comes up
\* when it is started again, once nothing fails any more.
ComesUp == pc = "down" ~> pc = "up"
=============================================================================
