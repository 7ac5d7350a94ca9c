--------------------------- MODULE RuleSyncProofs ---------------------------
(***************************************************************************)
(* What a start finds on disk, and what the gate of a running program has, *)
(* for any list of migrations that contains the default mode, any number   *)
(* of concurrent calls and any number of crashes and failed calls.         *)
(*                                                                         *)
(* The inductive invariant has a part for each of the things kept twice:   *)
(* the schema and its record, the two files of the authority, the rules in *)
(* the database and in memory, and the mode.                               *)
(***************************************************************************)
EXTENDS RuleSync, TLAPS

\* The types of what is on disk, in main, and in the calls.
DiskTypes ==
    /\ done \subseteq Versions /\ recorded \subseteq Versions
    /\ dbMode \in Modes \cup {None}
    /\ dbRules \in 0 .. MaxChanges
    /\ retention \in Days \cup {None}
    /\ cert \in File /\ key \in File /\ torn \in BOOLEAN

MainTypes ==
    /\ pc \in Steps \cup {"down", "up"}
    /\ at \in 1 .. Len(Migrations) + 1
    /\ pair \in Pairs \cup {None}
    /\ memMode \in Modes \cup {None}
    /\ memRules \in 0 .. MaxChanges
    /\ mitm \in BOOLEAN
    /\ degraded \subseteq {"mode", "rules", "ca"}
    /\ faults \in 0 .. MaxFaults

CallTypes ==
    /\ job \in [Handlers -> {"idle", "list", "set", "save"}]
    /\ mine \in [Handlers -> 0 .. MaxChanges]
    /\ got \in [Handlers -> 0 .. MaxChanges]
    /\ want \in [Handlers -> Modes]
    /\ acked \in 0 .. MaxChanges
    /\ overtaken \in BOOLEAN /\ crossed \in BOOLEAN

\* Only a program that serves has calls under way.
CallsNeedProgram == \A h \in Handlers : job[h] # "idle" => pc = "up"

\* The versions recorded are a first part of the list, and migrate() is at the
\* next one.
SchemaInv ==
    /\ \E n \in 0 .. Len(Migrations) :
         /\ recorded = 1 .. n
         /\ pc \in {"migrate", "record"} => at = n + 1
    /\ recorded \subseteq done
    /\ pc = "record" => at \in done
    /\ pc \notin {"down", "migrate", "record"} => done = Versions

\* Two files that are there belong together unless they are torn; while they
\* are written they are.
AuthorityInv ==
    /\ ~torn /\ cert # "absent" /\ key # "absent" => cert \in Pairs /\ key = cert
    /\ pc \in {"cutCert", "writeCert", "cutKey", "writeKey"} => pair \in Pairs
    /\ pc \in {"writeCert", "cutKey", "writeKey"} => torn
    /\ pc \in {"cutKey", "writeKey"} => cert = pair
    /\ pc = "proxy" => "ca" \in degraded \/ (cert # "absent" /\ key # "absent")
    /\ pc \in {"cleanup", "up"} /\ ~mitm => torn \/ "ca" \in degraded

RulesLoaded == pc \notin {"down", "migrate", "record", "mode", "rules"}

\* Nothing is answered for, made or read that is not in the database; a list
\* that is to be installed has its call's own change.
RulesInv ==
    /\ acked <= dbRules
    /\ \A h \in Handlers :
         /\ mine[h] <= dbRules /\ got[h] <= dbRules
         /\ job[h] = "set" => mine[h] <= got[h]
    /\ RulesLoaded => memRules >= acked \/ overtaken \/ "rules" \in degraded

\* The mode in memory is the one in the database, or a call has still to write
\* it, or has written it over another.
ModeInv ==
    /\ (\E v \in done : Migrations[v] = "mode") => dbMode # None
    /\ pc \notin {"down", "migrate", "record", "mode"} =>
         \/ memMode = dbMode \/ "mode" \in degraded
         \/ pc = "up" /\ (crossed \/ \E h \in Handlers : job[h] = "save")

IInv ==
    /\ TypeOK /\ CallsNeedProgram
    /\ SchemaInv /\ AuthorityInv /\ RulesInv /\ ModeInv

-----------------------------------------------------------------------------
(***************************************************************************)
(* Types                                                                   *)
(***************************************************************************)

\* The list of migrations has a length.
LEMMA LenNat == Len(Migrations) \in Nat /\ 1 \in 1 .. Len(Migrations) + 1
  BY StartupAssumption

\* The bounds are numbers.
LEMMA Bounds == MaxFaults \in Nat /\ MaxChanges \in Nat
  BY StartupAssumption

\* The newest of the versions 1 .. n is n.
LEMMA NewestOfRange ==
  ASSUME NEW n \in Nat
  PROVE  Newest(1 .. n) = n
<1>1. CASE n = 0
  BY <1>1 DEF Newest
<1>2. CASE n > 0
  <2>1. n \in 1 .. n /\ \A y \in 1 .. n : n >= y
    BY <1>2
  <2>2. \A x \in 1 .. n : (\A y \in 1 .. n : x >= y) => x = n
    BY <2>1
  <2>3. Max(1 .. n) = n
    BY <2>1, <2>2 DEF Max
  <2>. QED
    BY <1>2, <2>1, <2>3 DEF Newest
<1>. QED
  BY <1>1, <1>2

LEMMA TypeParts == TypeOK <=> DiskTypes /\ MainTypes /\ CallTypes
  BY DEF TypeOK, BootTypeOK, DiskTypes, MainTypes, CallTypes

\* What is on disk.
LEMMA DiskStep ==
  ASSUME DiskTypes, CallTypes, SchemaInv, AuthorityInv, [Next]_vars
  PROVE  DiskTypes'
<1> USE DEF DiskTypes, Modes, Versions, vars, bootVars, schema, settings, files, memory, calls, seen
<1>1. CASE Boot /\ UNCHANGED <<calls, seen>>
  BY <1>1 DEF Boot
<1>2. CASE Apply /\ UNCHANGED <<calls, seen>>
  BY <1>2 DEF Apply, StatementErrors, Fault
<1>3. CASE Record /\ UNCHANGED <<calls, seen>>
  BY <1>3 DEF Record, SchemaInv
<1>4. CASE Migrated /\ UNCHANGED <<calls, seen>>
  BY <1>4 DEF Migrated
<1>5. CASE LoadMode /\ UNCHANGED <<calls, seen>>
  BY <1>5 DEF LoadMode, Fault
<1>6. CASE LoadGate
  BY <1>6 DEF LoadGate, LoadRules, Fault
<1>7. CASE ReadCA /\ UNCHANGED <<calls, seen>>
  BY <1>7 DEF ReadCA, Fault, NewPair, File
<1>8. CASE CutCert /\ UNCHANGED <<calls, seen>>
  BY <1>8 DEF CutCert, File
<1>9. CASE WriteCert /\ UNCHANGED <<calls, seen>>
  BY <1>9 DEF WriteCert, File, AuthorityInv
<1>10. CASE CutKey /\ UNCHANGED <<calls, seen>>
  BY <1>10 DEF CutKey, File
<1>11. CASE WriteKey /\ UNCHANGED <<calls, seen>>
  BY <1>11 DEF WriteKey, File, AuthorityInv
<1>12. CASE WriteFails /\ UNCHANGED <<calls, seen>>
  BY <1>12 DEF WriteFails, Fault
<1>13. CASE NewProxy /\ UNCHANGED <<calls, seen>>
  BY <1>13 DEF NewProxy
<1>14. CASE StartAutoCleanup /\ UNCHANGED <<calls, seen>>
  BY <1>14 DEF StartAutoCleanup, Fault
<1>15. CASE Die
  BY <1>15 DEF Die, Crash, Ends, Fault
<1>16. CASE Exit
  BY <1>16 DEF Exit, Ends
<1>17. CASE RemoveFile /\ UNCHANGED <<calls, seen>>
  BY <1>17 DEF RemoveFile, File
<1>18. ASSUME NEW h \in Handlers, Change(h) PROVE DiskTypes'
  BY <1>18, Bounds DEF Change
<1>19. ASSUME NEW h \in Handlers, List(h) PROVE DiskTypes'
  BY <1>19 DEF List, Answer, Fault
<1>20. ASSUME NEW h \in Handlers, Set(h) PROVE DiskTypes'
  BY <1>20 DEF Set, Answer
<1>21. ASSUME NEW h \in Handlers, SetMode(h) PROVE DiskTypes'
  BY <1>21 DEF SetMode
<1>22. ASSUME NEW h \in Handlers, SaveMode(h) PROVE DiskTypes'
  BY <1>22 DEF SaveMode, CallTypes
<1>23. CASE UNCHANGED vars
  BY <1>23
<1>. QED
  BY <1>1, <1>2, <1>3, <1>4, <1>5, <1>6, <1>7, <1>8, <1>9, <1>10, <1>11, <1>12, <1>13, <1>14, <1>15, <1>16, <1>17, <1>18, <1>19, <1>20, <1>21, <1>22, <1>23 DEF Next, StartStep, Main, Call

\* What main has in memory.
LEMMA MainStep ==
  ASSUME DiskTypes, MainTypes, CallTypes, SchemaInv, [Next]_vars
  PROVE  MainTypes'
<1> USE DEF MainTypes, Modes, Versions, Steps, vars, bootVars, schema, settings, files, memory, calls, seen
<1>1. CASE Boot /\ UNCHANGED <<calls, seen>>
  <2>1. PICK n \in 0 .. Len(Migrations) : recorded = 1 .. n
    BY DEF SchemaInv
  <2>2. at' = n + 1
    BY <1>1, <2>1, NewestOfRange DEF Boot
  <2>. QED
    BY <1>1, <2>2, LenNat DEF Boot
<1>2. CASE Apply /\ UNCHANGED <<calls, seen>>
  <2>1. Fault \/ UNCHANGED faults
    BY <1>2 DEF Apply
  <2>2. faults' \in 0 .. MaxFaults
    BY <2>1, Bounds DEF Fault
  <2>3. pc' \in {"record", "down"} /\ at' \in {at, 1}
    BY <1>2 DEF Apply
  <2>4. at' \in 1 .. Len(Migrations) + 1
    BY <2>3, LenNat
  <2>5. UNCHANGED <<pair, memMode, memRules, mitm, degraded>>
    BY <1>2 DEF Apply
  <2>. QED
    BY <2>2, <2>3, <2>4, <2>5
<1>3. CASE Record /\ UNCHANGED <<calls, seen>>
  <2>1. faults' \in 0 .. MaxFaults
    BY <1>3, Bounds DEF Record, Fault
  <2>2. at \in 1 .. Len(Migrations)
    BY <1>3 DEF Record, SchemaInv, DiskTypes
  <2>3. pc' \in {"migrate", "down"} /\ at' \in {at + 1, 1}
    BY <1>3 DEF Record
  <2>. QED
    BY <1>3, <2>1, <2>2, <2>3, LenNat DEF Record
<1>4. CASE Migrated /\ UNCHANGED <<calls, seen>>
  BY <1>4, Bounds DEF Migrated
<1>5. CASE LoadMode /\ UNCHANGED <<calls, seen>>
  <2>1. faults' \in 0 .. MaxFaults
    BY <1>5, Bounds DEF LoadMode, Fault
  <2>2. memMode' \in Modes \cup {None} /\ degraded' \subseteq {"mode", "rules", "ca"}
    BY <1>5 DEF LoadMode, DiskTypes
  <2>. QED
    BY <1>5, <2>1, <2>2 DEF LoadMode
<1>6. CASE LoadGate
  <2>1. faults' \in 0 .. MaxFaults
    BY <1>6, Bounds DEF LoadGate, LoadRules, Fault
  <2>2. memRules' \in 0 .. MaxChanges /\ degraded' \subseteq {"mode", "rules", "ca"}
    BY <1>6 DEF LoadGate, LoadRules, DiskTypes
  <2>. QED
    BY <1>6, <2>1, <2>2 DEF LoadGate, LoadRules
<1>7. CASE ReadCA /\ UNCHANGED <<calls, seen>>
  <2>1. NewPair \in Pairs
    BY StartupAssumption DEF NewPair, File, DiskTypes
  <2>2. faults' \in 0 .. MaxFaults
    BY <1>7, Bounds DEF ReadCA, Fault
  <2>. QED
    BY <1>7, <2>1, <2>2 DEF ReadCA
<1>8. CASE CutCert /\ UNCHANGED <<calls, seen>>
  BY <1>8, Bounds DEF CutCert
<1>9. CASE WriteCert /\ UNCHANGED <<calls, seen>>
  BY <1>9, Bounds DEF WriteCert
<1>10. CASE CutKey /\ UNCHANGED <<calls, seen>>
  BY <1>10, Bounds DEF CutKey
<1>11. CASE WriteKey /\ UNCHANGED <<calls, seen>>
  BY <1>11, Bounds DEF WriteKey
<1>12. CASE WriteFails /\ UNCHANGED <<calls, seen>>
  BY <1>12, Bounds DEF WriteFails, Fault
<1>13. CASE NewProxy /\ UNCHANGED <<calls, seen>>
  <2>1. mitm' \in BOOLEAN
    BY <1>13 DEF NewProxy
  <2>. QED
    BY <1>13, <2>1 DEF NewProxy
<1>14. CASE StartAutoCleanup /\ UNCHANGED <<calls, seen>>
  BY <1>14, Bounds DEF StartAutoCleanup, Fault
<1>15. CASE Die
  <2>1. faults' \in 0 .. MaxFaults
    BY <1>15, Bounds DEF Die, Crash, Fault
  <2>2. /\ pc' = "down" /\ at' = 1 /\ pair' = None /\ memMode' = None
        /\ memRules' = 0 /\ degraded' = {}
    BY <1>15 DEF Die, Crash, Ends
  <2>3. mitm' \in BOOLEAN
    BY <1>15 DEF Die, Crash, Ends
  <2>. QED
    BY <2>1, <2>2, <2>3, LenNat, Bounds
<1>16. CASE Exit
  <2>1. /\ pc' = "down" /\ at' = 1 /\ pair' = None /\ memMode' = None
        /\ memRules' = 0 /\ degraded' = {} /\ UNCHANGED faults
    BY <1>16 DEF Exit, Ends
  <2>2. mitm' \in BOOLEAN
    BY <1>16 DEF Exit, Ends
  <2>. QED
    BY <2>1, <2>2, LenNat, Bounds
<1>17. CASE RemoveFile /\ UNCHANGED <<calls, seen>>
  BY <1>17, Bounds DEF RemoveFile
<1>18. ASSUME NEW h \in Handlers, Change(h) PROVE MainTypes'
  BY <1>18, Bounds DEF Change
<1>19. ASSUME NEW h \in Handlers, List(h) PROVE MainTypes'
  <2>1. faults' \in 0 .. MaxFaults
    BY <1>19, Bounds DEF List, Fault
  <2>2. degraded' \subseteq {"mode", "rules", "ca"}
    BY <1>19 DEF List
  <2>. QED
    BY <1>19, <2>1, <2>2 DEF List
<1>20. ASSUME NEW h \in Handlers, Set(h) PROVE MainTypes'
  BY <1>20 DEF Set, CallTypes
<1>21. ASSUME NEW h \in Handlers, SetMode(h) PROVE MainTypes'
  BY <1>21, Bounds DEF SetMode
<1>22. ASSUME NEW h \in Handlers, SaveMode(h) PROVE MainTypes'
  <2>1. faults' \in 0 .. MaxFaults
    BY <1>22, Bounds DEF SaveMode, Fault
  <2>2. degraded' \subseteq {"mode", "rules", "ca"}
    BY <1>22 DEF SaveMode
  <2>. QED
    BY <1>22, <2>1, <2>2 DEF SaveMode
<1>23. CASE UNCHANGED vars
  BY <1>23
<1>. QED
  BY <1>1, <1>2, <1>3, <1>4, <1>5, <1>6, <1>7, <1>8, <1>9, <1>10, <1>11, <1>12, <1>13, <1>14, <1>15, <1>16, <1>17, <1>18, <1>19, <1>20, <1>21, <1>22, <1>23 DEF Next, StartStep, Main, Call

\* What the calls have in hand.
LEMMA CallStep ==
  ASSUME DiskTypes, CallTypes, [Next]_vars
  PROVE  CallTypes'
<1> USE DEF CallTypes, Modes, vars, bootVars, schema, settings, files, memory, calls, seen
<1>1. CASE Boot /\ UNCHANGED <<calls, seen>>
  BY <1>1 DEF Boot
<1>2. CASE Apply /\ UNCHANGED <<calls, seen>>
  BY <1>2 DEF Apply, StatementErrors, Fault
<1>3. CASE Record /\ UNCHANGED <<calls, seen>>
  BY <1>3 DEF Record, Fault
<1>4. CASE Migrated /\ UNCHANGED <<calls, seen>>
  BY <1>4 DEF Migrated
<1>5. CASE LoadMode /\ UNCHANGED <<calls, seen>>
  BY <1>5 DEF LoadMode, Fault
<1>6. CASE LoadGate
  BY <1>6 DEF LoadGate, LoadRules, Fault
<1>7. CASE ReadCA /\ UNCHANGED <<calls, seen>>
  BY <1>7 DEF ReadCA, Fault, NewPair, File
<1>8. CASE CutCert /\ UNCHANGED <<calls, seen>>
  BY <1>8 DEF CutCert
<1>9. CASE WriteCert /\ UNCHANGED <<calls, seen>>
  BY <1>9 DEF WriteCert
<1>10. CASE CutKey /\ UNCHANGED <<calls, seen>>
  BY <1>10 DEF CutKey
<1>11. CASE WriteKey /\ UNCHANGED <<calls, seen>>
  BY <1>11 DEF WriteKey
<1>12. CASE WriteFails /\ UNCHANGED <<calls, seen>>
  BY <1>12 DEF WriteFails, Fault
<1>13. CASE NewProxy /\ UNCHANGED <<calls, seen>>
  BY <1>13 DEF NewProxy
<1>14. CASE StartAutoCleanup /\ UNCHANGED <<calls, seen>>
  BY <1>14 DEF StartAutoCleanup, Fault
<1>15. CASE Die
  BY <1>15, Bounds DEF Die
<1>16. CASE Exit
  BY <1>16 DEF Exit, Ends
<1>17. CASE RemoveFile /\ UNCHANGED <<calls, seen>>
  BY <1>17 DEF RemoveFile
<1>18. ASSUME NEW h \in Handlers, Change(h) PROVE CallTypes'
  <2>1. dbRules' \in 0 .. MaxChanges
    BY <1>18, Bounds DEF Change, DiskTypes
  <2>. QED
    BY <1>18, <2>1 DEF Change
<1>19. ASSUME NEW h \in Handlers, List(h) PROVE CallTypes'
  <2>1. CASE /\ got' = [got EXCEPT ![h] = dbRules] /\ job' = [job EXCEPT ![h] = "set"]
             /\ UNCHANGED <<acked, mine>>
    <3>1. UNCHANGED <<want, overtaken, crossed>>
      BY <1>19 DEF List
    <3>. QED
      BY <2>1, <3>1 DEF DiskTypes
  <2>2. CASE Answer(h)
    BY <1>19, <2>2, Bounds DEF List, Answer
  <2>. QED
    BY <1>19, <2>1, <2>2 DEF List
<1>20. ASSUME NEW h \in Handlers, Set(h) PROVE CallTypes'
  <2>1. overtaken' \in BOOLEAN /\ crossed' \in BOOLEAN
    BY <1>20 DEF Set
  <2>. QED
    BY <1>20, <2>1, Bounds DEF Set, Answer
<1>21. ASSUME NEW h \in Handlers, SetMode(h) PROVE CallTypes'
  BY <1>21 DEF SetMode
<1>22. ASSUME NEW h \in Handlers, SaveMode(h) PROVE CallTypes'
  <2>1. overtaken' \in BOOLEAN /\ crossed' \in BOOLEAN
    BY <1>22 DEF SaveMode
  <2>. QED
    BY <1>22, <2>1, Bounds DEF SaveMode
<1>23. CASE UNCHANGED vars
  BY <1>23
<1>. QED
  BY <1>1, <1>2, <1>3, <1>4, <1>5, <1>6, <1>7, <1>8, <1>9, <1>10, <1>11, <1>12, <1>13, <1>14, <1>15, <1>16, <1>17, <1>18, <1>19, <1>20, <1>21, <1>22, <1>23 DEF Next, StartStep, Main, Call

\* Every step keeps the types.
LEMMA TypeStep ==
  ASSUME TypeOK, SchemaInv, AuthorityInv, [Next]_vars
  PROVE  TypeOK'
<1>1. TypeOK' <=> DiskTypes' /\ MainTypes' /\ CallTypes'
  BY DEF TypeOK, BootTypeOK, DiskTypes, MainTypes, CallTypes
<1>. QED
  BY <1>1, TypeParts, DiskStep, MainStep, CallStep

\* A call is under way only while the program serves.
LEMMA CallsStep ==
  ASSUME TypeOK, CallsNeedProgram, [Next]_vars
  PROVE  CallsNeedProgram'
<1> USE DEF CallsNeedProgram, TypeOK, vars, bootVars, schema, settings, files, memory, calls, seen
<1>1. CASE Boot /\ UNCHANGED <<calls, seen>>
  BY <1>1 DEF Boot
<1>2. CASE Apply /\ UNCHANGED <<calls, seen>>
  BY <1>2 DEF Apply, StatementErrors, Fault
<1>3. CASE Record /\ UNCHANGED <<calls, seen>>
  BY <1>3 DEF Record, Fault
<1>4. CASE Migrated /\ UNCHANGED <<calls, seen>>
  BY <1>4 DEF Migrated
<1>5. CASE LoadMode /\ UNCHANGED <<calls, seen>>
  BY <1>5 DEF LoadMode, Fault
<1>6. CASE LoadGate
  BY <1>6 DEF LoadGate, LoadRules, Fault
<1>7. CASE ReadCA /\ UNCHANGED <<calls, seen>>
  BY <1>7 DEF ReadCA, Fault, NewPair, File
<1>8. CASE CutCert /\ UNCHANGED <<calls, seen>>
  BY <1>8 DEF CutCert
<1>9. CASE WriteCert /\ UNCHANGED <<calls, seen>>
  BY <1>9 DEF WriteCert
<1>10. CASE CutKey /\ UNCHANGED <<calls, seen>>
  BY <1>10 DEF CutKey
<1>11. CASE WriteKey /\ UNCHANGED <<calls, seen>>
  BY <1>11 DEF WriteKey
<1>12. CASE WriteFails /\ UNCHANGED <<calls, seen>>
  BY <1>12 DEF WriteFails, Fault
<1>13. CASE NewProxy /\ UNCHANGED <<calls, seen>>
  BY <1>13 DEF NewProxy
<1>14. CASE StartAutoCleanup /\ UNCHANGED <<calls, seen>>
  BY <1>14 DEF StartAutoCleanup, Fault
<1>15. CASE Die
  BY <1>15 DEF Die, Crash, Ends, Fault
<1>16. CASE Exit
  BY <1>16 DEF Exit, Ends, Idle
<1>17. CASE RemoveFile /\ UNCHANGED <<calls, seen>>
  BY <1>17 DEF RemoveFile
<1>18. ASSUME NEW h \in Handlers, Change(h) PROVE CallsNeedProgram'
  BY <1>18 DEF Change
<1>19. ASSUME NEW h \in Handlers, List(h) PROVE CallsNeedProgram'
  BY <1>19 DEF List, Answer, Fault
<1>20. ASSUME NEW h \in Handlers, Set(h) PROVE CallsNeedProgram'
  BY <1>20 DEF Set, Answer
<1>21. ASSUME NEW h \in Handlers, SetMode(h) PROVE CallsNeedProgram'
  BY <1>21 DEF SetMode
<1>22. ASSUME NEW h \in Handlers, SaveMode(h) PROVE CallsNeedProgram'
  BY <1>22 DEF SaveMode, Fault
<1>23. CASE UNCHANGED vars
  BY <1>23
<1>. QED
  BY <1>1, <1>2, <1>3, <1>4, <1>5, <1>6, <1>7, <1>8, <1>9, <1>10, <1>11, <1>12, <1>13, <1>14, <1>15, <1>16, <1>17, <1>18, <1>19, <1>20, <1>21, <1>22, <1>23 DEF Next, StartStep, Main, Call

-----------------------------------------------------------------------------
(***************************************************************************)
(* The schema                                                              *)
(***************************************************************************)

\* Every step keeps the record of the migrations true.
LEMMA SchemaStep ==
  ASSUME TypeOK, CallsNeedProgram, SchemaInv, [Next]_vars
  PROVE  SchemaInv'
<1> USE DEF TypeOK, BootTypeOK, CallsNeedProgram, Versions, SchemaInv, vars, bootVars, schema, settings, files, memory, calls, seen
<1>1. CASE Boot /\ UNCHANGED <<calls, seen>>
  BY <1>1, NewestOfRange, StartupAssumption DEF Boot
<1>2. CASE Apply /\ UNCHANGED <<calls, seen>>
  <2>1. done' = done \cup {at} \/ (done' = done /\ (pc' = "record" => at \in done))
    BY <1>2 DEF Apply, StatementErrors, IsDuplicateColumnError
  <2>2. (pc' = "record" /\ UNCHANGED at) \/ pc' = "down"
    BY <1>2 DEF Apply
  <2>3. PICK n \in 0 .. Len(Migrations) : recorded = 1 .. n /\ at = n + 1
    BY <1>2 DEF Apply
  <2>4. UNCHANGED recorded /\ at \in Versions
    BY <1>2 DEF Apply
  <2>. QED
    BY <2>1, <2>2, <2>3, <2>4
<1>3. CASE Record /\ UNCHANGED <<calls, seen>>
  <2>1. PICK n \in 0 .. Len(Migrations) : recorded = 1 .. n /\ at = n + 1
    BY <1>3 DEF Record
  <2>2. at \in done /\ at \in 1 .. Len(Migrations) /\ UNCHANGED done
    BY <1>3 DEF Record
  <2>3. CASE pc' = "down" /\ UNCHANGED recorded
    BY <2>1, <2>2, <2>3
  <2>4. CASE recorded' = recorded \cup {at} /\ at' = at + 1 /\ pc' = "migrate"
    <3>1. n + 1 \in 0 .. Len(Migrations) /\ recorded' = 1 .. (n + 1) /\ at' = (n + 1) + 1
      BY <2>1, <2>2, <2>4, LenNat
    <3>. QED
      BY <2>2, <2>4, <3>1
  <2>. QED
    BY <1>3, <2>3, <2>4 DEF Record
<1>4. CASE Migrated /\ UNCHANGED <<calls, seen>>
  <2>1. PICK n \in 0 .. Len(Migrations) : recorded = 1 .. n /\ at = n + 1
    BY <1>4 DEF Migrated
  <2>2. recorded = Versions
    BY <1>4, <2>1, LenNat DEF Migrated
  <2>. QED
    BY <1>4, <2>1, <2>2 DEF Migrated
<1>5. CASE LoadMode /\ UNCHANGED <<calls, seen>>
  BY <1>5, StartupAssumption DEF LoadMode, Fault
<1>6. CASE LoadGate
  BY <1>6, StartupAssumption DEF LoadGate, LoadRules, Fault
<1>7. CASE ReadCA /\ UNCHANGED <<calls, seen>>
  BY <1>7, StartupAssumption DEF ReadCA, Fault, NewPair, File
<1>8. CASE CutCert /\ UNCHANGED <<calls, seen>>
  BY <1>8, StartupAssumption DEF CutCert
<1>9. CASE WriteCert /\ UNCHANGED <<calls, seen>>
  BY <1>9, StartupAssumption DEF WriteCert
<1>10. CASE CutKey /\ UNCHANGED <<calls, seen>>
  BY <1>10, StartupAssumption DEF CutKey
<1>11. CASE WriteKey /\ UNCHANGED <<calls, seen>>
  BY <1>11, StartupAssumption DEF WriteKey
<1>12. CASE WriteFails /\ UNCHANGED <<calls, seen>>
  BY <1>12, StartupAssumption DEF WriteFails, Fault
<1>13. CASE NewProxy /\ UNCHANGED <<calls, seen>>
  BY <1>13, StartupAssumption DEF NewProxy
<1>14. CASE StartAutoCleanup /\ UNCHANGED <<calls, seen>>
  BY <1>14, StartupAssumption DEF StartAutoCleanup, Fault
<1>15. CASE Die
  BY <1>15, StartupAssumption DEF Die, Crash, Ends, Fault
<1>16. CASE Exit
  BY <1>16, StartupAssumption DEF Exit, Ends
<1>17. CASE RemoveFile /\ UNCHANGED <<calls, seen>>
  BY <1>17, StartupAssumption DEF RemoveFile
<1>18. ASSUME NEW h \in Handlers, Change(h) PROVE SchemaInv'
  BY <1>18, StartupAssumption DEF Change
<1>19. ASSUME NEW h \in Handlers, List(h) PROVE SchemaInv'
  BY <1>19, StartupAssumption DEF List, Answer, Fault
<1>20. ASSUME NEW h \in Handlers, Set(h) PROVE SchemaInv'
  BY <1>20, StartupAssumption DEF Set, Answer
<1>21. ASSUME NEW h \in Handlers, SetMode(h) PROVE SchemaInv'
  BY <1>21, StartupAssumption DEF SetMode
<1>22. ASSUME NEW h \in Handlers, SaveMode(h) PROVE SchemaInv'
  BY <1>22, StartupAssumption DEF SaveMode, Fault
<1>23. CASE UNCHANGED vars
  BY <1>23
<1>. QED
  BY <1>1, <1>2, <1>3, <1>4, <1>5, <1>6, <1>7, <1>8, <1>9, <1>10, <1>11, <1>12, <1>13, <1>14, <1>15, <1>16, <1>17, <1>18, <1>19, <1>20, <1>21, <1>22, <1>23 DEF Next, StartStep, Main, Call

-----------------------------------------------------------------------------
(***************************************************************************)
(* The certificate authority                                               *)
(***************************************************************************)

\* Every step keeps two files that are not torn a pair.
LEMMA AuthorityStep ==
  ASSUME TypeOK, CallsNeedProgram, AuthorityInv, [Next]_vars
  PROVE  AuthorityInv'
<1> USE DEF TypeOK, BootTypeOK, CallsNeedProgram, AuthorityInv, File, vars, bootVars, schema, settings, files, memory, calls, seen
<1>1. CASE Boot /\ UNCHANGED <<calls, seen>>
  BY <1>1, StartupAssumption DEF Boot
<1>2. CASE Apply /\ UNCHANGED <<calls, seen>>
  BY <1>2, StartupAssumption DEF Apply, StatementErrors, Fault
<1>3. CASE Record /\ UNCHANGED <<calls, seen>>
  BY <1>3, StartupAssumption DEF Record, Fault
<1>4. CASE Migrated /\ UNCHANGED <<calls, seen>>
  BY <1>4, StartupAssumption DEF Migrated
<1>5. CASE LoadMode /\ UNCHANGED <<calls, seen>>
  BY <1>5, StartupAssumption DEF LoadMode, Fault
<1>6. CASE LoadGate
  BY <1>6, StartupAssumption DEF LoadGate, LoadRules, Fault
<1>7. CASE ReadCA /\ UNCHANGED <<calls, seen>>
  BY <1>7, StartupAssumption DEF ReadCA, Fault, NewPair, File
<1>8. CASE CutCert /\ UNCHANGED <<calls, seen>>
  BY <1>8, StartupAssumption DEF CutCert
<1>9. CASE WriteCert /\ UNCHANGED <<calls, seen>>
  BY <1>9, StartupAssumption DEF WriteCert
<1>10. CASE CutKey /\ UNCHANGED <<calls, seen>>
  BY <1>10, StartupAssumption DEF CutKey
<1>11. CASE WriteKey /\ UNCHANGED <<calls, seen>>
  BY <1>11, StartupAssumption DEF WriteKey
<1>12. CASE WriteFails /\ UNCHANGED <<calls, seen>>
  BY <1>12, StartupAssumption DEF WriteFails, Fault
<1>13. CASE NewProxy /\ UNCHANGED <<calls, seen>>
  BY <1>13, StartupAssumption DEF NewProxy
<1>14. CASE StartAutoCleanup /\ UNCHANGED <<calls, seen>>
  BY <1>14, StartupAssumption DEF StartAutoCleanup, Fault
<1>15. CASE Die
  BY <1>15, StartupAssumption DEF Die, Crash, Ends, Fault
<1>16. CASE Exit
  BY <1>16, StartupAssumption DEF Exit, Ends
<1>17. CASE RemoveFile /\ UNCHANGED <<calls, seen>>
  BY <1>17, StartupAssumption DEF RemoveFile
<1>18. ASSUME NEW h \in Handlers, Change(h) PROVE AuthorityInv'
  BY <1>18, StartupAssumption DEF Change
<1>19. ASSUME NEW h \in Handlers, List(h) PROVE AuthorityInv'
  BY <1>19, StartupAssumption DEF List, Answer, Fault
<1>20. ASSUME NEW h \in Handlers, Set(h) PROVE AuthorityInv'
  BY <1>20, StartupAssumption DEF Set, Answer
<1>21. ASSUME NEW h \in Handlers, SetMode(h) PROVE AuthorityInv'
  BY <1>21, StartupAssumption DEF SetMode
<1>22. ASSUME NEW h \in Handlers, SaveMode(h) PROVE AuthorityInv'
  BY <1>22, StartupAssumption DEF SaveMode, Fault
<1>23. CASE UNCHANGED vars
  BY <1>23
<1>. QED
  BY <1>1, <1>2, <1>3, <1>4, <1>5, <1>6, <1>7, <1>8, <1>9, <1>10, <1>11, <1>12, <1>13, <1>14, <1>15, <1>16, <1>17, <1>18, <1>19, <1>20, <1>21, <1>22, <1>23 DEF Next, StartStep, Main, Call

-----------------------------------------------------------------------------
(***************************************************************************)
(* The rules and the mode                                                  *)
(***************************************************************************)

\* The numbers the rules are about.
RuleTypes ==
    /\ dbRules \in Nat /\ memRules \in Nat /\ acked \in Nat
    /\ mine \in [Handlers -> Nat] /\ got \in [Handlers -> Nat]
    /\ job \in [Handlers -> {"idle", "list", "set", "save"}]

LEMMA RuleTypesOK == TypeOK => RuleTypes
  BY Bounds DEF TypeOK, BootTypeOK, RuleTypes

\* Every step keeps what was answered for in the gate, or a reason why not.
LEMMA RulesStep ==
  ASSUME RuleTypes, RulesInv, [Next]_vars
  PROVE  RulesInv'
<1> USE DEF RuleTypes, RulesInv, RulesLoaded, vars, bootVars, schema, settings, files, memory, calls, seen
<1>1. CASE Boot /\ UNCHANGED <<calls, seen>>
  BY <1>1 DEF Boot
<1>2. CASE Apply /\ UNCHANGED <<calls, seen>>
  BY <1>2 DEF Apply, StatementErrors, Fault
<1>3. CASE Record /\ UNCHANGED <<calls, seen>>
  BY <1>3 DEF Record, Fault
<1>4. CASE Migrated /\ UNCHANGED <<calls, seen>>
  BY <1>4 DEF Migrated
<1>5. CASE LoadMode /\ UNCHANGED <<calls, seen>>
  BY <1>5 DEF LoadMode, Fault
<1>6. CASE LoadGate
  BY <1>6 DEF LoadGate, LoadRules, Fault
<1>7. CASE ReadCA /\ UNCHANGED <<calls, seen>>
  BY <1>7 DEF ReadCA, Fault, NewPair, File
<1>8. CASE CutCert /\ UNCHANGED <<calls, seen>>
  BY <1>8 DEF CutCert
<1>9. CASE WriteCert /\ UNCHANGED <<calls, seen>>
  BY <1>9 DEF WriteCert
<1>10. CASE CutKey /\ UNCHANGED <<calls, seen>>
  BY <1>10 DEF CutKey
<1>11. CASE WriteKey /\ UNCHANGED <<calls, seen>>
  BY <1>11 DEF WriteKey
<1>12. CASE WriteFails /\ UNCHANGED <<calls, seen>>
  BY <1>12 DEF WriteFails, Fault
<1>13. CASE NewProxy /\ UNCHANGED <<calls, seen>>
  BY <1>13 DEF NewProxy
<1>14. CASE StartAutoCleanup /\ UNCHANGED <<calls, seen>>
  BY <1>14 DEF StartAutoCleanup, Fault
<1>15. CASE Die
  BY <1>15 DEF Die, Crash, Ends, Fault
<1>16. CASE Exit
  BY <1>16 DEF Exit, Ends
<1>17. CASE RemoveFile /\ UNCHANGED <<calls, seen>>
  BY <1>17 DEF RemoveFile
<1>18. ASSUME NEW h \in Handlers, Change(h) PROVE RulesInv'
  BY <1>18 DEF Change
<1>19. ASSUME NEW h \in Handlers, List(h) PROVE RulesInv'
  <2>1. UNCHANGED <<pc, dbRules, memRules, overtaken>>
    BY <1>19 DEF List
  <2>2. CASE got' = [got EXCEPT ![h] = dbRules] /\ job' = [job EXCEPT ![h] = "set"]
               /\ UNCHANGED <<degraded, acked, mine>>
    BY <2>1, <2>2
  <2>3. CASE degraded' = degraded \cup {"rules"} /\ Answer(h)
    <3>1. acked' <= dbRules
      BY <2>3 DEF Answer
    <3>2. \A i \in Handlers : /\ mine'[i] <= dbRules /\ got'[i] <= dbRules
                              /\ job'[i] = "set" => mine'[i] <= got'[i]
      BY <2>3 DEF Answer
    <3>3. "rules" \in degraded'
      BY <2>3
    <3>4. acked' <= dbRules'
      BY <2>1, <3>1
    <3>5. \A i \in Handlers : /\ mine'[i] <= dbRules' /\ got'[i] <= dbRules'
                              /\ job'[i] = "set" => mine'[i] <= got'[i]
      BY <2>1, <3>2
    <3>. QED
      BY <3>3, <3>4, <3>5
  <2>. QED
    BY <1>19, <2>2, <2>3 DEF List
<1>20. ASSUME NEW h \in Handlers, Set(h) PROVE RulesInv'
  <2>1. UNCHANGED <<pc, dbRules>> /\ memRules' = got[h]
    BY <1>20 DEF Set
  <2>2. acked' <= dbRules
    BY <1>20 DEF Set, Answer
  <2>3. \A i \in Handlers : /\ mine'[i] <= dbRules /\ got'[i] <= dbRules
                            /\ job'[i] = "set" => mine'[i] <= got'[i]
    BY <1>20 DEF Set, Answer
  <2>4. RulesLoaded => memRules' >= acked' \/ overtaken' \/ "rules" \in degraded'
    <3>1. mine[h] <= got[h] /\ got[h] <= dbRules
      BY <1>20 DEF Set
    <3>2. CASE got[h] = dbRules
      BY <1>20, <2>1, <2>2, <3>2
    <3>3. CASE got[h] # dbRules
      <4>1. UNCHANGED degraded /\ (overtaken \/ got[h] < memRules => overtaken')
        BY <1>20, <3>3 DEF Set
      <4>2. acked' = acked \/ acked' = mine[h]
        BY <1>20 DEF Set, Answer
      <4>. QED
        BY <2>1, <3>1, <4>1, <4>2
    <3>. QED
      BY <3>2, <3>3
  <2>5. acked' <= dbRules' /\ (RulesLoaded' => RulesLoaded)
    BY <2>1, <2>2
  <2>6. \A i \in Handlers : /\ mine'[i] <= dbRules' /\ got'[i] <= dbRules'
                            /\ job'[i] = "set" => mine'[i] <= got'[i]
    BY <2>1, <2>3
  <2>7. RulesLoaded' => memRules' >= acked' \/ overtaken' \/ "rules" \in degraded'
    BY <2>4, <2>5
  <2>. QED
    BY <2>5, <2>6, <2>7
<1>21. ASSUME NEW h \in Handlers, SetMode(h) PROVE RulesInv'
  BY <1>21 DEF SetMode
<1>22. ASSUME NEW h \in Handlers, SaveMode(h) PROVE RulesInv'
  BY <1>22 DEF SaveMode, Fault
<1>23. CASE UNCHANGED vars
  BY <1>23
<1>. QED
  BY <1>1, <1>2, <1>3, <1>4, <1>5, <1>6, <1>7, <1>8, <1>9, <1>10, <1>11, <1>12, <1>13, <1>14, <1>15, <1>16, <1>17, <1>18, <1>19, <1>20, <1>21, <1>22, <1>23 DEF Next, StartStep, Main, Call

\* Every step keeps the two modes the same, or a reason why not.
LEMMA ModeStep ==
  ASSUME TypeOK, CallsNeedProgram, SchemaInv, ModeInv, [Next]_vars
  PROVE  ModeInv'
<1> USE DEF TypeOK, BootTypeOK, CallsNeedProgram, Versions, Modes, ModeInv, vars, bootVars, schema, settings, files, memory, calls, seen
<1>1. CASE Boot /\ UNCHANGED <<calls, seen>>
  BY <1>1, StartupAssumption, RuleAssumption DEF Boot
<1>2. CASE Apply /\ UNCHANGED <<calls, seen>>
  BY <1>2, StartupAssumption, RuleAssumption DEF Apply, StatementErrors, Fault
<1>3. CASE Record /\ UNCHANGED <<calls, seen>>
  BY <1>3, StartupAssumption, RuleAssumption DEF Record, Fault
<1>4. CASE Migrated /\ UNCHANGED <<calls, seen>>
  BY <1>4, StartupAssumption, RuleAssumption DEF Migrated
<1>5. CASE LoadMode /\ UNCHANGED <<calls, seen>>
  BY <1>5, StartupAssumption, RuleAssumption DEF LoadMode, SchemaInv, Fault
<1>6. CASE LoadGate
  BY <1>6, StartupAssumption, RuleAssumption DEF LoadGate, LoadRules, Fault
<1>7. CASE ReadCA /\ UNCHANGED <<calls, seen>>
  BY <1>7, StartupAssumption, RuleAssumption DEF ReadCA, Fault, NewPair, File
<1>8. CASE CutCert /\ UNCHANGED <<calls, seen>>
  BY <1>8, StartupAssumption, RuleAssumption DEF CutCert
<1>9. CASE WriteCert /\ UNCHANGED <<calls, seen>>
  BY <1>9, StartupAssumption, RuleAssumption DEF WriteCert
<1>10. CASE CutKey /\ UNCHANGED <<calls, seen>>
  BY <1>10, StartupAssumption, RuleAssumption DEF CutKey
<1>11. CASE WriteKey /\ UNCHANGED <<calls, seen>>
  BY <1>11, StartupAssumption, RuleAssumption DEF WriteKey
<1>12. CASE WriteFails /\ UNCHANGED <<calls, seen>>
  BY <1>12, StartupAssumption, RuleAssumption DEF WriteFails, Fault
<1>13. CASE NewProxy /\ UNCHANGED <<calls, seen>>
  BY <1>13, StartupAssumption, RuleAssumption DEF NewProxy
<1>14. CASE StartAutoCleanup /\ UNCHANGED <<calls, seen>>
  BY <1>14, StartupAssumption, RuleAssumption DEF StartAutoCleanup, Fault
<1>15. CASE Die
  BY <1>15, StartupAssumption, RuleAssumption DEF Die, Crash, Ends, Fault
<1>16. CASE Exit
  BY <1>16, StartupAssumption, RuleAssumption DEF Exit, Ends
<1>17. CASE RemoveFile /\ UNCHANGED <<calls, seen>>
  BY <1>17, StartupAssumption, RuleAssumption DEF RemoveFile
<1>18. ASSUME NEW h \in Handlers, Change(h) PROVE ModeInv'
  BY <1>18, StartupAssumption, RuleAssumption DEF Change
<1>19. ASSUME NEW h \in Handlers, List(h) PROVE ModeInv'
  BY <1>19, StartupAssumption, RuleAssumption DEF List, Answer, Fault
<1>20. ASSUME NEW h \in Handlers, Set(h) PROVE ModeInv'
  BY <1>20, StartupAssumption, RuleAssumption DEF Set, Answer
<1>21. ASSUME NEW h \in Handlers, SetMode(h) PROVE ModeInv'
  BY <1>21, StartupAssumption, RuleAssumption DEF SetMode
<1>22. ASSUME NEW h \in Handlers, SaveMode(h) PROVE ModeInv'
  BY <1>22, StartupAssumption, RuleAssumption DEF SaveMode, Fault
<1>23. CASE UNCHANGED vars
  BY <1>23
<1>. QED
  BY <1>1, <1>2, <1>3, <1>4, <1>5, <1>6, <1>7, <1>8, <1>9, <1>10, <1>11, <1>12, <1>13, <1>14, <1>15, <1>16, <1>17, <1>18, <1>19, <1>20, <1>21, <1>22, <1>23 DEF Next, StartStep, Main, Call

-----------------------------------------------------------------------------
(***************************************************************************)
(* Theorems                                                                *)
(***************************************************************************)
\* The start with nothing on disk.
LEMMA InitIInv == Init => IInv
<1> SUFFICES ASSUME Init PROVE IInv
  OBVIOUS
<1> USE DEF Init, BootInit
<1>1. TypeOK
  <2>1. torn \in BOOLEAN /\ mitm \in BOOLEAN /\ overtaken \in BOOLEAN /\ crossed \in BOOLEAN
    OBVIOUS
  <2>2. DiskTypes
    BY <2>1, Bounds DEF DiskTypes, File
  <2>3. MainTypes
    BY <2>1, Bounds, LenNat DEF MainTypes, Steps
  <2>4. CallTypes
    BY <2>1, Bounds DEF CallTypes, Modes
  <2>. QED
    BY <2>2, <2>3, <2>4, TypeParts
<1>2. SchemaInv
  <2>1. recorded = 1 .. 0 /\ 0 \in 0 .. Len(Migrations)
    BY LenNat
  <2>. QED
    BY <2>1 DEF SchemaInv
<1>3. CallsNeedProgram /\ AuthorityInv /\ RulesInv /\ ModeInv
  BY DEF CallsNeedProgram, AuthorityInv, RulesInv, RulesLoaded, ModeInv
<1>. QED
  BY <1>1, <1>2, <1>3 DEF IInv

\* One step of main or of a call keeps every part.
LEMMA StepIInv == IInv /\ [Next]_vars => IInv'
  BY RuleTypesOK, TypeStep, CallsStep, SchemaStep, AuthorityStep, RulesStep, ModeStep DEF IInv

\* store.New, LoadOrGenerateCA and the rule handlers: the invariant behind the
\* theorems below.
THEOREM Invariance == Spec => []IInv
  BY InitIInv, StepIInv, PTL DEF Spec

\* store.New and LoadOrGenerateCA: the program that serves has the whole schema,
\* and decrypts HTTPS unless its two files are torn or could not be written,
\* whenever earlier starts have died.
THEOREM StartIsSound == Spec => []Inv
<1>1. IInv => SchemaIsComplete
  BY NewestOfRange DEF IInv, SchemaInv, SchemaIsComplete
<1>2. IInv => TypeOK /\ MitmUnlessTorn
  BY DEF IInv, AuthorityInv, MitmUnlessTorn
<1>3. IInv => Inv
  BY <1>1, <1>2 DEF Inv
<1>. QED
  BY <1>3, Invariance, PTL

\* handleInterceptRules: what has been answered for is enforced, unless a list
\* could not be read or an older one overtook it, for any number of calls.
THEOREM RulesAreEnforced == Spec => []RulesEnforced
<1>1. IInv => RulesEnforced
  BY DEF IInv, RulesInv, RulesLoaded, RulesEnforced
<1>. QED
  BY <1>1, Invariance, PTL

\* handleInterceptMode: with no call under way a restart loads the mode in force,
\* unless a write failed or two calls crossed.
THEOREM ModeIsKept == Spec => []ModeSurvives
<1>1. IInv => ModeSurvives
  BY DEF IInv, ModeInv, ModeSurvives, Idle
<1>. QED
  BY <1>1, Invariance, PTL

\* A step that begins or ends outside a serving program keeps the settings.
LEMMA SettingsStep ==
  ASSUME IInv, [Next]_vars, pc # "up" \/ pc' # "up"
  PROVE  /\ retention # None => retention' = retention
         /\ dbMode # None => dbMode' = dbMode
<1> USE DEF vars, bootVars, schema, settings, files, memory, calls, seen
<1>1. CASE Apply \/ StartAutoCleanup
  BY <1>1 DEF Apply, StartAutoCleanup
<1>2. CASE Boot \/ Record \/ Migrated \/ LoadMode \/ ReadCA \/ NewProxy
  BY <1>2 DEF Boot, Record, Migrated, LoadMode, ReadCA, NewProxy
<1>3. CASE CutCert \/ WriteCert \/ CutKey \/ WriteKey \/ WriteFails
  BY <1>3 DEF CutCert, WriteCert, CutKey, WriteKey, WriteFails
<1>4. CASE LoadGate \/ Die \/ Exit \/ RemoveFile
  BY <1>4 DEF LoadGate, LoadRules, Die, Crash, Exit, Ends, RemoveFile
<1>5. ASSUME NEW h \in Handlers, Call(h) PROVE FALSE
  BY <1>5 DEF IInv, CallsNeedProgram, Call, Change, List, Set, SetMode, SaveMode
<1>6. CASE UNCHANGED vars
  BY <1>6
<1>. QED
  BY <1>1, <1>2, <1>3, <1>4, <1>5, <1>6 DEF Next, StartStep, Main

\* startAutoCleanup and the migration of the default mode: no start overwrites a
\* setting that is there.
THEOREM SettingsAreKept == Spec => BootKeepsSettings
<1>1. IInv /\ [Next]_vars =>
        [pc # "up" \/ pc' # "up" =>
           /\ retention # None => retention' = retention
           /\ dbMode # None => dbMode' = dbMode]_bootVars
  BY SettingsStep
<1>. QED
  BY <1>1, Invariance, PTL DEF Spec, BootKeepsSettings
=============================================================================
