------------------------------ MODULE Startup ------------------------------
(***************************************************************************)
(* cmd/proxy/main.go: how the program comes up, what it finds on disk, and *)
(* what is left there when it dies at any step.                            *)
(*                                                                         *)
(* On disk are the database (the migrations done and recorded, the setting *)
(* intercept_mode, the interception rules, the setting retention_days) and *)
(* the two files of the certificate authority.  A statement is atomic: it  *)
(* is done or not when the process dies (the machine is taken to stay up:  *)
(* the database is opened with synchronous=OFF).  os.WriteFile is not: it  *)
(* cuts the file and then writes it.                                       *)
(*                                                                         *)
(* The rules are represented by the number of changes made to them: a list *)
(* of rules is the state of the table after so many changes.               *)
(***************************************************************************)
EXTENDS Naturals, Sequences, FiniteSetsExt

CONSTANTS
    Migrations,     \* the kinds of the versions 1, 2, ...: "create" (IF NOT
                    \* EXISTS), "mode" (the default mode), "column" (ADD COLUMN)
    Pairs,          \* certificates with their keys
    Days,           \* values of --cleanup-retention-days
    MaxFaults,      \* crashes and failed calls (bound)
    MaxChanges,     \* changes of the rules (bound)
    None

Versions == 1 .. Len(Migrations)
Modes == {"auto", "manual"}
File == Pairs \cup {"absent", "empty"}

ASSUME StartupAssumption ==
    /\ Migrations \in Seq({"create", "mode", "column"})
    /\ MaxFaults \in Nat /\ MaxChanges \in Nat
    /\ Pairs \cap {"absent", "empty"} = {}
    /\ None \notin Modes \cup Pairs \cup Days
    /\ \A c, k \in File : \E p \in Pairs : p \notin {c, k}

VARIABLES
    done,       \* versions whose statement has been executed
    recorded,   \* versions in schema_migrations
    dbMode,     \* the setting intercept_mode, None when there is no row
    dbRules,    \* changes made to intercept_rules
    retention,  \* the setting retention_days, None when there is no row
    cert, key,  \* ca.crt and ca.key
    pc,         \* the step of main; "down": no process; "up": serving
    at,         \* the migration migrate() is at
    pair,       \* the certificate and key GenerateCA has made
    memMode,    \* Interceptor.mode
    memRules,   \* Interceptor.rules
    mitm,       \* Server.mitmEnabled
    degraded,   \* what this process had to do without: "mode", "rules", "ca"
    torn,       \* the writing of the two files has begun and not ended
    faults      \* crashes and failed calls so far

schema   == <<done, recorded>>
settings == <<dbMode, dbRules, retention>>
files    == <<cert, key, torn>>
memory   == <<memMode, memRules, mitm, degraded>>
bootVars == <<schema, settings, files, pc, at, pair, memory, faults>>

Steps == {"migrate", "record", "mode", "rules", "ca", "cutCert", "writeCert",
          "cutKey", "writeKey", "proxy", "cleanup"}

Newest(vs) == IF vs = {} THEN 0 ELSE Max(vs)

BootTypeOK ==
    /\ done \subseteq Versions /\ recorded \subseteq Versions
    /\ dbMode \in Modes \cup {None}
    /\ dbRules \in 0 .. MaxChanges
    /\ retention \in Days \cup {None}
    /\ cert \in File /\ key \in File
    /\ pc \in Steps \cup {"down", "up"}
    /\ at \in 1 .. Len(Migrations) + 1
    /\ pair \in Pairs \cup {None}
    /\ memMode \in Modes \cup {None}
    /\ memRules \in 0 .. MaxChanges
    /\ mitm \in BOOLEAN /\ torn \in BOOLEAN
    /\ degraded \subseteq {"mode", "rules", "ca"}
    /\ faults \in 0 .. MaxFaults

\* Nothing is on disk before the first start.
BootInit ==
    /\ done = {} /\ recorded = {}
    /\ dbMode = None /\ dbRules = 0 /\ retention = None
    /\ cert = "absent" /\ key = "absent" /\ torn = FALSE
    /\ pc = "down" /\ at = 1 /\ pair = None
    /\ memMode = None /\ memRules = 0 /\ mitm = FALSE /\ degraded = {}
    /\ faults = 0

-----------------------------------------------------------------------------
(***************************************************************************)
(* What goes wrong                                                         *)
(***************************************************************************)
Fault == faults < MaxFaults /\ faults' = faults + 1

\* The process ends: what it had in memory is gone.
Ends ==
    /\ pc' = "down" /\ at' = 1 /\ pair' = None
    /\ memMode' = None /\ memRules' = 0 /\ mitm' = FALSE /\ degraded' = {}
    /\ UNCHANGED <<schema, settings, files>>

Crash == pc # "down" /\ Fault /\ Ends

\* Somebody deletes a file of the certificate directory.
RemoveFile ==
    /\ pc = "down"
    /\ \/ cert # "absent" /\ cert' = "absent" /\ UNCHANGED key
       \/ key # "absent" /\ key' = "absent" /\ UNCHANGED cert
    /\ UNCHANGED <<schema, settings, torn, pc, at, pair, memory, faults>>

(***************************************************************************)
(* store.New: the migrations                                               *)
(***************************************************************************)
\* schema_migrations is made if it is not there, and its MAX(version) read.
Boot ==
    /\ pc = "down"
    /\ pc' = "migrate"
    /\ at' = Newest(recorded) + 1
    /\ UNCHANGED <<schema, settings, files, pair, memory, faults>>

\* What the statement of a version may return.  The others can be repeated.
StatementErrors(v) ==
    IF Migrations[v] = "column" /\ v \in done
    THEN {"duplicate column"}
    ELSE {None, "disk full"}

\* Fault: a column that exists is an error.
IsDuplicateColumnError_Never(err) == err = "already exists"

IsDuplicateColumnError(err) == err \in {"duplicate column", "already exists"}

Apply ==
    /\ pc = "migrate" /\ at \in Versions
    /\ \E err \in StatementErrors(at) :
         /\ err = "disk full" => Fault
         /\ err # "disk full" => UNCHANGED faults
         /\ done' = IF err = None THEN done \cup {at} ELSE done
         /\ dbMode' = IF err = None /\ Migrations[at] = "mode" /\ dbMode = None
                      THEN "auto" ELSE dbMode
         /\ IF err = None \/ IsDuplicateColumnError(err)
            THEN pc' = "record" /\ UNCHANGED at
            ELSE pc' = "down" /\ at' = 1
    /\ UNCHANGED <<recorded, dbRules, retention, files, pair, memory>>

Record ==
    /\ pc = "record"
    /\ \/ /\ recorded' = recorded \cup {at}
          /\ at' = at + 1
          /\ pc' = "migrate"
          /\ UNCHANGED faults
       \/ Fault /\ pc' = "down" /\ at' = 1 /\ UNCHANGED recorded
    /\ UNCHANGED <<done, settings, files, pair, memory>>

Migrated ==
    /\ pc = "migrate" /\ at \notin Versions
    /\ pc' = "mode"
    /\ UNCHANGED <<schema, settings, files, at, pair, memory, faults>>

(***************************************************************************)
(* The interceptor                                                         *)
(***************************************************************************)
\* A failure is not looked at: the mode is "auto" then.
LoadMode ==
    /\ pc = "mode"
    /\ \/ /\ memMode' = IF dbMode = None THEN "auto" ELSE dbMode
          /\ UNCHANGED <<degraded, faults>>
       \/ Fault /\ memMode' = "auto" /\ degraded' = degraded \cup {"mode"}
    /\ pc' = "rules"
    /\ UNCHANGED <<schema, settings, files, at, pair, memRules, mitm>>

\* A failure is only logged: there are no rules then.
LoadRules ==
    /\ pc = "rules"
    /\ \/ memRules' = dbRules /\ UNCHANGED <<degraded, faults>>
       \/ Fault /\ degraded' = degraded \cup {"rules"} /\ UNCHANGED memRules
    /\ pc' = "ca"
    /\ UNCHANGED <<schema, settings, files, at, pair, memMode, mitm>>

(***************************************************************************)
(* LoadOrGenerateCA                                                        *)
(***************************************************************************)
\* GenerateCA: a pair unlike the ones on disk.
NewPair == CHOOSE p \in Pairs : p \notin {cert, key}

\* Fault: a certificate that is there is kept when only its key is missing.
ReadCA_KeepCert ==
    /\ pc = "ca"
    /\ \/ /\ cert # "absent" /\ key # "absent"
          /\ pc' = "proxy"
          /\ UNCHANGED <<pair, faults>>
       \/ /\ cert # "absent" /\ key = "absent"
          /\ pair' = NewPair
          /\ pc' = "cutKey"
          /\ UNCHANGED faults
       \/ /\ cert = "absent"
          /\ pair' = NewPair
          /\ pc' = "cutCert"
          /\ UNCHANGED faults
    /\ UNCHANGED <<schema, settings, files, at, memory>>

\* Two files that can be read are taken as they are; otherwise a new pair is
\* made for both.
ReadCA ==
    /\ pc = "ca"
    /\ \/ /\ cert # "absent" /\ key # "absent"
          /\ pc' = "proxy"
          /\ UNCHANGED <<pair, faults>>
       \/ /\ cert = "absent" \/ key = "absent" \/ faults < MaxFaults
          /\ IF cert = "absent" \/ key = "absent" THEN UNCHANGED faults ELSE Fault
          /\ pair' = NewPair
          /\ pc' = "cutCert"
    /\ UNCHANGED <<schema, settings, files, at, memory>>

CutCert ==
    /\ pc = "cutCert"
    /\ cert' = "empty" /\ torn' = TRUE
    /\ pc' = "writeCert"
    /\ UNCHANGED <<schema, settings, key, at, pair, memory, faults>>

WriteCert ==
    /\ pc = "writeCert"
    /\ cert' = pair
    /\ pc' = "cutKey"
    /\ UNCHANGED <<schema, settings, key, torn, at, pair, memory, faults>>

CutKey ==
    /\ pc = "cutKey"
    /\ key' = "empty"
    /\ pc' = "writeKey"
    /\ UNCHANGED <<schema, settings, cert, torn, at, pair, memory, faults>>

WriteKey ==
    /\ pc = "writeKey"
    /\ key' = pair /\ torn' = FALSE
    /\ pc' = "proxy" /\ pair' = None
    /\ UNCHANGED <<schema, settings, cert, at, memory, faults>>

\* A directory or file that cannot be made, cut or written: main goes on without.
WriteFails ==
    /\ pc \in {"cutCert", "writeCert", "cutKey", "writeKey"}
    /\ Fault
    /\ degraded' = degraded \cup {"ca"}
    /\ pc' = "proxy" /\ pair' = None
    /\ UNCHANGED <<schema, settings, files, at, memMode, memRules, mitm>>

(***************************************************************************)
(* The proxy and the automatic cleanup                                     *)
(***************************************************************************)
\* X509KeyPair refuses what does not belong together, and nobody is told.
NewProxy ==
    /\ pc = "proxy"
    /\ mitm' = ("ca" \notin degraded /\ cert \in Pairs /\ cert = key)
    /\ pc' = "cleanup"
    /\ UNCHANGED <<schema, settings, files, at, pair, memMode, memRules, degraded, faults>>

\* Fault: the flag overrules the setting at every start.
StartAutoCleanup_Always ==
    /\ pc = "cleanup"
    /\ retention' \in Days
    /\ pc' = "up"
    /\ UNCHANGED <<schema, dbMode, dbRules, files, at, pair, memory, faults>>

\* The flag becomes the setting when there is none.
StartAutoCleanup ==
    /\ pc = "cleanup"
    /\ \/ retention = None /\ retention' \in Days /\ UNCHANGED faults
       \/ retention # None /\ UNCHANGED <<retention, faults>>
       \/ Fault /\ UNCHANGED retention
    /\ pc' = "up"
    /\ UNCHANGED <<schema, dbMode, dbRules, files, at, pair, memory>>

\* What main does by itself until it serves, once it has been started.
Main ==
    \/ Apply \/ Record \/ Migrated
    \/ LoadMode
    \/ ReadCA \/ CutCert \/ WriteCert \/ CutKey \/ WriteKey \/ WriteFails
    \/ NewProxy \/ StartAutoCleanup

-----------------------------------------------------------------------------
(***************************************************************************)
(* Properties                                                              *)
(***************************************************************************)
\* migrate: what is recorded has been done, without gaps, and the program goes
\* on only with the whole schema, wherever earlier starts have died.
SchemaIsComplete ==
    /\ recorded \subseteq done
    /\ recorded = 1 .. Newest(recorded)
    /\ pc \notin {"down", "migrate", "record"} => done = Versions

\* LoadOrGenerateCA and proxy.New: the program decrypts HTTPS, unless it could
\* not write the two files, or one of the writings was never finished.
MitmUnlessTorn ==
    pc = "up" /\ ~mitm => torn \/ "ca" \in degraded

\* startAutoCleanup and the migration of the default mode: a start does not
\* overwrite a setting that is there.
BootKeepsSettings ==
    [][pc # "up" \/ pc' # "up" =>
         /\ retention # None => retention' = retention
         /\ dbMode # None => dbMode' = dbMode]_bootVars
=============================================================================
