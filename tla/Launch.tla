------------------------------- MODULE Launch -------------------------------
(***************************************************************************)
(* A start of the application on one device, from the memory of            *)
(* bootstrapApp (apps/web/src/core/app.ts) over Database.migrate           *)
(* (packages/core/src/db/database.ts), LifeMentorApp.create and bootstrap  *)
(* (app.ts) and RecoveryService.startup (services/recovery.ts) to close(). *)
(* A process may die between any two statements.                           *)
(*                                                                         *)
(*   pc        what the start does next                                    *)
(*   disk      the schema version and the tables, as committed             *)
(*   open      the same inside the transaction of a migration              *)
(*   fresh     no device was registered when bootstrap began               *)
(*   prefs     how many of the default preferences are there               *)
(*   devices   the rows of devices: id and is_current                      *)
(*   refs      per row that is there, the rows its foreign keys name       *)
(*   journal   what change_log holds of the quarantine: rows with or       *)
(*             without their contents                                      *)
(*   todo      the violations repairForeignKeys has read                   *)
(*   checked   pages of the file are damaged; the result of the check      *)
(*   issues    the critical ones of the report                             *)
(*   stuck     operations are in flight in the sync queue                  *)
(*   flag, mark, snaps   last_daily_snapshot_day in the flags and in the   *)
(*             app state; the days that have a snapshot                    *)
(*   next      how many days back ensureUpToDate looks next                *)
(*   asOf      the day it is when ensureSnapshot begins                    *)
(*   baseline  the backup of the first launch exists                       *)
(*   engines   the sync engines with a running timer; services.sync; the   *)
(*             one the network wakes up                                    *)
(***************************************************************************)
EXTENDS Integers, FiniteSets

CONSTANTS
    Current,          \* CURRENT_SCHEMA_VERSION
    Preferences,      \* how many rows ensureDefaults inserts
    Cell,             \* the rows that may lie in the tables
    Keys,             \* per row, the rows its foreign keys name
    Loose,            \* the rows whose foreign keys are ON DELETE SET NULL
    Self, Stranger,   \* the device ids in devices
    Nowhere,          \* no transaction, no day, no engine
    LastDate,         \* bound: days
    MaxLaunches,      \* bound: starts
    MaxEngines        \* bound: sync engines made

(* A database has finitely many rows, and their foreign keys name rows.    *)
ASSUME LaunchAssumption ==
    /\ Current \in Nat /\ Nowhere \notin Nat
    /\ IsFiniteSet(Cell) /\ Keys \in [Cell -> SUBSET Cell]

VARIABLES pc, disk, open, fresh, prefs, devices, refs, journal, todo, checked, issues, stuck,
          date, flag, mark, snaps, next, asOf, baseline, engines, launches

schemaVars == <<disk, open>>
bootVars == <<fresh, prefs, devices, baseline>>
repairVars == <<refs, journal, todo, checked, issues>>
snapVars == <<flag, mark, snaps, next, asOf>>
launchVars == <<pc, schemaVars, bootVars, repairVars, stuck, date, snapVars, engines, launches>>

There == DOMAIN refs

-----------------------------------------------------------------------------
(* bootstrapApp makes one application, or one more when the last failed. *)
BootstrapApp ==
    /\ pc = "off" /\ launches < MaxLaunches
    /\ pc' = "migrate"
    /\ launches' = launches + 1
    /\ UNCHANGED <<schemaVars, bootVars, repairVars, stuck, date, snapVars, engines>>

(* Database.migrate: each pending migration in a transaction of its own.   *)
Refuse ==
    /\ pc = "migrate" /\ disk.version > Current
    /\ pc' = "off"
    /\ UNCHANGED <<schemaVars, bootVars, repairVars, stuck, date, snapVars, engines, launches>>

BeginMigration ==
    /\ pc = "migrate" /\ disk.version < Current /\ open = Nowhere
    /\ open' = [disk EXCEPT !.tables = @ + 1]
    /\ UNCHANGED <<pc, disk, bootVars, repairVars, stuck, date, snapVars, engines, launches>>

(* Mutant: the statements of a migration are committed before its version. *)
CommitTablesFirst ==
    /\ pc = "migrate" /\ open # Nowhere
    /\ IF disk.tables < open.tables
       THEN disk' = [disk EXCEPT !.tables = open.tables] /\ UNCHANGED open
       ELSE disk' = [disk EXCEPT !.version = @ + 1] /\ open' = Nowhere
    /\ UNCHANGED <<pc, bootVars, repairVars, stuck, date, snapVars, engines, launches>>

CommitMigration ==
    /\ pc = "migrate" /\ open # Nowhere
    /\ disk' = [open EXCEPT !.version = @ + 1] /\ open' = Nowhere
    /\ UNCHANGED <<pc, bootVars, repairVars, stuck, date, snapVars, engines, launches>>

Migrated ==
    /\ pc = "migrate" /\ disk.version = Current
    /\ pc' = "defaults"
    /\ fresh' = (devices = {})
    /\ UNCHANGED <<schemaVars, prefs, devices, baseline, repairVars, stuck, date, snapVars, engines, launches>>

-----------------------------------------------------------------------------
(* bootstrap *)

(* ensureDefaults does nothing when it finds a row, or inserts them all. *)
EnsureDefaults ==
    /\ pc = "defaults"
    /\ IF prefs = 0 THEN prefs' = 1 /\ pc' = "preferences" ELSE pc' = "register" /\ UNCHANGED prefs
    /\ UNCHANGED <<schemaVars, fresh, devices, baseline, repairVars, stuck, date, snapVars, engines, launches>>

InsertPreference ==
    /\ pc = "preferences"
    /\ IF prefs < Preferences THEN prefs' = prefs + 1 /\ UNCHANGED pc ELSE pc' = "register" /\ UNCHANGED prefs
    /\ UNCHANGED <<schemaVars, fresh, devices, baseline, repairVars, stuck, date, snapVars, engines, launches>>

RegisterDevice ==
    /\ pc = "register"
    /\ devices' = IF \E v \in devices : v.id = Self THEN devices ELSE devices \union {[id |-> Self, current |-> TRUE]}
    /\ pc' = "others"
    /\ UNCHANGED <<schemaVars, fresh, prefs, baseline, repairVars, stuck, date, snapVars, engines, launches>>

(* Two statements: is_current of the others, then that of this device. *)
MarkOthers ==
    /\ pc = "others"
    /\ devices' = {IF v.id = Self THEN v ELSE [v EXCEPT !.current = FALSE] : v \in devices}
    /\ pc' = "current"
    /\ UNCHANGED <<schemaVars, fresh, prefs, baseline, repairVars, stuck, date, snapVars, engines, launches>>

MarkCurrent ==
    /\ pc = "current"
    /\ devices' = {IF v.id = Self THEN [v EXCEPT !.current = TRUE] ELSE v : v \in devices}
    /\ pc' = "check"
    /\ UNCHANGED <<schemaVars, fresh, prefs, baseline, repairVars, stuck, date, snapVars, engines, launches>>

-----------------------------------------------------------------------------
(* RecoveryService.startup *)

Violations == {v \in Cell \X Cell : v[1] \in There /\ v[2] \in refs[v[1]] /\ v[2] \notin There}
IntegrityOk(damaged) == ~damaged /\ Violations = {}

CheckIntegrity ==
    /\ pc = "check"
    /\ checked' = [checked EXCEPT !.ok = IntegrityOk(checked.damaged)]
    /\ pc' = IF checked'.ok THEN "schema" ELSE "repair"
    /\ todo' = IF checked'.ok THEN {} ELSE Violations
    /\ issues' = {}
    /\ UNCHANGED <<schemaVars, bootVars, refs, journal, stuck, date, snapVars, engines, launches>>

(* What a DELETE of the row does to the rows below it. *)
Below(row) ==
    LET Owned(rows) == {c \in There \ Loose : refs[c] \intersect rows # {}}
        level[n \in 0..Cardinality(Cell)] ==
           IF n = 0 THEN {row} ELSE level[n - 1] \union Owned(level[n - 1])
    IN  level[Cardinality(Cell)]

AfterDelete(row) ==
    LET gone == Below(row) IN
    [c \in There \ gone |-> IF c \in Loose THEN refs[c] \ gone ELSE refs[c]]

(* Mutant: the orphan is deleted and not written down. *)
QuarantineSilently(v) ==
    /\ refs' = IF v[1] \in There THEN AfterDelete(v[1]) ELSE refs
    /\ UNCHANGED journal

(* One transaction: the journal entry, with the row if it is still there,  *)
(* and its deletion.                                                       *)
Quarantine(v) ==
    /\ journal' = journal \union {[row |-> v[1], whole |-> v[1] \in There]}
    /\ refs' = IF v[1] \in There THEN AfterDelete(v[1]) ELSE refs

RepairForeignKeys ==
    /\ pc = "repair"
    /\ IF todo = {} THEN pc' = "recheck" /\ UNCHANGED <<refs, journal, todo>>
       ELSE \E v \in todo : Quarantine(v) /\ todo' = todo \ {v} /\ UNCHANGED pc
    /\ UNCHANGED <<schemaVars, bootVars, checked, issues, stuck, date, snapVars, engines, launches>>

Recheck ==
    /\ pc = "recheck"
    /\ issues' = IF IntegrityOk(checked.damaged) THEN {} ELSE {"integrity"}
    /\ pc' = "schema"
    /\ UNCHANGED <<schemaVars, bootVars, refs, journal, todo, checked, stuck, date, snapVars, engines, launches>>

(* verifySchema finds the version migrate left; then resetStuckSync.        *)
ResetStuckSync ==
    /\ pc = "schema"
    /\ stuck' = FALSE
    /\ pc' = "snapshot"
    /\ UNCHANGED <<schemaVars, bootVars, repairVars, date, snapVars, engines, launches>>

(* ensureSnapshot and ensureUpToDate: the three days before today, the     *)
(* flag, the app state. A snapshot that cannot be made ends it.            *)
EnsureSnapshot ==
    /\ pc = "snapshot"
    /\ asOf' = date
    /\ next' = 1
    /\ pc' = IF flag = date THEN "backup" ELSE "days"
    /\ UNCHANGED <<schemaVars, bootVars, repairVars, stuck, date, flag, mark, snaps, engines, launches>>

CreateSnapshot ==
    /\ pc = "days" /\ next <= 3
    /\ \/ /\ snaps' = snaps \union {date - next}
          /\ next' = next + 1 /\ UNCHANGED pc
       \/ /\ date - next \notin snaps
          /\ pc' = "backup" /\ UNCHANGED <<snaps, next>>
    /\ UNCHANGED <<schemaVars, bootVars, repairVars, stuck, date, flag, mark, asOf, engines, launches>>

(* Mutant: the flag says the day is done when the first snapshot is there. *)
SetFlagEarly ==
    /\ pc = "days" /\ next > 1
    /\ flag' = asOf
    /\ pc' = "mark"
    /\ UNCHANGED <<schemaVars, bootVars, repairVars, stuck, date, mark, snaps, next, asOf, engines, launches>>

SetFlag ==
    /\ pc = "days" /\ next > 3
    /\ flag' = asOf
    /\ pc' = "mark"
    /\ UNCHANGED <<schemaVars, bootVars, repairVars, stuck, date, mark, snaps, next, asOf, engines, launches>>

SetState ==
    /\ pc = "mark"
    /\ mark' = asOf
    /\ pc' = "backup"
    /\ UNCHANGED <<schemaVars, bootVars, repairVars, stuck, date, flag, snaps, next, asOf, engines, launches>>

(* The rest of bootstrap and create: a backup that fails is only logged. *)
FirstLaunchBackup ==
    /\ pc = "backup"
    /\ baseline' \in IF fresh THEN {TRUE, baseline} ELSE {baseline}
    /\ pc' = "enable"
    /\ UNCHANGED <<schemaVars, fresh, prefs, devices, repairVars, stuck, date, snapVars, engines, launches>>

-----------------------------------------------------------------------------
(* enableSync starts the engine and subscribes it to the network, once. *)
Enabled(engine) ==
    [running |-> engines.running \union {engine}, service |-> engine,
     woken |-> IF engines.woken = Nowhere THEN engine ELSE engines.woken, made |-> engines.made + 1]

EnableSync ==
    /\ pc = "enable" /\ engines.made < MaxEngines
    /\ engines' = Enabled(engines.made + 1)
    /\ pc' = "ready"
    /\ UNCHANGED <<schemaVars, bootVars, repairVars, stuck, date, snapVars, launches>>

(* configureSync with a server URL, from a settings screen. *)
ConfigureSync ==
    /\ pc = "ready" /\ engines.made < MaxEngines
    /\ engines' = Enabled(engines.made + 1)
    /\ UNCHANGED <<pc, schemaVars, bootVars, repairVars, stuck, date, snapVars, launches>>

(* A push of the engine begins; close() stops the engine it knows of. *)
PushBegins ==
    /\ pc = "ready"
    /\ stuck' = TRUE
    /\ UNCHANGED <<pc, schemaVars, bootVars, repairVars, date, snapVars, engines, launches>>

CloseApp ==
    /\ pc = "ready"
    /\ engines' = [engines EXCEPT !.running = @ \ {engines.service}, !.service = Nowhere, !.woken = Nowhere]
    /\ pc' = "off"
    /\ UNCHANGED <<schemaVars, bootVars, repairVars, stuck, date, snapVars, launches>>

(* The process dies: with it the open transaction and every timer. *)
Die ==
    /\ pc # "off"
    /\ pc' = "off" /\ open' = Nowhere /\ todo' = {}
    /\ engines' = [engines EXCEPT !.running = {}, !.service = Nowhere, !.woken = Nowhere]
    /\ UNCHANGED <<disk, bootVars, refs, journal, checked, issues, stuck, date, snapVars, launches>>

Midnight ==
    /\ date < LastDate
    /\ date' = date + 1
    /\ UNCHANGED <<pc, schemaVars, bootVars, repairVars, stuck, snapVars, engines, launches>>

-----------------------------------------------------------------------------
(* A new database, one of this build, which may have lost rows or pages or *)
(* come with a restored backup of another device, or one of a newer build. *)
NewDatabase == disk = [version |-> 0, tables |-> 0] /\ devices = {} /\ prefs = 0 /\ refs = <<>> /\ ~checked.damaged
Used(build) ==
    /\ disk = [version |-> build, tables |-> build]
    /\ devices \in {{[id |-> Self, current |-> TRUE]}, {[id |-> Stranger, current |-> TRUE]}}
    /\ prefs = Preferences
    /\ \E rows \in SUBSET Cell : refs = [c \in rows |-> Keys[c]]

LaunchInit ==
    /\ checked \in [damaged : BOOLEAN, ok : {TRUE}]
    /\ NewDatabase \/ Used(Current) \/ (Used(Current + 1) /\ refs = <<>>)
    /\ baseline = (disk.version > 0)
    /\ pc = "off" /\ open = Nowhere /\ fresh = FALSE /\ journal = {} /\ todo = {} /\ issues = {}
    /\ stuck = (disk.version > 0)
    /\ date = 0 /\ flag = Nowhere /\ mark = Nowhere /\ snaps = {} /\ next = 1 /\ asOf = 0
    /\ engines = [running |-> {}, service |-> Nowhere, woken |-> Nowhere, made |-> 0] /\ launches = 0

LaunchNext ==
    \/ BootstrapApp \/ Refuse \/ BeginMigration \/ CommitMigration \/ Migrated
    \/ EnsureDefaults \/ InsertPreference \/ RegisterDevice \/ MarkOthers \/ MarkCurrent
    \/ CheckIntegrity \/ RepairForeignKeys \/ Recheck \/ ResetStuckSync
    \/ EnsureSnapshot \/ CreateSnapshot \/ SetFlag \/ SetState \/ FirstLaunchBackup
    \/ EnableSync \/ ConfigureSync \/ PushBegins \/ CloseApp \/ Die \/ Midnight

LaunchSpec == LaunchInit /\ [][LaunchNext]_launchVars

-----------------------------------------------------------------------------
(* Wherever a process died, the version on disk is that of the tables on   *)
(* disk; an application that is ready has the schema of its build, this    *)
(* device as the one current device, and no row whose foreign key names a  *)
(* row that is gone; what is critical about the file it reports.           *)
AReadyAppIsSound ==
    /\ disk.version = disk.tables
    /\ pc = "ready" =>
         /\ disk.version = Current
         /\ {v \in devices : v.current} = {[id |-> Self, current |-> TRUE]}
         /\ Violations = {}
         /\ checked.damaged => issues # {}

(* A row that named a missing row is in the journal with its contents when *)
(* the repair has deleted it, and the repair deletes no other row than     *)
(* those and what lies below one it has written down.                      *)
OrphansAreWrittenDown ==
    [][LET Written(c) == [row |-> c, whole |-> TRUE] \in journal' IN
       \A c \in There \ DOMAIN refs' :
         Written(c) \/ \E v \in todo : v[1] # c /\ c \in Below(v[1]) /\ Written(v[1])]_launchVars

(* The flag of a day means the three days before it have their snapshot,   *)
(* also when a process died or midnight passed in between.                 *)
TheFlagMeansSnapshots == flag = date => \A i \in 1..3 : date - i \in snaps

-----------------------------------------------------------------------------
(* What the comments and messages say and the code does not do. *)

(* bootstrap is "idempotent and crash-safe - it only writes what is        *)
(* missing": when it is through, what it writes is there.                  *)
BootstrapWritesWhatIsMissing == pc = "ready" => prefs = Preferences /\ baseline

(* "Each one is written to change_log with its full payload before         *)
(* deletion": no row disappears from the tables without that.              *)
NothingVanishesInTheRepair ==
    [][\A c \in There \ DOMAIN refs' : [row |-> c, whole |-> TRUE] \in journal']_launchVars

(* configureSync is "idempotent": one engine syncs the device.             *)
OneEngine == Cardinality(engines.running) <= 1

(* An app that says it is ready has whole tables, and its flag of the day  *)
(* stands for snapshots that exist, wherever earlier launches died.        *)
LaunchIsSound == AReadyAppIsSound /\ TheFlagMeansSnapshots
=============================================================================
