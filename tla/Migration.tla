------------------------------ MODULE Migration ------------------------------
(***************************************************************************)
(* Schema upgrades (internal/storage/migrate.go, backup.go): the steps of  *)
(* Migrate, each of which is durable before the next begins, with the      *)
(* process stopping between any two of them, a step failing, and newer or  *)
(* older builds being installed.                                           *)
(*                                                                         *)
(* A migration's statements and its row in schema_migrations are one       *)
(* transaction, so applying one is a single step that either happens or    *)
(* does not.  The restore's file copy ends in a rename and is one step     *)
(* too.  What the tables hold is a number that grows with each write.      *)
(***************************************************************************)
EXTENDS Naturals, FiniteSets

CONSTANTS MaxVersion,    \* the newest build's schema version
          Keep,          \* DefaultBackupRetention
          Downgrades,    \* may an older build be installed
          MaxWrites,     \* bound: writes of the running program
          MaxSetbacks    \* bound: stops and failed migrations

ASSUME VersionAssumption == MaxVersion \in Nat \ {0}
ASSUME KeepAssumption == Keep \in Nat \ {0}
ASSUME DowngradesAssumption == Downgrades \in BOOLEAN
ASSUME BoundsAssumption == MaxWrites \in Nat /\ MaxSetbacks \in Nat

VARIABLES build,     \* CurrentSchemaVersion of the installed build
          db,        \* the database file
          backups,   \* the files of the backup directory
          clock,     \* time stamp of the newest backup
          pc,        \* where Migrate is
          from,      \* the version it found
          written,   \* history: what the tables held after the last write
          setbacks   \* bound's counter

vars == <<build, db, backups, clock, pc, from, written, setbacks>>

history == <<written, setbacks>>

\* marker: the version an upgrade under way is to reach, 0 without one
\* (migration_state, migration_to_version); last: the backup recorded in
\* last_backup_path, 0 without one.
Database == [version : 0..MaxVersion, data : Nat, marker : 0..MaxVersion, last : Nat]

Backup == [time : Nat, db : Database]

Steps == {"down", "restoring", "saving", "recording", "pruning", "marking",
          "applying", "reverting", "up"}

Init ==
    /\ build \in 1..MaxVersion
    /\ db = [version |-> 0, data |-> 0, marker |-> 0, last |-> 0]
    /\ backups = {} /\ clock = 0
    /\ pc = "down" /\ from = 0
    /\ written = 0 /\ setbacks = 0

-----------------------------------------------------------------------------
(* Migrate *)

Compatible == db.version = build

\* A current database is used as it is; a newer one is refused.
StartCurrent ==
    /\ pc = "down" /\ Compatible
    /\ pc' = "up"
    /\ UNCHANGED <<build, db, backups, clock, from, history>>

\* An older one is upgraded.  A fresh one has no data to save and no table to
\* keep a marker in.
Interrupted == db.version > 0 /\ db.marker # 0 /\ db.last # 0

StartUpgrade ==
    /\ pc = "down" /\ db.version < build
    /\ from' = db.version
    /\ pc' = IF Interrupted THEN "restoring"
             ELSE IF db.version > 0 THEN "saving" ELSE "applying"
    /\ UNCHANGED <<build, db, backups, clock, history>>

Restored(b) == b \in backups /\ b.time = db.last /\ db' = b.db

\* Mutant of AfterRestore: the restored version is not looked at again.
AfterRestoreDone(version) == "up"

AfterRestore(version) == IF version < build THEN "saving" ELSE "up"

\* The backup an interrupted upgrade recorded replaces the database.
Recover ==
    /\ pc = "restoring"
    /\ \E b \in backups : Restored(b) /\ from' = b.db.version
    /\ pc' = AfterRestore(from')
    /\ UNCHANGED <<build, backups, clock, history>>

\* VACUUM INTO a file of its own ...
Save ==
    /\ pc = "saving"
    /\ clock' = clock + 1
    /\ backups' = backups \cup {[time |-> clock', db |-> db]}
    /\ pc' = "recording"
    /\ UNCHANGED <<build, db, from, history>>

\* ... whose path is then written to the settings.
Record ==
    /\ pc = "recording"
    /\ db' = [db EXCEPT !.last = clock]
    /\ pc' = "pruning"
    /\ UNCHANGED <<build, backups, clock, from, history>>

\* File names sort by version and then by time.
Newer(b, c) ==
    \/ b.db.version > c.db.version
    \/ b.db.version = c.db.version /\ b.time > c.time

\* Mutant of Kept: the list is not reversed.
KeptOldest == {b \in backups : Cardinality({c \in backups : Newer(b, c)}) < Keep}

Kept == {b \in backups : Cardinality({c \in backups : Newer(c, b)}) < Keep}

\* Removing old files may fail, which is ignored.
Prune ==
    /\ pc = "pruning"
    /\ backups' \in {Kept, backups}
    /\ pc' = "marking"
    /\ UNCHANGED <<build, db, clock, from, history>>

Mark ==
    /\ pc = "marking"
    /\ db' = [db EXCEPT !.marker = build]
    /\ pc' = "applying"
    /\ UNCHANGED <<build, backups, clock, from, history>>

\* Mutant of NextVersion: a migration is passed over.
NextVersionSkips == db.version + 2

NextVersion == db.version + 1

Apply ==
    /\ pc = "applying" /\ db.version < build
    /\ db' = [db EXCEPT !.version = NextVersion]
    /\ UNCHANGED <<build, backups, clock, pc, from, history>>

\* The transaction is rolled back and the start refused, once the backup is back.
ApplyFails ==
    /\ pc = "applying" /\ db.version < build
    /\ setbacks < MaxSetbacks /\ setbacks' = setbacks + 1
    /\ pc' = IF from > 0 THEN "reverting" ELSE "down"
    /\ UNCHANGED <<build, db, backups, clock, from, written>>

Revert ==
    /\ pc = "reverting"
    /\ \E b \in backups : Restored(b)
    /\ pc' = "down"
    /\ UNCHANGED <<build, backups, clock, from, history>>

Clear ==
    /\ pc = "applying" /\ db.version = build
    /\ db' = [db EXCEPT !.marker = 0]
    /\ pc' = "up"
    /\ UNCHANGED <<build, backups, clock, from, history>>

-----------------------------------------------------------------------------
(* The program, the process, the operator *)

\* The plugin runs and writes.
Write ==
    /\ pc = "up" /\ db.data < MaxWrites
    /\ db' = [db EXCEPT !.data = @ + 1]
    /\ written' = db'.data
    /\ UNCHANGED <<build, backups, clock, pc, from, setbacks>>

\* The process stops anywhere, or a step of Migrate fails and with it the start.
Stop ==
    /\ pc # "down"
    /\ setbacks < MaxSetbacks /\ setbacks' = setbacks + 1
    /\ pc' = "down"
    /\ UNCHANGED <<build, db, backups, clock, from, written>>

\* Another build is installed and loaded.
Install(b) ==
    /\ pc \in {"down", "up"}
    /\ b > build \/ (Downgrades /\ b < build)
    /\ build' = b
    /\ pc' = "down"
    /\ UNCHANGED <<db, backups, clock, from, history>>

Migrate ==
    \/ StartCurrent \/ StartUpgrade \/ Recover \/ Save \/ Record \/ Prune
    \/ Mark \/ Apply \/ Revert \/ Clear

Next ==
    \/ Migrate \/ ApplyFails \/ Write \/ Stop
    \/ \E b \in 1..MaxVersion : Install(b)

Spec == Init /\ [][Next]_vars

\* Migrate runs on and a stopped process is started again.
FairSpec == Spec /\ WF_vars(Migrate)

-----------------------------------------------------------------------------
(* Properties *)

\* Every variable has its type.
TypeOK ==
    /\ build \in 1..MaxVersion
    /\ db \in Database
    /\ backups \subseteq Backup
    /\ clock \in Nat
    /\ pc \in Steps
    /\ from \in 0..MaxVersion
    /\ written \in Nat
    /\ setbacks \in 0..MaxSetbacks

\* The plugin never runs on a schema its build does not know, whatever was
\* interrupted, restored or installed before.
SchemaMatchesBuild == pc = "up" => db.version = build

\* What an interrupted upgrade would be restored from is there, was taken
\* outside any upgrade, so that restoring it ends the interruption, and holds
\* all the data: the next start goes back without losing a write.
UpgradeInProgress == db.marker # 0 /\ db.version < db.marker

InterruptedIsRecoverable ==
    UpgradeInProgress =>
        \E b \in backups :
            /\ b.time = db.last
            /\ b.db.marker = 0 /\ b.db.version \in 1..db.version
            /\ b.db.data = db.data

\* An upgrade gets done: once nothing more fails, the plugin runs.
UpgradeCompletes == <>[](pc = "up")

\* Design document 7: no upgrade loses data, which is what a write that was
\* committed while the plugin ran would mean.
NoDataIsLost == db.data = written
=============================================================================
