--------------------------- MODULE MigrationProofs ---------------------------
(***************************************************************************)
(* What upgrades guarantee for any number of versions, any retention and   *)
(* any sequence of stops, failures and builds.                             *)
(*                                                                         *)
(* The argument is about the newest backup: while a marker is set it is    *)
(* the one last_backup_path names, and no other was taken at a later       *)
(* version, so pruning by name never removes it.  Together with backups    *)
(* never being taken under a marker, restoring it ends the interruption.   *)
(*                                                                         *)
(* Then: whatever rows the database holds, a start makes valid settings of *)
(* them, and what was validated reads back (Settings).                     *)
(***************************************************************************)
EXTENDS Migration, Settings, FiniteSetTheorems, TLAPS

\* The backup is the last one taken, and also the first by name.
Foremost(b) ==
    /\ b \in backups /\ b.time = clock
    /\ \A c \in backups : c.db.version <= b.db.version

BackupsAreOrdered ==
    /\ \A b \in backups : /\ b.time \in 1..clock
                          /\ b.db.marker = 0 /\ b.db.version \in 1..db.version
    /\ \A b, c \in backups : b.time = c.time => b = c

\* While a marker is set, the newest backup is the recorded one.
MarkerNamesNewest ==
    db.marker # 0 => db.last = clock /\ \E b \in backups : Foremost(b)

\* What Migrate has established when it gets to a step.
StepsAreReady ==
    /\ pc = "restoring" => db.version < build /\ db.marker # 0
    /\ pc \in {"saving", "recording", "pruning", "marking"} =>
         db.marker = 0 /\ db.version \in 1..(build - 1)
    /\ pc \in {"recording", "pruning", "marking"} =>
         \E b \in backups : /\ Foremost(b)
                            /\ b.db.data = db.data /\ b.db.version = db.version
    /\ pc \in {"pruning", "marking"} => db.last = clock
    /\ pc = "applying" => db.version <= build /\ (from > 0 => db.marker # 0)
    /\ pc = "reverting" => db.marker # 0

UpgradeInv ==
    TypeOK /\ BackupsAreOrdered /\ MarkerNamesNewest /\ StepsAreReady /\ SchemaMatchesBuild

-----------------------------------------------------------------------------
\* Every variable keeps its type: a version never passes the newest build's.
THEOREM TypeCorrect == Spec => []TypeOK
  <1>1. Init => TypeOK
    BY VersionAssumption, BoundsAssumption DEF Init, TypeOK, Database, Backup, Steps
  <1>2. TypeOK /\ [Next]_vars => TypeOK'
    <2> SUFFICES ASSUME TypeOK, [Next]_vars PROVE TypeOK'
      OBVIOUS
    <2> USE VersionAssumption, BoundsAssumption DEF TypeOK, Steps, history
    <2>1. CASE StartCurrent \/ StartUpgrade
      BY <2>1 DEF StartCurrent, StartUpgrade, Database
    <2>2. CASE Recover \/ Revert
      BY <2>2 DEF Recover, AfterRestore, Revert, Restored, Backup, Database
    <2>3. CASE Save
      BY <2>3 DEF Save, Backup
    <2>4. CASE Record \/ Mark \/ Clear
      BY <2>4 DEF Record, Mark, Clear, Database
    <2>5. CASE Prune
      BY <2>5 DEF Prune, Kept
    <2>6. CASE Apply
      BY <2>6 DEF Apply, NextVersion, Database
    <2>7. CASE ApplyFails \/ Stop
      BY <2>7 DEF ApplyFails, Stop
    <2>8. CASE Write
      BY <2>8 DEF Write, Database
    <2>9. ASSUME NEW b \in 1..MaxVersion, Install(b) PROVE TypeOK'
      BY <2>9 DEF Install
    <2>10. CASE UNCHANGED vars
      BY <2>10 DEF vars
    <2>. QED  BY <2>1, <2>2, <2>3, <2>4, <2>5, <2>6, <2>7, <2>8, <2>9, <2>10
              DEF Next, Migrate
  <1>. QED  BY <1>1, <1>2, PTL DEF Spec

-----------------------------------------------------------------------------
\* Pruning never removes the newest backup while nothing sorts before it.
LEMMA PruneKeepsForemost ==
    ASSUME TypeOK, BackupsAreOrdered, NEW b, Foremost(b)
    PROVE  b \in Kept
  <1>1. {c \in backups : Newer(c, b)} = {}
    <2> SUFFICES ASSUME NEW c \in backups, Newer(c, b) PROVE FALSE
      OBVIOUS
    <2>1. c.time \in 1..clock /\ clock \in Nat /\ b.time = clock
      BY DEF BackupsAreOrdered, Foremost, TypeOK
    <2>2. c.db.version \in Nat /\ b.db.version \in Nat /\ c.db.version <= b.db.version
      BY DEF Foremost, TypeOK, Backup, Database
    <2>. QED  BY <2>1, <2>2 DEF Newer
  <1>2. Cardinality({c \in backups : Newer(c, b)}) = 0
    BY <1>1, FS_EmptySet
  <1>. QED  BY <1>2, KeepAssumption DEF Kept, Foremost

\* The file a marker makes a restart restore is the newest.
LEMMA RestoredIsForemost ==
    ASSUME TypeOK, BackupsAreOrdered, MarkerNamesNewest, db.marker # 0,
           NEW b, Restored(b)
    PROVE  Foremost(b)
  BY DEF BackupsAreOrdered, MarkerNamesNewest, Restored, Foremost

LEMMA BackupTypes ==
    ASSUME TypeOK
    PROVE  /\ db.version \in Nat /\ db.marker \in Nat /\ build \in Nat /\ clock \in Nat
           /\ \A b \in backups : b.db.version \in Nat /\ b.time \in Nat
  BY VersionAssumption DEF TypeOK, Database, Backup

\* Steps that leave the directory alone and the version, or raise it, keep the
\* backups in order.
LEMMA SameBackups ==
    ASSUME TypeOK, TypeOK', BackupsAreOrdered,
           UNCHANGED <<backups, clock>>, db'.version >= db.version
    PROVE  BackupsAreOrdered' /\ \A b : Foremost(b) => Foremost(b)'
  BY BackupTypes DEF BackupsAreOrdered, Foremost, TypeOK, Database

LEMMA UpgradeStep ==
    ASSUME UpgradeInv, TypeOK', [Next]_vars
    PROVE  UpgradeInv'
  <1> USE BackupTypes DEF UpgradeInv, history
  <1>1. CASE StartCurrent
    <2>1. UNCHANGED <<backups, clock, db, build>> /\ pc' = "up"
      BY <1>1 DEF StartCurrent
    <2>. QED  BY <1>1, <2>1, SameBackups
              DEF StartCurrent, Compatible, MarkerNamesNewest, StepsAreReady, SchemaMatchesBuild
  <1>2. CASE StartUpgrade
    <2>1. UNCHANGED <<backups, clock, db, build>> /\ from' = db.version
      BY <1>2 DEF StartUpgrade
    <2>2. BackupsAreOrdered' /\ MarkerNamesNewest'
      BY <2>1, SameBackups DEF MarkerNamesNewest
    <2>3. db.marker # 0 => db.version > 0 /\ db.last # 0
      BY DEF MarkerNamesNewest, Foremost, BackupsAreOrdered
    <2>4. StepsAreReady' /\ SchemaMatchesBuild'
      BY <1>2, <2>1, <2>3 DEF StartUpgrade, Interrupted, StepsAreReady, SchemaMatchesBuild
    <2>. QED  BY <2>2, <2>4
  <1>3. CASE Recover
    <2>1. PICK b \in backups : Restored(b)
      BY <1>3 DEF Recover
    <2>2. Foremost(b) /\ db.version < build
      BY <1>3, <2>1, RestoredIsForemost DEF Recover, StepsAreReady
    <2>3. db' = b.db /\ from' = b.db.version /\ UNCHANGED <<build, backups, clock>>
      BY <1>3, <2>1, <2>2 DEF Recover, Restored, BackupsAreOrdered, Foremost
    <2>4. b.db.version \in 1..(build - 1) /\ b.db.marker = 0
      BY <2>2 DEF BackupsAreOrdered
    <2>5. BackupsAreOrdered'
      BY <2>2, <2>3 DEF BackupsAreOrdered, Foremost
    <2>6. pc' = "saving"
      BY <1>3, <2>3, <2>4 DEF Recover, AfterRestore
    <2>. QED  BY <2>3, <2>4, <2>5, <2>6 DEF MarkerNamesNewest, StepsAreReady, SchemaMatchesBuild
  <1>4. CASE Save
    <2>1. clock' = clock + 1 /\ pc' = "recording" /\ UNCHANGED <<build, db, from>>
          /\ backups' = backups \cup {[time |-> clock + 1, db |-> db]}
      BY <1>4 DEF Save
    <2>2. db.marker = 0 /\ db.version \in 1..(build - 1)
      BY <1>4 DEF Save, StepsAreReady
    <2>3. BackupsAreOrdered'
      BY <2>1, <2>2 DEF BackupsAreOrdered
    <2>4. Foremost([time |-> clock, db |-> db])'
      BY <2>1, <2>3 DEF BackupsAreOrdered, Foremost
    <2>5. StepsAreReady'
      BY <2>1, <2>2, <2>4 DEF StepsAreReady
    <2>. QED  BY <2>1, <2>2, <2>3, <2>5 DEF MarkerNamesNewest, SchemaMatchesBuild
  <1>5. CASE Record
    <2>1. /\ UNCHANGED <<backups, clock, build, from>> /\ pc' = "pruning"
          /\ db'.version = db.version /\ db'.data = db.data /\ db'.marker = db.marker
          /\ db'.last = clock
      BY <1>5 DEF Record, TypeOK, Database
    <2>2. BackupsAreOrdered' /\ \A b : Foremost(b) => Foremost(b)'
      BY <2>1, SameBackups
    <2>3. StepsAreReady'
      BY <1>5, <2>1, <2>2 DEF Record, StepsAreReady, Foremost
    <2>. QED  BY <1>5, <2>1, <2>2, <2>3 DEF Record, StepsAreReady, MarkerNamesNewest, SchemaMatchesBuild
  <1>6. CASE Prune
    <2>1. /\ UNCHANGED <<db, clock, build, from>> /\ pc' = "marking"
          /\ backups' \subseteq backups /\ Kept \subseteq backups'
      BY <1>6 DEF Prune, Kept
    <2>2. PICK b \in backups : /\ Foremost(b)
                               /\ b.db.data = db.data /\ b.db.version = db.version
      BY <1>6 DEF Prune, StepsAreReady
    <2>3. BackupsAreOrdered'
      BY <2>1 DEF BackupsAreOrdered
    <2>4. Foremost(b)' /\ b \in backups'
      BY <2>1, <2>2, PruneKeepsForemost DEF Foremost
    <2>5. StepsAreReady'
      BY <1>6, <2>1, <2>2, <2>4 DEF Prune, StepsAreReady
    <2>. QED  BY <1>6, <2>1, <2>3, <2>4, <2>5 DEF Prune, StepsAreReady, MarkerNamesNewest, SchemaMatchesBuild
  <1>7. CASE Mark
    <2>1. /\ UNCHANGED <<backups, clock, build, from>> /\ pc' = "applying"
          /\ db'.version = db.version /\ db'.last = db.last /\ db'.marker = build
      BY <1>7 DEF Mark, TypeOK, Database
    <2>2. BackupsAreOrdered' /\ \A b : Foremost(b) => Foremost(b)'
      BY <2>1, SameBackups
    <2>3. db.last = clock /\ db.version <= build /\ \E b \in backups : Foremost(b)
      BY <1>7 DEF Mark, StepsAreReady
    <2>4. build # 0
      BY DEF TypeOK
    <2>. QED  BY <2>1, <2>2, <2>3, <2>4 DEF MarkerNamesNewest, StepsAreReady, SchemaMatchesBuild
  <1>8. CASE Apply
    <2>1. /\ UNCHANGED <<backups, clock, build, from, pc>> /\ pc = "applying"
          /\ db'.version = db.version + 1 /\ db'.last = db.last /\ db'.marker = db.marker
          /\ db.version < build
      BY <1>8 DEF Apply, NextVersion, TypeOK, Database
    <2>2. BackupsAreOrdered' /\ \A b : Foremost(b) => Foremost(b)'
      BY <2>1, SameBackups
    <2>. QED  BY <2>1, <2>2 DEF MarkerNamesNewest, StepsAreReady, SchemaMatchesBuild
  <1>9. CASE ApplyFails
    <2>1. /\ UNCHANGED <<backups, clock, build, from, db>> /\ pc = "applying"
          /\ pc' = IF from > 0 THEN "reverting" ELSE "down"
      BY <1>9 DEF ApplyFails
    <2>2. BackupsAreOrdered' /\ MarkerNamesNewest'
      BY <2>1, SameBackups DEF MarkerNamesNewest
    <2>. QED  BY <2>1, <2>2 DEF StepsAreReady, SchemaMatchesBuild
  <1>10. CASE Revert
    <2>1. PICK b \in backups : Restored(b)
      BY <1>10 DEF Revert
    <2>2. Foremost(b)
      BY <1>10, <2>1, RestoredIsForemost DEF Revert, StepsAreReady
    <2>3. db' = b.db /\ pc' = "down" /\ UNCHANGED <<build, backups, clock>>
      BY <1>10, <2>1 DEF Revert, Restored
    <2>4. b.db.version \in Nat /\ b.db.marker = 0
      BY DEF BackupsAreOrdered
    <2>5. BackupsAreOrdered'
      BY <2>2, <2>3 DEF BackupsAreOrdered, Foremost
    <2>. QED  BY <2>3, <2>4, <2>5 DEF MarkerNamesNewest, StepsAreReady, SchemaMatchesBuild
  <1>11. CASE Clear
    <2>1. /\ UNCHANGED <<backups, clock, build, from>> /\ pc' = "up"
          /\ db'.version = db.version /\ db'.marker = 0 /\ db.version = build
      BY <1>11 DEF Clear, TypeOK, Database
    <2>2. BackupsAreOrdered'
      BY <2>1, SameBackups
    <2>. QED  BY <2>1, <2>2 DEF MarkerNamesNewest, StepsAreReady, SchemaMatchesBuild
  <1>12. CASE Write
    <2>1. /\ UNCHANGED <<backups, clock, build, from, pc>> /\ pc = "up"
          /\ db'.version = db.version /\ db'.marker = db.marker /\ db'.last = db.last
      BY <1>12 DEF Write, TypeOK, Database
    <2>2. BackupsAreOrdered' /\ \A b : Foremost(b) => Foremost(b)'
      BY <2>1, SameBackups
    <2>. QED  BY <2>1, <2>2 DEF MarkerNamesNewest, StepsAreReady, SchemaMatchesBuild
  <1>13. ASSUME NEW b \in 1..MaxVersion, Stop \/ Install(b) PROVE UpgradeInv'
    <2>1. UNCHANGED <<backups, clock, db>> /\ pc' = "down"
      BY <1>13 DEF Stop, Install
    <2>2. BackupsAreOrdered' /\ MarkerNamesNewest'
      BY <2>1, SameBackups DEF MarkerNamesNewest
    <2>. QED  BY <2>1, <2>2 DEF StepsAreReady, SchemaMatchesBuild
  <1>14. CASE UNCHANGED vars
    BY <1>14, SameBackups DEF vars, MarkerNamesNewest, StepsAreReady, SchemaMatchesBuild
  <1>15. 1 \in 1..MaxVersion
    BY VersionAssumption
  <1>. QED  BY <1>1, <1>2, <1>3, <1>4, <1>5, <1>6, <1>7, <1>8, <1>9, <1>10,
               <1>11, <1>12, <1>13, <1>14, <1>15 DEF Next, Migrate

LEMMA UpgradeInit == Init => UpgradeInv
  BY VersionAssumption, BoundsAssumption
  DEF Init, UpgradeInv, TypeOK, Database, Backup, Steps, BackupsAreOrdered,
      MarkerNamesNewest, StepsAreReady, SchemaMatchesBuild

LEMMA UpgradeCorrect == Spec => []UpgradeInv
  <1>1. TypeOK /\ TypeOK' /\ UpgradeInv /\ [Next]_vars => UpgradeInv'
    BY UpgradeStep
  <1>. QED  BY TypeCorrect, UpgradeInit, <1>1, PTL DEF Spec

\* The plugin never runs on a schema its build does not know, with builds
\* coming and going in any order.
THEOREM SchemaIsKnown == Spec => []SchemaMatchesBuild
  <1>1. UpgradeInv => SchemaMatchesBuild
    BY DEF UpgradeInv
  <1>. QED  BY UpgradeCorrect, <1>1, PTL

-----------------------------------------------------------------------------
\* While builds only become newer, nothing is written between a backup and the
\* end of the upgrade it protects.
BackupIsCurrent ==
    /\ db.marker <= build
    /\ UpgradeInProgress => \A b \in backups : b.time = clock => b.db.data = db.data

LEMMA CurrentStep ==
    ASSUME Downgrades = FALSE, UpgradeInv, TypeOK', BackupIsCurrent, [Next]_vars
    PROVE  BackupIsCurrent'
  <1> USE BackupTypes DEF UpgradeInv, BackupIsCurrent, UpgradeInProgress, history
  <1>1. CASE StartCurrent \/ StartUpgrade \/ ApplyFails \/ Stop
    BY <1>1 DEF StartCurrent, StartUpgrade, ApplyFails, Stop
  <1>2. CASE Recover \/ Revert
    BY <1>2 DEF Recover, Revert, Restored, BackupsAreOrdered
  <1>3. CASE Save \/ Record \/ Prune
    <2>1. db'.marker = 0 /\ build' = build
      BY <1>3 DEF Save, Record, Prune, StepsAreReady, TypeOK, Database
    <2>. QED  BY <2>1
  <1>4. CASE Mark
    <2>1. /\ UNCHANGED <<backups, clock, build>>
          /\ db'.data = db.data /\ db'.marker = build
      BY <1>4 DEF Mark, TypeOK, Database
    <2>2. \A b \in backups : b.time = clock => b.db.data = db.data
      BY <1>4 DEF Mark, StepsAreReady, Foremost, BackupsAreOrdered
    <2>. QED  BY <2>1, <2>2
  <1>5. CASE Apply
    <2>1. /\ UNCHANGED <<backups, clock, build>>
          /\ db'.version = db.version + 1
          /\ db'.data = db.data /\ db'.marker = db.marker
      BY <1>5 DEF Apply, NextVersion, TypeOK, Database
    <2>. QED  BY <2>1
  <1>6. CASE Clear
    <2>1. db'.marker = 0 /\ build' = build
      BY <1>6 DEF Clear, TypeOK, Database
    <2>. QED  BY <2>1
  <1>7. CASE Write
    <2>1. /\ build' = build /\ db.version = build
          /\ db'.version = db.version /\ db'.marker = db.marker
      BY <1>7 DEF Write, SchemaMatchesBuild, TypeOK, Database
    <2>. QED  BY <2>1
  <1>8. ASSUME NEW b \in 1..MaxVersion, Install(b) PROVE BackupIsCurrent'
    <2>1. UNCHANGED <<backups, clock, db>> /\ build' = b /\ b \in Nat /\ b > build
      BY <1>8 DEF Install
    <2>. QED  BY <2>1
  <1>9. CASE UNCHANGED vars
    BY <1>9 DEF vars
  <1>. QED  BY <1>1, <1>2, <1>3, <1>4, <1>5, <1>6, <1>7, <1>8, <1>9 DEF Next, Migrate

\* Whatever stopped an upgrade, the backup a restart goes back to is there, is
\* no upgrade's middle, and misses no write.
THEOREM NoUpgradeIsLostHalfway ==
    ASSUME Downgrades = FALSE
    PROVE  Spec => []InterruptedIsRecoverable
  <1>1. Init => BackupIsCurrent
    BY DEF Init, BackupIsCurrent, UpgradeInProgress
  <1>2. UpgradeInv /\ TypeOK' /\ BackupIsCurrent /\ [Next]_vars => BackupIsCurrent'
    BY CurrentStep
  <1>3. UpgradeInv /\ BackupIsCurrent => InterruptedIsRecoverable
    <2> SUFFICES ASSUME UpgradeInv, BackupIsCurrent, UpgradeInProgress
                 PROVE  \E b \in backups :
                          /\ b.time = db.last
                          /\ b.db.marker = 0 /\ b.db.version \in 1..db.version
                          /\ b.db.data = db.data
      BY DEF InterruptedIsRecoverable
    <2>1. PICK b \in backups : Foremost(b)
      BY DEF UpgradeInv, MarkerNamesNewest, UpgradeInProgress
    <2>2. b.time = db.last /\ b.time = clock
      BY <2>1 DEF UpgradeInv, MarkerNamesNewest, UpgradeInProgress, Foremost
    <2>. QED  BY <2>2 DEF UpgradeInv, BackupsAreOrdered, BackupIsCurrent
  <1>. QED  BY UpgradeCorrect, TypeCorrect, <1>1, <1>2, <1>3, PTL DEF Spec

-----------------------------------------------------------------------------
(* The settings, for any rows that a start finds and any edits *)

\* The settings that have bounds.
LEMMA BoundedKeys ==
    DOMAIN Bounds = {"scan_interval_sec", "probe_concurrency", "state_ttl_min",
           "refresh_threshold_pct", "target_state_length", "max_probe_duration_sec",
           "probe_history_retention_hours", "max_proxies_per_probe",
           "non_target_backoff_cap_min", "call_history_retention_hours",
           "max_unusable_per_probe"}
  BY DEF Bounds

\* A start may always fall back.
LEMMA DefaultsAreValid == Valid(Defaults)
  <1>1. ASSUME NEW k \in DOMAIN Bounds
        PROVE  Defaults[k] = NumberDefaults[k]
    BY BoundedKeys DEF Defaults, Keys, Numbers, Switches
  <1>2. ASSUME NEW k \in DOMAIN Bounds
        PROVE  Bounds[k][1] <= NumberDefaults[k] /\ NumberDefaults[k] <= Bounds[k][2]
    BY BoundedKeys DEF NumberDefaults, Bounds, NoMost
  <1>3. Defaults.account_routing_strategy \in Strategies
    BY DEF Defaults, Strategies, Keys, Switches
  <1>. QED  BY <1>1, <1>2, <1>3 DEF Valid

\* A start never runs on settings outside the bounds, and rows that it cannot
\* read cost no other row.
THEOREM EveryStartIsValid ==
    ASSUME NEW v, NEW rows, DOMAIN rows \subseteq Keys
    PROVE  StartsOnAnything(v, rows)
  <1>. DEFINE stored == {k \in DOMAIN rows : rows[k] = [ok |-> TRUE, value |-> v[k]]}
              found == [k \in Keys |-> IF k \in DOMAIN rows /\ Readable(k, rows[k])
                                        THEN rows[k].value ELSE Defaults[k]]
  <1>1. Decode(rows) = IF Valid(found) THEN found ELSE Defaults
    BY DEF Decode
  <1>2. Valid(Decode(rows))
    BY <1>1, DefaultsAreValid
  <1>3. ASSUME Valid(v), \A k \in DOMAIN rows \ stored : ~rows[k].ok,
               NEW k \in stored, Readable(k, rows[k])
        PROVE  Decode(rows)[k] = v[k]
    <2>1. ASSUME NEW j \in Keys
          PROVE  found[j] = v[j] \/ found[j] = Defaults[j]
      BY <1>3, <2>1 DEF Readable
    <2>2. DOMAIN Bounds \subseteq Keys /\ "account_routing_strategy" \in Keys
      BY DEF Keys, Numbers
    <2>. HIDE DEF found
    <2>3. Valid(found)
      BY <1>3, <2>1, <2>2, DefaultsAreValid DEF Valid
    <2>4. found[k] = v[k]
      BY <1>3 DEF found
    <2>. QED  BY <1>1, <2>3, <2>4
  <1>. QED  BY <1>2, <1>3 DEF StartsOnAnything

\* What a patch makes of settings are settings, and numbers stay numbers.
LEMMA PatchedType ==
    ASSUME NEW v, DOMAIN v = Keys, Typed(v), NEW patch, Typed(patch)
    PROVE  /\ Patched(v, patch) = [k \in Keys |-> Patched(v, patch)[k]]
           /\ \A k \in Numbers : Patched(v, patch)[k] \in Int
  <1>. DEFINE next == [k \in DOMAIN v |-> IF k \in DOMAIN patch THEN patch[k] ELSE v[k]]
  <1>1. next = [k \in Keys |-> next[k]] /\ \A k \in Numbers : next[k] \in Int
    BY DEF Typed, Keys
  <1>2. "account_routing_strategy" \notin Numbers
    BY BoundedKeys DEF Numbers
  <1>3. Patched(v, patch) =
          IF next.account_routing_strategy = ""
          THEN [next EXCEPT !.account_routing_strategy = "respect_cpa_priority"] ELSE next
    BY DEF Patched
  <1>. HIDE DEF next
  <1>. DEFINE out == [next EXCEPT !.account_routing_strategy = "respect_cpa_priority"]
  <1>4. out = [k \in Keys |-> out[k]] /\ \A k \in Numbers : out[k] \in Int
    <2>1. \A k \in Numbers : k \in Keys /\ out[k] = next[k]
      BY <1>1, <1>2 DEF Keys
    <2>2. DOMAIN out = Keys /\ out = [k \in DOMAIN out |-> out[k]]
      BY <1>1
    <2>. QED  BY <1>1, <2>1, <2>2
  <1>. HIDE DEF out
  <1>5. Patched(v, patch) = out \/ Patched(v, patch) = next
    BY <1>3 DEF out
  <1>. QED  BY <1>1, <1>4, <1>5

\* What the panel has stored is what the next start finds, but for the sync interval.
THEOREM EditsAreKept ==
    ASSUME NEW v, DOMAIN v = Keys, Typed(v), NEW patch, Typed(patch)
    PROVE  SurvivesRestartMostly(v, patch)
  <1>. DEFINE next == Patched(v, patch)
  <1>. SUFFICES ASSUME next.account_sync_interval_sec > 0, Valid(next)
                PROVE  Decode(Encode(next)) = next
    BY DEF SurvivesRestartMostly, SurvivesRestart, Accepted
  <1>1. next = [k \in Keys |-> next[k]] /\ \A k \in Numbers : next[k] \in Int
    BY PatchedType
  <1>. HIDE DEF next
  <1>2. ASSUME NEW k \in Durations
        PROVE  next[k] > 0
    <2>1. CASE k = "account_sync_interval_sec"
      BY <2>1
    <2>2. CASE k # "account_sync_interval_sec"
      <3>1. k \in DOMAIN Bounds
        BY <1>2, <2>2, BoundedKeys DEF Durations
      <3>2. Bounds[k][1] \in Nat \ {0}
        BY <1>2, <2>2 DEF Durations, Bounds
      <3>3. Bounds[k][1] <= next[k] /\ next[k] \in Int
        BY <1>1, <3>1 DEF Valid, Numbers
      <3>. QED  BY <3>2, <3>3
    <2>. QED  BY <2>1, <2>2
  <1>3. ASSUME NEW k \in Keys
        PROVE  Readable(k, [ok |-> TRUE, value |-> next[k]])
    BY <1>2 DEF Readable, Valid
  <1>. DEFINE rows == Encode(next)
  <1>4. rows = [k \in Keys |-> [ok |-> TRUE, value |-> next[k]]]
    BY DEF Encode
  <1>. HIDE DEF rows
  <1>5. [k \in Keys |-> IF k \in DOMAIN rows /\ Readable(k, rows[k])
                         THEN rows[k].value ELSE Defaults[k]] = next
    BY <1>1, <1>3, <1>4
  <1>6. Decode(rows) = next
    BY <1>5 DEF Decode
  <1>. QED  BY <1>6 DEF rows
\* Whatever rows a start finds, it runs on settings that are within the bounds,
\* and what it cannot read costs no other row (AnyRowsWillDo).
THEOREM AnyStartIsValid ==
    ASSUME input.rule = "settings" => SettingsInput(input.v, input.patch, input.rows)
    PROVE  AnyRowsWillDo
  BY EveryStartIsValid DEF AnyRowsWillDo, SettingsInput

\* Whatever settings the panel edits, and however, the next start finds them,
\* but for the sync interval (EditsMostlySurvive).
THEOREM AnyEditIsKept ==
    ASSUME input.rule = "settings" => SettingsInput(input.v, input.patch, input.rows)
    PROVE  EditsMostlySurvive
  BY EditsAreKept DEF EditsMostlySurvive, SettingsInput
=============================================================================
