# A verification project for codex-turn-state-manager

The plugin sits in a proxy (CPA) and keeps, for every pair of an account and a
model, the *turn state* token that upstream wants to see: it probes for tokens,
captures them from traffic, injects them into requests and drops them when they
turn bad. This directory holds TLA+ models of that program, TLC runs on small
instances and theorems checked by TLAPS. Every definition is translated from
`src/`; `PROJECT.json` maps each one to its lines.

## Inventory

Paths are under `src/internal/`.

| component | state | operations | what is hard | what makes it correct |
|---|---|---|---|---|
| binding registry `states/registry.go`, `storage/binding_store.go` | `state_binding`, `state_binding_history`, a copy-on-write snapshot | Bind, Delete, Invalidate, DeleteAccount, Lookup, Load | two transactions and a snapshot swap per write; any may fail, the process may stop in between; lock-free readers | served = stored; history explains the table; no value outlives its issue |
| correlation `intercept/correlation.go` | one record per running request | Record, MarkInjected, Get, Complete, Forget, Sweep | records expire under running requests; three callbacks share one record | whatever expires or is consumed, nothing is counted against a request that did not earn it |
| injection, capture, self-healing `intercept/request.go`, `response.go` | strikes per pair | Inject, Observe, ObserveResponse, ObserveCompletion | requests interleave; decisions are made before the binding they act on is read again | only carriers are blamed, each failure once; a run of failures heals; a dropped binding is re-probed |
| probe scheduler `probe/scheduler.go` | next_probe_at and inFlight per pair, a resizable semaphore | Scan, acquire, release, runProbe, ProbeNow | goroutines, deferred calls and a resize in between; settings read more than once | one probe per pair; never over the limit; no slot lost; no pair starved |
| probe executor `probe/executor.go`, `request.go` | none of its own | Probe, ProbeOnce | one deadline for a walk over the pool; an expired context | a faulty node is benched, a healthy one is not |
| backoff `probe/backoff.go` | none | NextDelay, ProxyCooldown | caps, jitter, boundary durations | delays within their bounds |
| time windows `probe/window.go`, `storage/window_store.go` | table and snapshot | ShouldProbeNow, CRUD | past midnight, weekdays | a window covers what it says |
| proxy pool `proxies/` and its stores | nodes, a cooldown ladder per (account, node) | AvailableFor, Mark*, Upsert, ReplaceAll, Delete, Reset* | memory under a lock, table outside it | no lost or resurrected node; a rung per failure |
| account registry `accounts/registry.go`, `storage/model_list_store.go`, `app/app.go` (removal hook) | accounts, toggles, model lists, in memory and in tables | Sync, SyncAccount, adopt, dropAccount, SetProbeEnabled, ForgetModel, LoadModels, Load | lists fetched before the lock; removal in steps; a restart forgets who was listed | an account that is gone leaves nothing behind |
| verdict `accounts/verdict.go`, signals `headers/signals.go` | what upstream last said of each account's budget | ParseSignals, RecordSignals, Judge | many host states; deadlines given or not; three sources of the truth | a spent account is left alone, for as long as it is spent |
| settings `settings/settings.go`, `storage/settings_store.go` | snapshot, table | Update, Validate, Load | partial decode | a loaded snapshot is valid |
| call history `callhistory/recorder.go`, `storage/call_store.go` | pending map, bounded queue | Begin, Response, Complete, Sweep, Run | late callbacks, a full queue, shutdown | one row per request at most |
| routing `routing/scheduler.go` | a cursor per model and account | Decide | cursors read one by one, the choice stamped later, by several requests at once; times compared as text | no one outranked, everyone's turn comes |
| model lists `models/`, `app/app.go` | a list per account and a catalog | fetch, LoadModels, ForgetModel | slow fetches beside syncs | a list that works is kept |
| database `storage/db.go`, `migrate.go`, `backup.go` | schema version, marker, backups | Migrate, Backup, RestoreFrom | crash between any two steps | no upgrade loses data |
| envelope `states/envelope.go` | none | ParseEnvelope, ExpectationFor, AcceptState | base64 padding, block sizes, plans | length and shape lead to one decision |
| timezone rewrite `timezone/rewrite.go` | none | Rewrite | text edited in several spellings | only what declares a zone is edited, once |
| plugin adapter `pluginabi/`, management API, panel, counters, version | thin | | | |

How they interact: the host calls the adapter's hooks, several requests at a
time and those of one request one after the other. The after-auth hook reads the
registry's snapshot and leaves a correlation record; the response hooks consume
it and bind or discard; the completion hook heals. The scan loop syncs accounts,
visits the enabled pairs and starts probe goroutines, which walk the proxy pool
and bind. Discarding a stale binding, and deleting one by hand, call
`ProbeNow`. Removing an account calls back into the registry. The Management API
calls all of them from its own goroutines. Settings are an atomic snapshot that
each step reads for itself. All persistent state is one SQLite file, one
transaction at a time (`DB.Write`).

## Plan

In this order; ✔ marks what exists.

1. ✔ `WriteAheadMap`, `StateRegistry`, `StateRegistryProofs`: the registry and what it promises.
2. ✔ `SelfHealing`, `SelfHealingProofs`: a request's life beside its pair's probe, over the registry as an atomic map.
3. ✔ `PairProbe`, `ProbeScheduler`, `ProbeSchedulerProofs`: scans, goroutines, the
   semaphore, and the one probe per pair that they amount to.
4. ✔ `AccountRegistry`, `AccountRegistryProofs`: concurrent syncs, removals and toggles.
5. ✔ `Migration`, `MigrationProofs`: upgrades, backups and restarts.
6. ✔ `ProbeWalk`, `ProbeWalkProofs`: the executor's walk over the proxy pool, with
   its deadline, its marks, the ledger of failures, edits and restarts. (The pool and
   the executor were planned apart; what is hard lies between them.)
7. ✔ `CallHistory`, `CallHistoryProofs`: pending records, sweep, queue, batching writer, shutdown.
8. ✔ `Routing`, `RoutingProofs`: concurrent choices over stored cursors, times as text.
9. ✔ The pure rules, checked together by `MCRules`: `Backoff`, `TimeWindow`,
   `Envelope`, `Verdict`, `Settings`, `Timezone`.
10. Model lists and per-model toggles in `AccountRegistry`; the account verification
    inside a scan.
11. The other time stamps compared as text: the pruning of the two histories.

Worth proving next: that `StateRegistry`'s three effects let `SelfHealing` treat a
write of a binding as one step.

## Modules

**WriteAheadMap** is the abstract specification: an entry becomes durable, then
visible, one key at a time; a restart shows what is durable.

**StateRegistry** models `Registry` over its tables. `store` is the table
`state_binding`, `tail` the newest history row of each pair, `snap` the
snapshot, `op` the operation that holds `Registry.mu` with the binding and
history row it computed when it took it. `BeginBind`/`BeginDelete` take the
mutex; `WriteStore`, `AppendHistory` and `Publish` are the three effects;
`...Fails` the error returns; `Restart` is a crash and `Load`. `torn` and
`unaudited` are history variables: pairs whose last operation returned, or was
cut off, half-way. A `Delete` is written for both `Delete` and `Invalidate`;
`DeleteAccount` is a loop of them. Time is a counter; a readable value has an
issue time. `BoundAt` is always the time of the call (no caller sets it).

**SelfHealing** models the three hooks and the two places that write bindings.
The registry is the atomic map of module 1. `corr` is
`CorrelationManager.m`, `strikes` is `Collector.serverErrors`, `stage` is how far
the host has come with a request; the stages `discarding`, `notifying` and
`healing` lie between a decision and its effect, where other requests, the probe
and the operator run. `pair` and `sent` are what really happened to a request,
which the code knows only through its record. `due` and `probe` are the
scheduler as `PairProbe` has it: a scan and a goroutine look at the switch before
they act, so `ProbeStart` and `ProbeBinds` may come after it was turned off. `run`,
`unhealed`, `stale` and `failures` are history variables: `failures` are the requests
that carried a value the plugin wrote and ended in a 5xx before any answer was seen,
told from what happened and not from the records (`Capture` and `Heal` of a pair
empty it for that pair, as they do its strikes). Merged into one step: `Invalidate` and the reset of strikes in
`Heal`, `Bind` and the reset in `Capture`. The shape test is the set `Targets`.
A 400 is never explained, because the adapter passes no body to the completion
hook (`pluginabi/plugin.go:454`).

**PairProbe** is what the scheduler promises: every pair has one probe, started when
the pair is due and holds nothing fresh, and nothing but the probe puts a pair off.
`ProbeScheduler` and `SelfHealing` both implement it (`ProbesAsPromised`), the one
with its goroutines, the other with the process it runs beside the requests.

**ProbeScheduler** models `Scheduler`. `wait` counts scans until `next_probe_at`;
`phase` is where a probe's goroutine is, including its two deferred calls and the
gap inside `release` between reading the channel and receiving from it; `tokens`
and `size` are the channel. `Full` and `Launch` contain the resize that `acquire`
does. `crossed` is a history variable: goroutines alive at the last switch-off.
`due`, `Lookup` and `acquire` of one pair are one step (they run on the scan
goroutine), the two settings reads of `runProbe` are one, backoff and streak are
the set `Delays`. Not modelled: the account sync and verification inside a scan,
the time window gate (both only shorten a scan) and `Stop`.

**AccountRegistry** models `accounts.Registry`, its toggle table, and the removal
hook into the binding registry. `accounts` is `byIndex`; `toggles` is `configs`
and `saved` its table; `bound` the accounts with a binding. Each sync of `Syncs`
is one concurrent call of `Sync` or `SyncAccount`: `Fetch` (no lock), `Adopt`
(the first critical section of `adopt`), and for every missing account `Forget`,
`Erase` and `Unbind`, each with its failing form. `SetProbeEnabled` is
`SaveToggle` and then `ApplyToggle`. `Bind` is a capture or a probe that answers:
neither asks whether the account is tracked. `leftover` and `consent` are history
variables. A toggle stands for all models of its account; plans, model lists,
signals and the verdict are left out; `Forget` has no caller outside the tests.

**Migration** models `Migrate` with `Backup`, `pruneBackups` and `RestoreFrom`.
`db` is the file: its schema version, what its tables hold (a number that grows
with each write), the crash marker and the recorded backup. `pc` is how far
`Migrate` has come; every step is durable before the next. `Stop` is a crash, an
unload or the failure of a step, which all end with the process down and nothing
undone; only a failing migration does more (`ApplyFails`, `Revert`). `Install`
replaces the build. A migration and its version row are one transaction
(`applyMigration`), the copy of a restore ends in a rename (`copyFile`), so both
are one step. Two backups never share a second.

**ProbeWalk** models `Executor.probe` over `Pool` and `cooldowns`. `nodes` and
`rows` are a node's status in memory and in its table, `used` the order of
`last_used_at`, `ledger` and `saved` the strikes and bench per account and node,
in memory and in their table. `walk` is one goroutine's traversal: `walking` (next
node), `stamping` (marked in memory, row to be written), `asking`, `saving` (marked
after the answer), `recording` (ledger, written under its lock). The rung of a
failure is read when the answer is in (`CoolDown`) and recorded later. `TimeOut` is
the shared deadline; a write with an expired context fails (`SaveMarkLate`). `Edit`
and `SaveEdit` are the operator's `Upsert` and `Delete`; `ReplaceAll` is a loop of
them. `Restart` is `Load`. `blamed` is a history variable. One second more or less
of a bench is left out: `Lapse` ends it at any time.

**CallHistory** models `Recorder` and the loops that drive it. A call is a request
id and which of its `Begin`s it was, as the host retries under the same id.
`Complete` and `Sweep` take records out under the lock; `HandOver` and
`HandOverSwept` put them into the queue afterwards, or drop them when it is full;
`Take`, `Flush` and `FlushFails` are the writer. The loop of `Sweep` that keeps some
ids of a list in their order is `Among`, said by rank so that it can be reasoned
about; `MCCallHistory` has TLC compare it with `SelectSeq`. `Restart` loses all that is not
in the table. `ended` and `lost` are history variables. Of a record's contents only
whether the request had ended is kept (`unended`).

**Routing** models `Scheduler.Decide`. What the scoring finds is an input: bindings
change while it runs, so any subset of the candidates may hold a state. `Read` takes
the pool's cursors one at a time, `Stamp` notes the choice's new time and `Store`
writes it; in between other requests do the same. A cursor is text, and cursors are
compared as text: `Text` formats a time, and `TextOrder` says in which order the texts
of one second are. That is not the order of time, as RFC3339Nano drops trailing zeros
(":00Z" comes after ":00.3Z"); the texts of different seconds are in the order of the
seconds. An old text may be read as a new one for as long as its second lasts, so
`passed`, a history variable, counts from the end of that second (`Recent`). The wall
clock never goes back. Two requests may read the same time.

**Backoff**, **TimeWindow**, **Envelope**, **Verdict**, **Settings** and
**Timezone** are functions of their input, as in the code. `Backoff`: the waits after
each outcome, with the run of wrong shapes they depend on, `Retry-After`, and the
ladder of benches, in seconds. `TimeWindow`: a clock is a minute, and whether it is
written the way `parseClock` lets pass unchanged. `Envelope`: a token is its number
of bytes, its padding, its issue and whether it decodes. `Verdict`: what upstream
says (`ParseSignals`, `RecordSignals`) and the gate (`Judge`); a message is the set
of its words. `Settings`: the patch, its validation, the rows, and what a start makes
of them. `Timezone`: a body is a sequence of tags, keys and values, each in one of
the spellings a body can be nested in. Each of these modules states the inputs its
rule is for as a set of its own (`BackoffInputs`, `WindowInputs`, ...), far larger
than what TLC is given, and its properties over the one variable `input` of
`RuleInput`.

The `MC*` modules give the constants of the small instances and their symmetry.
`MCRules` has one state per input of a rule, and assumes that its inputs lie in the
sets the rule modules state (TLC evaluates it).

## Runs

| run | instance | shows |
|---|---|---|
| `StateRegistry` | 2 pairs, 1 readable and 1 opaque value, 2 policies, clock to 2 | `Coherent`, `AuditTrail`, `UsableWithinLife`, refinement of `WriteAheadMap` |
| `SelfHealing` | 1 pair, 3 requests, 2 target values and 1 other, limit 2 | `StrikesAreEarned`: a strike is a failed carrier of its own that no answer reached; `OnlyCarriersHeal`, `RunsAreActedUpon` |
| `ProbeScheduler` | 2 pairs, 3 goroutines, limits 1 and 2 | `OneProbePerPair` under resizes; `SlotsMatch`, `NeverOverLimit` until the first resize |
| `ProbeLiveness` | 2 pairs, 3 goroutines and slots | `EveryPairIsProbed` when there are slots enough |
| `AccountRegistry` | 1 account with a toggle, 3 concurrent syncs | `OrphansAreExplained`; `ViewConverges`: stale lists and late drops never leave the view wrong for good |
| `Migration` | 3 schema versions, 2 backups kept, 2 writes, 5 setbacks | `InterruptedIsRecoverable`, `SchemaMatchesBuild`, `UpgradeCompletes` |
| `ProbeWalk` | 2 walks, 1 account, 2 nodes, a ladder of 2 rungs, 1 setback | `StrikesBounded`, `BenchesAreEarned` |
| `WalkLiveness` | the same, no setbacks | `EveryNodeIsTried` |
| `CallHistory` | 2 requests begun up to twice, queue of 1, batch of 2, 1 setback | `OncePerCall`, `EveryCallIsSettled` |
| `Routing` | 2 requests at a time, 3 accounts of 2 priorities, 2 seconds of 2 readings whose texts are in reverse order, 1 setback | `NoOutranking`, `Rotates` |
| `Rules` | some 160 000 inputs | `WaitsAreBounded`, `YoungAreReprobed`, `ScheduleIsMostlyKept`, `ShapesAreLengths`, `TimeOnlyHeals`, `AnyRowsWillDo`, `EditsMostlySurvive`, `RewritesAreStable`, `DeclarationsAreTheLimit` |
| `NoDataIsLost` | 3 schema versions, 2 setbacks | violated, see below |

The runs of modules with state, those for liveness alone aside, also check `TypeOK`.

Why the bounds are enough. In the registry only the one operation that holds the
mutex is ever under way, so a second pair is there to be disturbed and a third
would add nothing; a clock of two ticks passes both thresholds of both policies.
In `SelfHealing` pairs do not interact (counters, bindings and probes are keyed
by pair), so one pair suffices, and three requests are one more than the limit of
two. The code's limit is three; it is a constant. In `ProbeScheduler` a third
goroutine lets one release late while two run, and two limits are both a growing
and a shrinking. In `AccountRegistry` accounts meet only in the list of a sync's
missing accounts, where their order does not matter, so one account suffices (the
theorem covers any number); three syncs give one that drops the account, one that
lists it again and one that overtakes both. In `Migration` three versions give two
upgrades one after the other, the second of which can meet what the first has left,
and retention is small enough that pruning happens; older builds than the one that
has run are covered by the proof of `SchemaMatchesBuild` only. In `ProbeWalk` two
walks are what it takes to choose the same node, to stand on one rung and to write in
the other order; the ladder's two rungs are enough for its count to start anew, and
the theorems cover any pool. In `CallHistory` one queue place and two requests fill
the queue, and two `Begin`s are a retry beside the call it replaces. In `Routing`
the third account makes a second tier, and rotation takes two; a request may note a
time in one second and store it in the next, and the two readings of a second are the
fewest that can be out of order. The inputs of
`Rules` lie on both sides of every threshold of the code: block counts around the
plans' shapes, minutes around midnight, percentages that round up, every setting at
and beyond both of its bounds.

Deadlock is not checked where the system comes to rest by itself: in `Migration`
when the newest build runs and all bounds are used up, in `CallHistory` when no more
requests come. The proofs hold for all values of the constants.

### The violated run

`NoDataIsLost` checks what the documents promise and finds that a marker that
outlives its upgrade makes the next upgrade restore a backup from before the last
one: everything written since is gone.

### Further disagreements

The modules state these properties as well: each is what the code, its comments or
its documents say, and TLC finds a behaviour of the code that does otherwise. They
are not among the runs `PROJECT.json` lists. To see one, put it in place of the
INVARIANTS and PROPERTIES of the named `.cfg` (an action property also needs the
SYMMETRY line removed); those with a `.cfg` of their own name need other constants.

| property | configuration | what happens |
|---|---|---|
| `RestartKeepsServing` | `StateRegistry` | a failed history insert leaves table and snapshot apart; a restart changes what is served |
| `RefreshOnlyExtends` | `StateRegistry`, with `Sources = {"probe", "traffic"}` | a refresh rewrites the binding's source, proxy and bound-at |
| `RunOf5xxHeals` | `SelfHealing` | a response hook consumes the record, so the completion's 5xx is not counted and a run of them heals nothing |
| `HealsOnlyWhatWasCarried` | `SelfHealing` | a completion drops the binding that replaced the one it carried |
| `RunIsConsecutive` | `SelfHealing` | a success does not end a run of 5xx |
| `HealedIsReprobed` | `SelfHealing` | healing does not clear the pair's backoff |
| `DiscardedIsReprobed` | `SelfHealing` | a probe already running overwrites the cleared backoff |
| `NoSlotIsLost` | `ProbeScheduler` | a release straddling a resize drains the old channel; scans are blocked by a slot nobody holds |
| `LimitHolds` | `ProbeScheduler` | a shrunk semaphore forgets holders, whose releases then free slots of others |
| `EveryPairIsProbed` | `ProbeStarvation.cfg` | with fewer slots than pairs the last pairs in order are never probed |
| `OffDiscardsInFlight` | its own | a probe running at switch-off binds after the check, or after the switch is on again |
| `GoneLeavesNoToggle` | `AccountRegistry` | a restart forgets which accounts were tracked, so their removal is not noticed and their toggles come back |
| `GoneLeavesNoBinding` | its own | a capture after the drop, or before the first sync, binds an account that no sync will ever drop |
| `ToggleIsPersisted` | `AccountRegistry` | two switches of a toggle write table and memory in different orders |
| `AnswerIsReported` | `AccountRegistry` | `SyncAccount` looks up its account in a view another sync has set back |
| `FaultIsBenched` | `ProbeWalk` | a proxy that hangs uses up the deadline; the write of its mark fails with the expired context before the failure is recorded (`executor.go:338`) |
| `EditsStick` | `ProbeWalk` | a mark's copy, written outside the lock, undoes an edit or a deletion in the table (`proxy_store.go:55`, `pool.go:175`) |
| `WorkersSpread` | `ProbeWalk` | two walks choose the same node before either has stamped it (`pool.go:30`) |
| `UnendedIsHonest` | `CallHistory` | a request that ends while its record is swept, or while the plugin is off, is listed as never finished (`recorder.go:226`) |
| `AllAreReprobed` | `Rules` | the next probe is counted from the probe's end, the binding's life from the minting of its value: an old value is dead before it is probed again (`backoff.go:155`) |
| `TextsFollowTime` | `Routing` | within a second the cursors' texts are not in the order of time, so that the account picked need not be the least recently used one (`scheduler.go:228`, `254`) |
| `MorningLegRunsOver` | `Rules` | `window.go:95` has Tuesday 06:30 inside a window from Monday 22:00 to 06:00; the code and `window_test.go:120` have it outside |
| `LengthIsNotShape` | `Rules` | `envelope.go:163` says that two states of the same length can be of different shapes; no two that `ParseEnvelope` can read are, so shape and length never disagree about those |
| `ScheduleIsKept` | `Rules` | Monday 22:00 to 06:00 also covers Monday from 00:00; clocks such as `+8:00` pass (`window.go:95`, `54`) |
| `SomeBudgetIsEnough` | `Rules` | 99.5 % used is rounded to a spent window, and the account is not probed until its reset (`signals.go:100`) |
| `ProbesTell` | `Rules` | the executor copies an attempt's fields one by one and leaves the signals out, so those of probes never reach the verdict (`executor.go:308`; `scheduler.go:388` calls them "the only source for the plan") |
| `EditsSurvive` | `Rules` | a sync interval of zero or less is accepted and lost at the next start (`settings.go:166`) |
| `NoBareTags` | `Rules` | an environment context that is not closed is treated as none, and tags outside of it are edited (`rewrite.go:191`) |

The proofs found one more limit. A second rewrite of a rewritten body, as of a request
the host sends again, changes nothing only where elements are disjoint
(`ElementsAreDisjoint`), as `RewriteIsStable` says. With one zone element inside
another, such as a date whose text holds a zone element, the edit of the outer one
removes the inner, and the second rewrite edits the next of its kind.

### Fairness

In `ProbeScheduler`, `WF(SpacedScan)`: the loop's timer fires
again after every scan. `WF(Visit)`: the scan goroutine runs. `WF(Work(t))` per
goroutine: a probe ends by its deadline (`MaxProbeDuration`) and everything after
it is local. `FairSpec` adds the timing assumption `Settled`: scans are at least
`MinScanInterval` (five seconds) apart, so a goroutine that has its answer has
finished its local work before the next scan. No fairness is assumed of traffic,
the operator or the lapse of bindings. `QuietSpec`, for the starvation run, has
the same fairness and an operator who leaves everything alone: starvation needs
no unusual action.

In `AccountRegistry`, some sync always starts again (the scan loop syncs at its
interval before it looks at any switch, `probe/scheduler.go:204`), one that has
begun goes on to its end (it makes local calls only, and the host's answer is a
step that has already happened), and the process is not restarted for ever. The
other syncs need not start at all. In `Migration`, `WF(Migrate)`: `Migrate` goes
on and a stopped process is started again; setbacks are bounded.

In `WalkLiveness`, some worker starts a walk for every account again and again
(each scan launches the pairs that are due), a walk goes on to its end, and its
deadline, ten seconds at the least, leaves time for a node at the front of the
queue to be tried: `SF(Stamp(w))`, because a walk that is cut off before its first
node proves nothing about the order. In `CallHistory` records reach their age, the
prune loop sweeps, a goroutine that has unlocked hands over, and the writer runs;
that the host reports a completion is not assumed.

## Proofs

| module | theorems | argument |
|---|---|---|
| `StateRegistryProofs` | `TypeCorrect`, `ServedIsStored`, `HistoryExplainsTable`, `NoValueOutlivesItsIssue`, `Refinement` | the invariant adds to the properties what the operation under way has computed: the row to be written, its relation to the snapshot entry, and that every binding anywhere (table, snapshot, operation) expires within some policy's life of its value's issue |
| | `ShapeAgreesWithLength`, `AnyShapeIsALength` | sixteen bytes more always make a longer text, so lengths tell shapes apart and `BlocksForLength` is the inverse of `EncodedLength` |
| `SelfHealingProofs` | `TypeCorrect`, `StrikesStandForFailures`, `OnlyCarriersAreBlamed`, `NoRunIsMissed` | `HealInv` adds that a request past a decision has a pair and carried a value, that a record tells what was sent and is gone once an answer was seen (`RecordsAreHonest`), and that a failure on file is one of a request that is over, so that no request is counted twice |
| | `ProbesRunAsPromised` | refinement of `PairProbe`: requests, time and the operator never take a pair from `due` |
| | `AnyRewriteIsStable`, `AnyLimitIsKept` | an edit cuts the text out of the first element of its kind and leaves the rest of the body in order; it leaves that element settled, and an edit of another kind keeps it so where elements are disjoint; a body in which everything is settled is left as it is. Fields likewise, one by one |
| `ProbeSchedulerProofs` | `TypeCorrect`, `ProbesAreExclusive`, `SlotsAreCounted`, `LimitIsRespected`, `BusyIsBusy` | exclusiveness needs nothing of the semaphore; counting holds until the limit is changed for the first time (`resized`), for as long the channel is never replaced with holders |
| | `ProbesRunAsPromised` | refinement of `PairProbe`: a pair's probe is as far as the goroutine that has still to put the pair off, of which exclusiveness leaves one at most |
| | `ScheduleMeansItsWindows`, `RefreshComesInTime`, `AnyScheduleIsKept`, `AnyYoungIsReprobed` | window by window, on either side of midnight; the threshold is a part of the life |
| | `EveryWaitIsBounded`, `AnyWaitIsBounded` | the run of wrong shapes is a recursive function of the outcomes and the doubled wait one of the run: both exist and have natural values by induction, so every wait lies between its floor and its cap, the ladder's among them |
| `AccountRegistryProofs` | `TypeCorrect`, `OrphansHaveAReason` | the explanation of an orphan is the sync that still has it to drop, so the invariant adds that a sync which takes a new list or names its next account has nothing left over from before |
| | `QuotaEndsInTime`, `OnlyTimeIsNeeded` | being out of quota is having a deadline to come: the last reset of the spent windows (of two there is a last one) and the retry time; time only takes deadlines away; what signals are recorded, whatever they were, is of that kind |
| `MigrationProofs` | `TypeCorrect`, `SchemaIsKnown`, `NoUpgradeIsLostHalfway` | while a marker is set the newest backup is the recorded one and no other was taken at a later version, so pruning by name spares it; no backup is ever taken under a marker, so restoring one ends the interruption; data is written only at the build's own version, hence outside an upgrade |
| | `EveryStartIsValid`, `EditsAreKept`, `AnyStartIsValid`, `AnyEditIsKept` | the defaults are valid and the bounds are of one setting each, so settings mixed of valid ones and defaults are valid; what was validated and is positive reads back |
| `ProbeWalkProofs` | `TypeCorrect`, `LadderIsBounded`, `BenchesHaveACause` | every walk holds at most one rung that it has still to record, and it read it when the ledger stood lower; so the ledger's count plus the walks that hold such a rung stays bounded, which is counted walk by walk. A bench, saved or on its way, is of a pair that was blamed when its rung was read |
| `RoutingProofs` | `TypeCorrect`, `NobodyIsOutranked`, `AccountsTakeTurns` | for the tiers: all that a request has still to read, and the best so far, lie in the tier it began with, and the cursors may be anything. For the turns see below |
| `CallHistoryProofs` | `TypeCorrect`, `EveryCallIsOnce` | every step moves calls from one of the seven places to another; the invariant adds that neither the list of the pending nor the lists on the way to the table name anything twice, so that taking one out takes it out for good |

**Turns.** `Rotates` bounds how often an account `a` is passed over, counted from the
end of the second of its cursor. It is not inductive: a stored text may be old when it
is stored, and a request may choose from what it read before. Nothing is assumed of
the order of the texts within a second; all that is used is that a text noted now is
later than any of a second that is over (`TextOfNow`, `SecondsInOrder`). While `a`'s
second lasts the count is 0 (`TurnOf`). Afterwards the proof counts what may still
happen. Of `a`'s priority, the accounts *ahead* of it (no later cursor) can each be
picked once by each of the *m* requests. A request *lags* that is about to store a text
no later than `a`'s: it may put an account ahead again. A request is *due* that passes
`a` over although what it has picked, or is bound to pick from what it has read, is not
ahead. `Debt` is m times the accounts ahead, plus the requests due, plus m times the
laggards and, unless everybody is ahead already, the laggards once more. Every step
without a setback leaves `passed[a] + Debt` where it is or lowers it: a new text stored
takes an account from those ahead, and at most m - 1 requests come to be due by it,
because the one that stored is idle; an old text stored takes a laggard. A setback adds
one. When the second ends (`TimeTurns`) the count is 0 and the debt, whatever it has
become, at most (n - 1) m + m m, because no request is both due and a laggard
(`NoneIsBoth`, `DebtIsCovered`); hence the bound. TLC checked `passed[a] + Debt` as an
invariant before it was proved.

**Rules.** The rule theorems hold for every input of the types the rule modules
state, where the run `Rules` takes small sets: each assumes that `input` is one of
these and proves the property the run checks. They are in the proof module of the
component of the same Go package, which extends the rule's module; those of the
settings are in `MigrationProofs`, as it is the database that keeps their rows, and
those of the rewrite in `SelfHealingProofs`, as it is the hooks that call it. Where
they need induction (the doubled waits, the runs of outcomes, the edits of a body) it
is over a set of naturals: a non-empty set has a least member (`Least`), so a set
that holds 0 and the successor of each of its members holds all
(`NatSetInduction`); the recursive functions exist by the union of their
approximations (`Recursion`).

**Probes.** `SelfHealing` has one process per pair where the code has a scan loop,
goroutines and a semaphore. That this is sound was an assumption; `PairProbe` makes it
two theorems. Stating it showed that `SelfHealing` had been too narrow: it started a
probe, and bound its value, only while the switch was on, which `ProbeScheduler` does
not guarantee. Its probe now has the steps of `PairProbe`. TLC checked both
refinements before they were proved (`SelfHealing.cfg` with two requests,
`ProbeScheduler.cfg` with two goroutines, without symmetry).

The proofs use only the named assumptions on the constants. `SlotsMatch`,
`NeverOverLimit` and `BlockedOnlyWhenBusy` are false once the limit changes, as
`NoSlotIsLost` and `LimitHolds` show, hence the hypothesis in their statements.
`InterruptedIsRecoverable` is proved for builds that only become newer: an older
build of the very version an upgrade was stopped at would run on the half-upgraded
database and write to it, and the backup would then lack those writes.

Only model-checked: the liveness properties `EveryPairIsProbed`, `ViewConverges`,
`UpgradeCompletes`, `EveryNodeIsTried` and `EveryCallIsSettled` (liveness under
fairness is beyond the prover), and what the violated properties show, each of which
is one counterexample. Every invariant and every safety property of an action that a
run checks is also a theorem.

## Not modelled

`PROJECT.json` names for every component what is left out. In short:

- Text: the parsing of headers, JSON escapes and number syntax in the timezone
  rewrite, the body sniffing of `isModelUnsupported`, wording and summaries of
  verdicts. They are classes of values where a decision depends on them.
- The plugin adapter, the HTTP handlers and the panel: marshalling around calls that
  are actions of the components' modules. Handlers that only list are left out.
- Counters and the rows of the probe history: nothing decides on them.
- `WindowManager`, which reads the list back after each edit; a list read earlier may
  be installed later, until the next edit.
- Model lists and `LoadModels`, `ForgetModel`. Read while modelling: a fetch that
  fails stores the list it found when it began over one fetched meanwhile; one that
  fails for the first time leaves a catalog entry, so that `MissingModelLists` does not
  offer it again although the loop in `app.go` says it is retried.
- Steps of the wall clock backwards, and the text of times in the pruning of the two
  histories.
- `Recorder.Response`, which fills fields of a pending record.
