---------------------------- MODULE ProbeScheduler ----------------------------
(***************************************************************************)
(* The probe scheduler (internal/probe/scheduler.go): one scan loop that   *)
(* launches a goroutine per due pair, and the semaphore that limits them.  *)
(*                                                                         *)
(* A scan works from one snapshot of the settings and visits the pairs in  *)
(* sorted order.  Time is counted in scans: next_probe_at is the number of *)
(* scans until the pair is due again.  A goroutine's steps, its two        *)
(* deferred calls and the two halves of release are steps of their own,    *)
(* because the scan loop, the operator and other goroutines run between    *)
(* them.                                                                   *)
(***************************************************************************)
EXTENDS Integers, FiniteSets

CONSTANTS Pairs,   \* the pairs with probing enabled
          Rank,    \* their place in the sorted list of EnabledPairs
          Tasks,   \* bound on the probe goroutines alive at once
          Sizes,   \* the probe_concurrency settings an operator may choose
          Delays,  \* what NextDelay may return, in scans
          NoPair

ASSUME RankAssumption == Rank \in [Pairs -> Nat \ {0}]
ASSUME TasksAssumption == IsFiniteSet(Tasks)
ASSUME SizesAssumption == Sizes \subseteq Nat \ {0}
ASSUME DelaysAssumption == Delays \subseteq Nat \ {0}
ASSUME NoPairAssumption == NoPair \notin Pairs

VARIABLES wait,      \* scans until next_probe_at, per pair
          inFlight,  \* pairs whose inFlight flag is set
          fresh,     \* pairs whose binding is StatusFresh
          phase,     \* what each goroutine is doing
          target,    \* the pair it probes
          size,      \* semSize
          tokens,    \* len(sem)
          todo,      \* pairs the scan under way has still to visit
          limit,     \* ProbeConcurrency in the scan's snapshot
          conc,      \* ProbeConcurrency in the current settings
          on,        \* Capabilities().Probe in the current settings
          crossed,   \* history: goroutines alive when probing was switched off
          resized    \* history: ProbeConcurrency has been changed

vars == <<wait, inFlight, fresh, phase, target, size, tokens, todo, limit, conc,
          on, crossed, resized>>

pairState == <<wait, inFlight>>
tasks == <<phase, target, crossed>>
sem == <<size, tokens>>
scan == <<todo, limit>>
settings == <<conc, on, resized>>

\* In the order a goroutine goes through them.  A draining goroutine has read
\* the channel it will receive from; a stray one has read a replaced channel.
Phases == {"none", "asking", "binding", "scheduling", "leaving",
           "releasing", "draining", "stray"}
Flagged == {"asking", "binding", "scheduling", "leaving"}

Live == {t \in Tasks : phase[t] # "none"}

Init ==
    /\ wait \in {[p \in Pairs |-> 0], Rank}   \* a first install, and seedJitter
    /\ inFlight = {}
    /\ fresh \in SUBSET Pairs
    /\ phase = [t \in Tasks |-> "none"]
    /\ target = [t \in Tasks |-> NoPair]
    /\ size = 0
    /\ tokens = 0
    /\ todo = {}
    /\ limit = 0
    /\ conc \in Sizes
    /\ on \in BOOLEAN
    /\ crossed = {}
    /\ resized = FALSE

-----------------------------------------------------------------------------
(* The scan loop *)

\* The timer fires.  With probing switched off the scan ends at once.
StartScan ==
    /\ todo = {}
    /\ wait' = [p \in Pairs |-> IF wait[p] > 0 THEN wait[p] - 1 ELSE 0]
    /\ todo' = IF on THEN Pairs ELSE {}
    /\ limit' = conc
    /\ UNCHANGED <<inFlight, fresh, tasks, sem, settings>>

\* Mutant of Due: the inFlight flag is not consulted.
DueWhileInFlight(p) == wait[p] = 0

Due(p) == p \notin inFlight /\ wait[p] = 0

IsNext(p) == p \in todo /\ \A q \in todo : Rank[p] <= Rank[q]

\* Not due, or its binding is fresh: on to the next pair.
Skip(p) ==
    /\ IsNext(p)
    /\ ~Due(p) \/ p \in fresh
    /\ todo' = todo \ {p}
    /\ UNCHANGED <<pairState, fresh, tasks, sem, limit, settings>>

\* Mutant of Carried: a smaller channel is given more tokens than it has room for.
CarriedAll == tokens

\* The slots in use once acquire has rebuilt the channel for another size: as
\* many of those held as fit.
Carried == IF size = limit \/ tokens < limit THEN tokens ELSE limit

\* A goroutine that has read the old channel will drain the old channel.
Strayed == [t \in Tasks |->
               IF size # limit /\ phase[t] = "draining" THEN "stray" ELSE phase[t]]

\* acquire succeeds: the pair is marked and its goroutine starts.
Launch(p, t) ==
    /\ IsNext(p) /\ Due(p) /\ p \notin fresh
    /\ phase[t] = "none"
    /\ Carried < limit
    /\ tokens' = Carried + 1
    /\ size' = limit
    /\ phase' = [Strayed EXCEPT ![t] = "asking"]
    /\ target' = [target EXCEPT ![t] = p]
    /\ inFlight' = inFlight \cup {p}
    /\ todo' = todo \ {p}
    /\ UNCHANGED <<wait, fresh, limit, settings, crossed>>

\* acquire finds no free slot: the whole scan ends here.
Full(p) ==
    /\ IsNext(p) /\ Due(p) /\ p \notin fresh
    /\ Carried >= limit
    /\ tokens' = Carried
    /\ size' = limit
    /\ phase' = Strayed
    /\ todo' = {}
    /\ UNCHANGED <<pairState, fresh, target, crossed, limit, settings>>

-----------------------------------------------------------------------------
(* A probe's goroutine *)

Goes(t, from, to) == phase[t] = from /\ phase' = [phase EXCEPT ![t] = to]

\* The probe has answered while probing is on; the result is worth binding or
\* not.
Answer(t) ==
    /\ on
    /\ Goes(t, "asking", "binding") \/ Goes(t, "asking", "scheduling")
    /\ UNCHANGED <<pairState, fresh, target, crossed, sem, scan, settings>>

\* The switch was turned off meanwhile: the result is discarded, and the pair
\* is not scheduled.
Discard(t) ==
    /\ ~on
    /\ Goes(t, "asking", "leaving")
    /\ UNCHANGED <<pairState, fresh, target, crossed, sem, scan, settings>>

\* doBind, which may fail.
Bind(t) ==
    /\ Goes(t, "binding", "scheduling")
    /\ fresh' = fresh \cup {target[t]}
    /\ UNCHANGED <<pairState, target, crossed, sem, scan, settings>>

BindFails(t) ==
    /\ Goes(t, "binding", "scheduling")
    /\ UNCHANGED <<pairState, fresh, target, crossed, sem, scan, settings>>

Schedule(t) ==
    /\ Goes(t, "scheduling", "leaving")
    /\ \E d \in Delays : wait' = [wait EXCEPT ![target[t]] = d]
    /\ UNCHANGED <<inFlight, fresh, target, crossed, sem, scan, settings>>

\* The deferred markInFlight(p, false).
Unflag(t) ==
    /\ Goes(t, "leaving", "releasing")
    /\ inFlight' = inFlight \ {target[t]}
    /\ UNCHANGED <<wait, fresh, target, crossed, sem, scan, settings>>

\* release reads the channel under the lock ...
ReadSem(t) ==
    /\ Goes(t, "releasing", "draining")
    /\ UNCHANGED <<pairState, fresh, target, crossed, sem, scan, settings>>

\* Mutant of Freed: the slot is kept.
FreedNever == tokens

\* Mutant of Freed: every slot is given back.
FreedAll == 0

\* One slot less, if there is one.
Freed == IF tokens > 0 THEN tokens - 1 ELSE 0

\* ... and receives from it outside the lock.
Drain(t) ==
    /\ Goes(t, "draining", "none")
    /\ tokens' = Freed
    /\ target' = [target EXCEPT ![t] = NoPair]
    /\ crossed' = crossed \ {t}
    /\ UNCHANGED <<pairState, fresh, size, scan, settings>>

\* The channel it read has been replaced: nothing anyone uses changes.
DrainOld(t) ==
    /\ Goes(t, "stray", "none")
    /\ target' = [target EXCEPT ![t] = NoPair]
    /\ crossed' = crossed \ {t}
    /\ UNCHANGED <<pairState, fresh, sem, scan, settings>>

-----------------------------------------------------------------------------
(* Traffic, the operator and the clock *)

\* ProbeNow, after a delete or a stale binding.
ProbeNow(p) ==
    /\ wait[p] > 0
    /\ wait' = [wait EXCEPT ![p] = 0]
    /\ UNCHANGED <<inFlight, fresh, tasks, sem, scan, settings>>

\* A binding leaves its fresh period or is removed ...
Lapse(p) ==
    /\ p \in fresh
    /\ fresh' = fresh \ {p}
    /\ UNCHANGED <<pairState, tasks, sem, scan, settings>>

\* ... and traffic supplies one.
Capture(p) ==
    /\ p \notin fresh
    /\ fresh' = fresh \cup {p}
    /\ UNCHANGED <<pairState, tasks, sem, scan, settings>>

SwitchOff ==
    /\ on
    /\ on' = FALSE
    /\ crossed' = Live
    /\ UNCHANGED <<pairState, fresh, phase, target, sem, scan, conc, resized>>

SwitchOn ==
    /\ ~on
    /\ on' = TRUE
    /\ UNCHANGED <<pairState, fresh, tasks, sem, scan, conc, resized>>

Resize(n) ==
    /\ n # conc
    /\ conc' = n
    /\ resized' = TRUE
    /\ UNCHANGED <<pairState, fresh, tasks, sem, scan, on>>

Visit(p) == Skip(p) \/ Full(p) \/ \E t \in Tasks : Launch(p, t)

Work(t) == Answer(t) \/ Discard(t) \/ Bind(t) \/ BindFails(t) \/ Schedule(t)
           \/ Unflag(t) \/ ReadSem(t) \/ Drain(t) \/ DrainOld(t)

Next ==
    \/ StartScan
    \/ \E p \in Pairs : Visit(p)
    \/ \E t \in Tasks : Work(t)
    \/ \E p \in Pairs : ProbeNow(p) \/ Lapse(p) \/ Capture(p)
    \/ SwitchOff \/ SwitchOn
    \/ \E n \in Sizes : Resize(n)

Spec == Init /\ [][Next]_vars

\* Scans are seconds apart at least (MinScanInterval) and all that follows the
\* answer is local: a goroutine that has its answer has released its slot
\* before the next scan starts.
Settled == \A t \in Tasks : phase[t] \in {"none", "asking"}

SpacedScan == StartScan /\ Settled

Probing ==
    \/ SpacedScan
    \/ \E p \in Pairs : Visit(p)
    \/ \E t \in Tasks : Work(t)

\* The loop's timer fires again and again, a scan visits its pairs, and every
\* goroutine runs: a probe ends by its deadline at the latest.
Fairness ==
    /\ WF_vars(SpacedScan)
    /\ WF_vars(\E p \in Pairs : Visit(p))
    /\ \A t \in Tasks : WF_vars(Work(t))

FairSpec ==
    /\ Init
    /\ [][Next /\ (StartScan => Settled)]_vars
    /\ Fairness

\* The scheduler by itself: bindings age, but no one deletes, captures, probes
\* by hand or changes a setting.
QuietSpec ==
    /\ Init
    /\ [][Probing \/ \E p \in Pairs : Lapse(p)]_vars
    /\ Fairness

-----------------------------------------------------------------------------
(* Properties *)

\* Every variable has its type.
TypeOK ==
    /\ wait \in [Pairs -> Nat]
    /\ inFlight \subseteq Pairs
    /\ fresh \subseteq Pairs
    /\ phase \in [Tasks -> Phases]
    /\ target \in [Tasks -> Pairs \cup {NoPair}]
    /\ \A t \in Tasks : phase[t] # "none" => target[t] \in Pairs
    /\ size \in Nat /\ tokens \in 0..size
    /\ todo \subseteq Pairs
    /\ limit \in Nat /\ conc \in Nat
    /\ on \in BOOLEAN /\ resized \in BOOLEAN
    /\ crossed \subseteq Live

Holds(t, p) == target[t] = p /\ phase[t] \in Flagged

\* A pair is marked in flight exactly while one goroutine is probing it, and
\* never are two: no schedule of scans, releases and resizes doubles a probe,
\* and no path out of runProbe leaves a flag behind that would block the pair
\* for ever.
OneProbePerPair ==
    \A p \in Pairs :
        /\ p \in inFlight <=> \E t \in Tasks : Holds(t, p)
        /\ \A t, u \in Tasks : Holds(t, p) /\ Holds(u, p) => t = u

\* The channel holds one token for every goroutine that has not released, as
\* long as the setting is left alone; a resize breaks it both ways, which
\* LimitHolds and NoSlotIsLost show.
SlotsMatch == ~resized => tokens = Cardinality(Live)

\* Design document 3.5 and item 11 of its checklist: no more probes run at a
\* time than the limit allows.  No launch exceeds the limit its scan works
\* with, as long as the setting is left alone ...
NeverOverLimit ==
    [][\A p \in Pairs, t \in Tasks :
          Launch(p, t) /\ ~resized => Cardinality(Live') <= limit]_vars

\* ... and at all times, as the document has it.
LimitHolds ==
    [][\A p \in Pairs, t \in Tasks : Launch(p, t) => Cardinality(Live') <= limit]_vars

\* scheduler.go:248: a scan gives up because "every slot is busy", as long as
\* the setting is left alone ...
BlockedOnlyWhenBusy ==
    [][\A p \in Pairs : Full(p) /\ ~resized => Cardinality(Live) >= limit]_vars

\* ... and at all times.
NoSlotIsLost ==
    [][\A p \in Pairs : Full(p) => Cardinality(Live) >= limit]_vars

\* Design document 3.3: a request that was running when probing was switched
\* off may end, but its result must not be written as a binding.
OffDiscardsInFlight ==
    [][\A t \in Tasks : Bind(t) => t \notin crossed]_vars

\* scheduler.go:248: a pair that finds every slot busy is picked up by the next
\* tick; at the latest by some tick, so a pair in want of a binding is probed.
EveryPairIsProbed ==
    \A p \in Pairs :
        on /\ p \notin fresh ~> p \in inFlight \/ p \in fresh \/ ~on

-----------------------------------------------------------------------------
(* What the rest of the plugin sees of the goroutines *)

\* The goroutine has still to put its pair off.
Probes(t, p) == target[t] = p /\ phase[t] \in {"asking", "binding", "scheduling"}

ProbeOf(p) ==
    IF \E t \in Tasks : Probes(t, p) THEN phase[CHOOSE t \in Tasks : Probes(t, p)]
    ELSE "idle"

Seen == INSTANCE PairProbe WITH
            due <- {p \in Pairs : wait[p] = 0},
            probe <- [p \in Pairs |-> ProbeOf(p)]

\* The scans, the goroutines and the semaphore amount to one probe per pair,
\* which is what SelfHealing has run beside the requests.
ProbesAsPromised == Seen!Spec
=============================================================================
