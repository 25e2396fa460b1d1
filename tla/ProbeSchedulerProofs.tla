------------------------- MODULE ProbeSchedulerProofs -------------------------
(***************************************************************************)
(* What the scheduler guarantees for any number of pairs and goroutines,   *)
(* any settings and any delays.                                            *)
(*                                                                         *)
(* OneProbePerPair is inductive with the types.  SlotsMatch holds as long  *)
(* as the limit is left alone: the channel is built once, by the first     *)
(* acquire, when no goroutine lives, so none ever drains a channel that    *)
(* has been replaced.                                                      *)
(*                                                                         *)
(* Then: the goroutines amount to one probe per pair (PairProbe), and the  *)
(* scheduler's rules, when to probe (TimeWindow) and how long to wait      *)
(* (Backoff), keep their promises for every input.                         *)
(***************************************************************************)
EXTENDS ProbeScheduler, TimeWindow, Backoff, FiniteSetTheorems, WellFoundedInduction, TLAPS

\* The slot accounting under one limit.
SlotInv ==
    /\ tokens = Cardinality(Live)
    /\ todo # {} => limit = conc
    /\ size = 0 \/ size = conc
    /\ size = 0 => Live = {}
    /\ \A t \in Tasks : phase[t] # "stray"

-----------------------------------------------------------------------------
\* acquire never leaves more tokens in the channel than it has room for.
LEMMA CarriedFits ==
    ASSUME TypeOK
    PROVE  Carried \in 0..limit
  BY DEF TypeOK, Carried

LEMMA StrayedType ==
    ASSUME TypeOK
    PROVE  /\ Strayed \in [Tasks -> Phases]
           /\ \A t \in Tasks : /\ Strayed[t] = "none" <=> phase[t] = "none"
                               /\ Strayed[t] \in Flagged <=> phase[t] \in Flagged
  BY DEF TypeOK, Strayed, Phases, Flagged

-----------------------------------------------------------------------------
\* Every variable keeps its type: above all, the semaphore never holds more
\* tokens than its size, whenever it is resized.
THEOREM TypeCorrect == Spec => []TypeOK
  <1>1. Init => TypeOK
    <2> SUFFICES ASSUME Init PROVE TypeOK
      OBVIOUS
    <2>1. wait \in [Pairs -> Nat]
      BY RankAssumption DEF Init
    <2>2. on \in BOOLEAN /\ resized \in BOOLEAN
      BY DEF Init
    <2>. QED  BY <2>1, <2>2, SizesAssumption DEF Init, TypeOK, Phases, Live
  <1>2. TypeOK /\ [Next]_vars => TypeOK'
    <2> SUFFICES ASSUME TypeOK, [Next]_vars PROVE TypeOK'
      OBVIOUS
    <2> USE DEF TypeOK, Live
    <2>1. CASE StartScan
      BY <2>1 DEF StartScan, tasks, sem, settings
    <2>2. ASSUME NEW p \in Pairs, Skip(p) PROVE TypeOK'
      BY <2>2 DEF Skip, pairState, tasks, sem, settings
    <2>3. ASSUME NEW p \in Pairs, NEW t \in Tasks, Launch(p, t) PROVE TypeOK'
      <3>1. tokens' \in 0..size' /\ size' \in Nat
        BY <2>3, CarriedFits DEF Launch
      <3>2. phase' \in [Tasks -> Phases]
        BY <2>3, StrayedType DEF Launch, Phases
      <3>3. \A u \in Tasks : phase'[u] # "none" <=> u = t \/ phase[u] # "none"
        BY <2>3, StrayedType DEF Launch
      <3>. QED  BY <2>3, <3>1, <3>2, <3>3 DEF Launch, settings
    <2>4. ASSUME NEW p \in Pairs, Full(p) PROVE TypeOK'
      BY <2>4, CarriedFits, StrayedType DEF Full, pairState, settings
    <2>5. ASSUME NEW t \in Tasks, Work(t) PROVE TypeOK'
      <3> USE DEF Goes, Phases, pairState, sem, scan, settings
      <3>1. CASE Answer(t) \/ Discard(t) \/ BindFails(t) \/ ReadSem(t)
        BY <3>1 DEF Answer, Discard, BindFails, ReadSem
      <3>2. CASE Bind(t)
        BY <3>2 DEF Bind
      <3>3. CASE Schedule(t)
        BY <3>3, DelaysAssumption DEF Schedule
      <3>4. CASE Unflag(t)
        BY <3>4 DEF Unflag
      <3>5. CASE Drain(t)
        BY <3>5 DEF Drain, Freed
      <3>6. CASE DrainOld(t)
        BY <3>6 DEF DrainOld
      <3>. QED  BY <2>5, <3>1, <3>2, <3>3, <3>4, <3>5, <3>6 DEF Work
    <2>6. ASSUME NEW p \in Pairs, ProbeNow(p) \/ Lapse(p) \/ Capture(p) PROVE TypeOK'
      BY <2>6 DEF ProbeNow, Lapse, Capture, pairState, tasks, sem, scan, settings
    <2>7. CASE SwitchOff \/ SwitchOn
      BY <2>7 DEF SwitchOff, SwitchOn, pairState, tasks, sem, scan
    <2>8. ASSUME NEW n \in Sizes, Resize(n) PROVE TypeOK'
      BY <2>8, SizesAssumption DEF Resize, pairState, tasks, sem, scan
    <2>9. CASE UNCHANGED vars
      BY <2>9 DEF vars
    <2>. QED  BY <2>1, <2>2, <2>3, <2>4, <2>5, <2>6, <2>7, <2>8, <2>9 DEF Next, Visit
  <1>. QED  BY <1>1, <1>2, PTL DEF Spec

-----------------------------------------------------------------------------
\* A pair is in flight exactly while one goroutine is probing it, whatever the
\* scans, releases, switches and resizes do around it.
THEOREM ProbesAreExclusive == Spec => []OneProbePerPair
  <1> USE DEF OneProbePerPair, Holds
  <1>1. Init => OneProbePerPair
    BY NoPairAssumption DEF Init, Flagged
  <1>2. TypeOK /\ OneProbePerPair /\ [Next]_vars => OneProbePerPair'
    <2> SUFFICES ASSUME TypeOK, OneProbePerPair, [Next]_vars PROVE OneProbePerPair'
      OBVIOUS
    <2>1. CASE StartScan
      BY <2>1 DEF StartScan, tasks
    <2>2. ASSUME NEW p \in Pairs, Skip(p) PROVE OneProbePerPair'
      BY <2>2 DEF Skip, pairState, tasks
    <2>3. ASSUME NEW p \in Pairs, NEW t \in Tasks, Launch(p, t) PROVE OneProbePerPair'
      <3>1. \A u \in Tasks : phase'[u] \in Flagged <=> u = t \/ phase[u] \in Flagged
        BY <2>3, StrayedType DEF Launch, Flagged, TypeOK
      <3>2. \A u \in Tasks : target'[u] = IF u = t THEN p ELSE target[u]
        BY <2>3 DEF Launch, TypeOK
      <3>3. phase[t] \notin Flagged /\ p \notin inFlight /\ inFlight' = inFlight \cup {p}
        BY <2>3 DEF Launch, Due, Flagged
      <3>. QED  BY <3>1, <3>2, <3>3
    <2>4. ASSUME NEW p \in Pairs, Full(p) PROVE OneProbePerPair'
      BY <2>4, StrayedType DEF Full, pairState
    <2>5. ASSUME NEW t \in Tasks, Work(t) PROVE OneProbePerPair'
      <3> USE DEF Goes, Flagged, TypeOK, pairState
      <3>1. CASE \/ Answer(t) \/ Discard(t) \/ Bind(t) \/ BindFails(t)
                 \/ Schedule(t) \/ ReadSem(t)
        BY <3>1 DEF Answer, Discard, Bind, BindFails, Schedule, ReadSem
      <3>2. CASE Unflag(t)
        <4>1. \A u \in Tasks : phase'[u] \in Flagged <=> u # t /\ phase[u] \in Flagged
          BY <3>2 DEF Unflag
        <4>2. inFlight' = inFlight \ {target[t]} /\ UNCHANGED target /\ Holds(t, target[t])
          BY <3>2 DEF Unflag
        <4>. QED  BY <4>1, <4>2
      <3>3. CASE Drain(t) \/ DrainOld(t)
        <4>1. \A u \in Tasks : /\ phase'[u] \in Flagged <=> phase[u] \in Flagged
                               /\ u # t => target'[u] = target[u]
          BY <3>3 DEF Drain, DrainOld
        <4>2. phase[t] \notin Flagged /\ UNCHANGED inFlight
          BY <3>3 DEF Drain, DrainOld
        <4>. QED  BY <4>1, <4>2
      <3>. QED  BY <2>5, <3>1, <3>2, <3>3 DEF Work
    <2>6. ASSUME NEW p \in Pairs, ProbeNow(p) \/ Lapse(p) \/ Capture(p) PROVE OneProbePerPair'
      BY <2>6 DEF ProbeNow, Lapse, Capture, pairState, tasks
    <2>7. CASE SwitchOff \/ SwitchOn
      BY <2>7 DEF SwitchOff, SwitchOn, pairState, tasks
    <2>8. ASSUME NEW n \in Sizes, Resize(n) PROVE OneProbePerPair'
      BY <2>8 DEF Resize, pairState, tasks
    <2>9. CASE UNCHANGED vars
      BY <2>9 DEF vars
    <2>. QED  BY <2>1, <2>2, <2>3, <2>4, <2>5, <2>6, <2>7, <2>8, <2>9 DEF Next, Visit
  <1>. QED  BY TypeCorrect, <1>1, <1>2, PTL DEF Spec

-----------------------------------------------------------------------------
LEMMA LiveIsFinite == IsFiniteSet(Live) /\ Cardinality(Live) \in Nat
  BY TasksAssumption, FS_Subset, FS_CardinalityType DEF Live

\* A goroutine that starts is one more, one that ends is one less.
LEMMA LiveGrows ==
    ASSUME NEW t \in Tasks, phase[t] = "none", Live' = Live \cup {t}
    PROVE  Cardinality(Live') = Cardinality(Live) + 1
  BY LiveIsFinite, FS_AddElement DEF Live

LEMMA LiveShrinks ==
    ASSUME NEW t \in Tasks, phase[t] # "none", Live' = Live \ {t}
    PROVE  Cardinality(Live') = Cardinality(Live) - 1 /\ Cardinality(Live) > 0
  <1>1. t \in Live
    BY DEF Live
  <1>2. Cardinality(Live \ {t}) = Cardinality(Live) - 1
    BY <1>1, LiveIsFinite, FS_RemoveElement
  <1>3. Cardinality(Live) # 0
    BY <1>1, LiveIsFinite, FS_EmptySet
  <1>. QED  BY <1>2, <1>3, LiveIsFinite

\* Nothing takes a resize back.
LEMMA ResizedStays ==
    ASSUME TypeOK, [Next]_vars, ~resized'
    PROVE  ~resized
  <1> USE DEF settings
  <1>1. ASSUME NEW p \in Pairs, Visit(p) PROVE UNCHANGED resized
    BY <1>1 DEF Visit, Skip, Full, Launch
  <1>2. ASSUME NEW t \in Tasks, Work(t) PROVE UNCHANGED resized
    BY <1>2 DEF Work, Answer, Discard, Bind, BindFails, Schedule, Unflag, ReadSem, Drain, DrainOld
  <1>3. ASSUME NEW p \in Pairs, ProbeNow(p) \/ Lapse(p) \/ Capture(p) PROVE UNCHANGED resized
    BY <1>3 DEF ProbeNow, Lapse, Capture
  <1>4. CASE StartScan \/ SwitchOff \/ SwitchOn \/ UNCHANGED vars
    BY <1>4 DEF StartScan, SwitchOff, SwitchOn, vars
  <1>5. ASSUME NEW n \in Sizes, Resize(n) PROVE FALSE
    BY <1>5 DEF Resize
  <1>. QED  BY <1>1, <1>2, <1>3, <1>4, <1>5 DEF Next

\* While the limit is left alone, the slot accounting is inductive.
LEMMA SlotInvStep ==
    ASSUME TypeOK, SlotInv, [Next]_vars, ~resized'
    PROVE  SlotInv'
  <1> USE DEF SlotInv
  <1>1. ASSUME UNCHANGED <<phase, tokens, size, conc>>, todo' # {} => limit' = conc
        PROVE  SlotInv'
    BY <1>1 DEF Live
  <1>2. CASE StartScan
    BY <1>1, <1>2 DEF StartScan, tasks, sem, settings
  <1>3. ASSUME NEW p \in Pairs, Skip(p) PROVE SlotInv'
    BY <1>1, <1>3 DEF Skip, IsNext, tasks, sem, settings
  <1>4. ASSUME NEW p \in Pairs, IsNext(p)
        PROVE  Carried = tokens /\ Strayed = phase /\ limit = conc
    <2>1. limit = conc
      BY <1>4 DEF IsNext
    <2>2. size = 0 => tokens = 0 /\ \A t \in Tasks : phase[t] = "none"
      BY DEF Live, TypeOK
    <2>3. Carried = tokens
      BY <2>1, <2>2 DEF Carried, TypeOK
    <2>4. \A t \in Tasks : Strayed[t] = phase[t]
      BY <2>1, <2>2 DEF Strayed
    <2>5. Strayed = phase
      BY <2>4, StrayedType DEF TypeOK
    <2>. QED  BY <2>1, <2>3, <2>5
  <1>5. ASSUME NEW p \in Pairs, NEW t \in Tasks, Launch(p, t) PROVE SlotInv'
    <2>1. tokens' = tokens + 1 /\ size' = conc /\ phase' = [phase EXCEPT ![t] = "asking"]
          /\ UNCHANGED <<conc, limit>> /\ limit = conc
      BY <1>4, <1>5 DEF Launch, settings
    <2>2. Live' = Live \cup {t}
      BY <2>1 DEF Live, TypeOK
    <2>3. Cardinality(Live') = Cardinality(Live) + 1
      BY <1>5, <2>2, LiveGrows DEF Launch
    <2>4. tokens' = Cardinality(Live') /\ size' # 0
      <3>1. tokens < limit /\ tokens \in Nat
        BY <1>4, <1>5 DEF Launch, TypeOK
      <3>. QED  BY <2>1, <2>3, <3>1
    <2>5. \A u \in Tasks : phase'[u] # "stray"
      BY <2>1 DEF TypeOK
    <2>. QED  BY <2>1, <2>4, <2>5 DEF TypeOK
  <1>6. ASSUME NEW p \in Pairs, Full(p) PROVE SlotInv'
    <2>1. tokens' = tokens /\ size' = conc /\ phase' = phase /\ todo' = {}
          /\ UNCHANGED conc
      BY <1>4, <1>6 DEF Full, settings
    <2>. QED  BY <2>1 DEF Live
  <1>7. ASSUME NEW t \in Tasks, Work(t) PROVE SlotInv'
    <2> USE DEF Goes, sem, scan, settings
    <2>1. CASE \/ Answer(t) \/ Discard(t) \/ Bind(t) \/ BindFails(t)
               \/ Schedule(t) \/ Unflag(t) \/ ReadSem(t)
      <3>1. UNCHANGED <<tokens, size, conc, limit, todo>>
        BY <2>1 DEF Answer, Discard, Bind, BindFails, Schedule, Unflag, ReadSem
      <3>2. \A u \in Tasks : /\ phase'[u] = "none" <=> phase[u] = "none"
                             /\ phase'[u] # "stray"
        BY <2>1 DEF Answer, Discard, Bind, BindFails, Schedule, Unflag, ReadSem, TypeOK
      <3>3. Live' = Live
        BY <3>2 DEF Live
      <3>. QED  BY <3>1, <3>2, <3>3
    <2>2. CASE Drain(t)
      <3>1. phase[t] # "none" /\ phase' = [phase EXCEPT ![t] = "none"]
            /\ UNCHANGED <<size, conc, limit, todo>> /\ tokens' = Freed
        BY <2>2 DEF Drain
      <3>2. Live' = Live \ {t}
        BY <3>1 DEF Live, TypeOK
      <3>3. Cardinality(Live') = Cardinality(Live) - 1 /\ Cardinality(Live) > 0
        BY <3>1, <3>2, LiveShrinks
      <3>4. tokens' = tokens - 1
        BY <3>1, <3>3 DEF Freed
      <3>5. tokens' = Cardinality(Live')
        BY <3>3, <3>4
      <3>6. size' = 0 => Live' = {}
        BY <3>1, <3>2
      <3>7. \A u \in Tasks : phase'[u] # "stray"
        BY <3>1 DEF TypeOK
      <3>. QED  BY <3>1, <3>5, <3>6, <3>7
    <2>3. CASE DrainOld(t)
      BY <2>3 DEF DrainOld
    <2>. QED  BY <1>7, <2>1, <2>2, <2>3 DEF Work
  <1>8. ASSUME NEW p \in Pairs, ProbeNow(p) \/ Lapse(p) \/ Capture(p) PROVE SlotInv'
    BY <1>1, <1>8 DEF ProbeNow, Lapse, Capture, tasks, sem, scan, settings
  <1>9. CASE SwitchOff \/ SwitchOn
    BY <1>1, <1>9 DEF SwitchOff, SwitchOn, tasks, sem, scan
  <1>10. ASSUME NEW k \in Sizes, Resize(k) PROVE SlotInv'
    BY <1>10 DEF Resize
  <1>11. CASE UNCHANGED vars
    BY <1>1, <1>11 DEF vars
  <1>. QED
    BY <1>2, <1>3, <1>5, <1>6, <1>7, <1>8, <1>9, <1>10, <1>11 DEF Next, Visit

\* The semaphore counts exactly the goroutines that have not released, as long
\* as the limit is left alone: no slot is lost and none is given away twice.
THEOREM SlotsAreCounted == Spec => []SlotsMatch
  <1>1. Init => (~resized => SlotInv)
    <2> SUFFICES ASSUME Init PROVE SlotInv
      OBVIOUS
    <2>1. Live = {}
      BY DEF Init, Live
    <2>. QED  BY <2>1, FS_EmptySet DEF Init, SlotInv
  <1>2. TypeOK /\ (~resized => SlotInv) /\ [Next]_vars => (~resized => SlotInv)'
    <2> SUFFICES ASSUME TypeOK, ~resized => SlotInv, [Next]_vars, ~resized'
                 PROVE  SlotInv'
      OBVIOUS
    <2>1. ~resized
      BY ResizedStays
    <2>. QED  BY <2>1, SlotInvStep
  <1>3. (~resized => SlotInv) => SlotsMatch
    BY DEF SlotInv, SlotsMatch
  <1>. QED  BY TypeCorrect, <1>1, <1>2, <1>3, PTL DEF Spec

\* No launch exceeds the limit, as long as it is left alone.
THEOREM LimitIsRespected == Spec => NeverOverLimit
  <1>1. TypeOK /\ SlotsMatch' /\ TypeOK' /\ [Next]_vars
          => [\A p \in Pairs, t \in Tasks :
                 Launch(p, t) /\ ~resized => Cardinality(Live') <= limit]_vars
    <2> SUFFICES ASSUME TypeOK, TypeOK', SlotsMatch', ~resized,
                        NEW p \in Pairs, NEW t \in Tasks, Launch(p, t)
                 PROVE  Cardinality(Live') <= limit
      OBVIOUS
    <2>1. ~resized'
      BY DEF Launch, settings
    <2>. QED  BY <2>1 DEF Launch, TypeOK, SlotsMatch
  <1>. QED  BY TypeCorrect, SlotsAreCounted, <1>1, PTL DEF Spec, NeverOverLimit

\* A scan gives up for want of a slot only when as many goroutines are alive as
\* the limit allows, as long as it is left alone.
THEOREM BusyIsBusy == Spec => BlockedOnlyWhenBusy
  <1>1. TypeOK /\ SlotsMatch /\ [Next]_vars
          => [\A p \in Pairs : Full(p) /\ ~resized => Cardinality(Live) >= limit]_vars
    <2> SUFFICES ASSUME TypeOK, SlotsMatch, ~resized, NEW p \in Pairs, Full(p)
                 PROVE  Cardinality(Live) >= limit
      OBVIOUS
    <2>1. tokens \in Nat /\ limit \in Nat /\ Carried >= limit
      BY DEF Full, TypeOK
    <2>2. tokens >= limit
      BY <2>1 DEF Carried
    <2>. QED  BY <2>1, <2>2 DEF SlotsMatch
  <1>. QED  BY TypeCorrect, SlotsAreCounted, <1>1, PTL DEF Spec, BlockedOnlyWhenBusy

-----------------------------------------------------------------------------
(* The goroutines as one probe per pair *)

\* Where a goroutine has still to put the pair off, the pair's probe is as far
\* as that goroutine; elsewhere it is idle.
LEMMA ProbeIsItsTask ==
    ASSUME OneProbePerPair, NEW p \in Pairs
    PROVE  /\ \A t \in Tasks : Probes(t, p) => ProbeOf(p) = phase[t]
           /\ (\A t \in Tasks : ~Probes(t, p)) => ProbeOf(p) = "idle"
  <1>1. ASSUME NEW t \in Tasks, Probes(t, p) PROVE ProbeOf(p) = phase[t]
    <2>1. \A u \in Tasks : Probes(u, p) => u = t
      BY <1>1 DEF Probes, OneProbePerPair, Holds, Flagged
    <2>2. (CHOOSE u \in Tasks : Probes(u, p)) = t
      BY <1>1, <2>1
    <2>. QED  BY <1>1, <2>2 DEF ProbeOf
  <1>. QED  BY <1>1 DEF ProbeOf

\* The probe of a pair moves with the goroutines that are at it, and with nothing
\* else.
LEMMA ProbeStays ==
    ASSUME OneProbePerPair, NEW p \in Pairs,
           \A t \in Tasks : Probes(t, p)' <=> Probes(t, p),
           \A t \in Tasks : Probes(t, p) => phase'[t] = phase[t]
    PROVE  ProbeOf(p)' = ProbeOf(p)
  <1>1. CASE \E t \in Tasks : Probes(t, p)
    <2>1. PICK t \in Tasks : Probes(t, p)
      BY <1>1
    <2>2. ProbeOf(p) = phase[t]
      BY <2>1, ProbeIsItsTask
    <2>3. \A u \in Tasks : Probes(u, p)' <=> u = t
      BY <2>1 DEF Probes, OneProbePerPair, Holds, Flagged
    <2>4. (CHOOSE u \in Tasks : Probes(u, p))' = t
      BY <2>3
    <2>5. ProbeOf(p)' = phase'[t]
      BY <2>3, <2>4 DEF ProbeOf
    <2>. QED  BY <2>1, <2>2, <2>5
  <1>2. CASE \A t \in Tasks : ~Probes(t, p)
    BY <1>2 DEF ProbeOf
  <1>. QED  BY <1>1, <1>2

\* When one goroutine moves on, the probe of its pair goes where it goes, and
\* those of the other pairs stay where they are.
LEMMA TaskMovesProbe ==
    ASSUME TypeOK, OneProbePerPair, OneProbePerPair', NEW t \in Tasks, NEW from, NEW to,
           Goes(t, from, to), UNCHANGED target,
           from \in {"asking", "binding", "scheduling"},
           to \in {"binding", "scheduling", "leaving"}
    PROVE  /\ target[t] \in Pairs
           /\ Seen!Goes(target[t], from, IF to = "leaving" THEN "idle" ELSE to)
  <1> DEFINE p == target[t]
  <1>1. p \in Pairs /\ phase[t] = from /\ phase' = [phase EXCEPT ![t] = to]
    BY DEF TypeOK, Goes
  <1>2. ProbeOf(p) = from
    BY <1>1, ProbeIsItsTask DEF Probes
  <1>3. \A u \in Tasks : u # t => phase'[u] = phase[u]
    BY <1>1 DEF TypeOK
  <1>4. phase'[t] = to
    BY <1>1 DEF TypeOK
  <1>5. ProbeOf(p)' = IF to = "leaving" THEN "idle" ELSE to
    <2>1. \A u \in Tasks : u # t => ~Probes(u, p)
      BY <1>1 DEF OneProbePerPair, Holds, Probes, Flagged
    <2>2. \A u \in Tasks : u # t => ~Probes(u, p)'
      BY <1>3, <2>1 DEF Probes
    <2>3. CASE to = "leaving"
      <3>1. \A u \in Tasks : ~Probes(u, p)'
        BY <1>4, <2>2, <2>3 DEF Probes
      <3>. QED  BY <1>1, <2>3, <3>1 DEF ProbeOf
    <2>4. CASE to # "leaving"
      <3>1. Probes(t, p)'
        BY <1>4, <2>4 DEF Probes
      <3>2. (CHOOSE u \in Tasks : Probes(u, p)') = t
        BY <2>2, <3>1
      <3>3. (CHOOSE u \in Tasks : Probes(u, p))' = t
        BY <3>2
      <3>. QED  BY <1>4, <2>4, <3>1, <3>3 DEF ProbeOf
    <2>. QED  BY <2>3, <2>4
  <1>6. \A q \in Pairs \ {p} : ProbeOf(q)' = ProbeOf(q)
    <2> SUFFICES ASSUME NEW q \in Pairs \ {p} PROVE ProbeOf(q)' = ProbeOf(q)
      OBVIOUS
    <2>1. \A u \in Tasks : Probes(u, q)' <=> Probes(u, q)
      BY <1>3 DEF Probes
    <2>2. \A u \in Tasks : Probes(u, q) => phase'[u] = phase[u]
      BY <1>3 DEF Probes
    <2>. QED  BY <2>1, <2>2, ProbeStays
  <1>. QED  BY <1>1, <1>2, <1>5, <1>6 DEF Seen!Goes

\* A step that leaves all goroutines where they are, between the launch and the
\* time they put their pairs off, is the world's.
LEMMA WorldSteps ==
    ASSUME TypeOK', OneProbePerPair,
           \A t \in Tasks, p \in Pairs : Probes(t, p)' <=> Probes(t, p),
           \A t \in Tasks, p \in Pairs : Probes(t, p) => phase'[t] = phase[t],
           \A p \in Pairs : wait[p] = 0 => wait'[p] = 0
    PROVE  Seen!Next
  <1>1. \A p \in Pairs : ProbeOf(p)' = ProbeOf(p)
    BY ProbeStays
  <1>2. fresh' \subseteq Pairs /\ on' \in BOOLEAN
    BY DEF TypeOK
  <1>3. [p \in Pairs |-> ProbeOf(p)]' = [p \in Pairs |-> ProbeOf(p)]
    BY <1>1
  <1>4. {p \in Pairs : wait[p] = 0} \subseteq {p \in Pairs : wait'[p] = 0}
    OBVIOUS
  <1>5. Seen!World
    BY <1>2, <1>3, <1>4 DEF Seen!World
  <1>. QED  BY <1>5 DEF Seen!Next

\* A launch starts the probe of an idle pair.
LEMMA LaunchStarts ==
    ASSUME TypeOK, OneProbePerPair, OneProbePerPair', NEW p \in Pairs, NEW t \in Tasks,
           Launch(p, t)
    PROVE  Seen!Start(p)
  <1>1. /\ phase[t] = "none" /\ phase' = [Strayed EXCEPT ![t] = "asking"]
        /\ target' = [target EXCEPT ![t] = p]
        /\ p \notin inFlight /\ wait[p] = 0 /\ p \notin fresh
        /\ UNCHANGED <<wait, fresh, on>>
    BY DEF Launch, Due, settings
  <1>2. /\ phase'[t] = "asking" /\ target'[t] = p
        /\ \A u \in Tasks \ {t} : target'[u] = target[u] /\ phase'[u] = Strayed[u]
    BY <1>1, StrayedType DEF TypeOK
  <1>3. \A u \in Tasks, x \in {"asking", "binding", "scheduling"} :
           Strayed[u] = x <=> phase[u] = x
    BY DEF Strayed, TypeOK
  <1>4. \A u \in Tasks : ~Probes(u, p)
    BY <1>1 DEF OneProbePerPair, Holds, Probes, Flagged
  <1>5. ProbeOf(p) = "idle"
    BY <1>4, ProbeIsItsTask
  <1>6. ProbeOf(p)' = "asking"
    <2>1. \A u \in Tasks : Probes(u, p)' <=> u = t
      BY <1>2, <1>3, <1>4 DEF Probes
    <2>2. (CHOOSE u \in Tasks : Probes(u, p))' = t
      BY <2>1
    <2>. QED  BY <1>2, <2>1, <2>2 DEF ProbeOf
  <1>7. \A q \in Pairs \ {p} : ProbeOf(q)' = ProbeOf(q)
    <2> SUFFICES ASSUME NEW q \in Pairs \ {p} PROVE ProbeOf(q)' = ProbeOf(q)
      OBVIOUS
    <2>1. \A u \in Tasks : Probes(u, q)' <=> Probes(u, q)
      BY <1>1, <1>2, <1>3 DEF Probes
    <2>2. \A u \in Tasks : Probes(u, q) => phase'[u] = phase[u]
      BY <1>1, <1>2, <1>3 DEF Probes
    <2>. QED  BY <2>1, <2>2, ProbeStays
  <1>. QED  BY <1>1, <1>5, <1>6, <1>7 DEF Seen!Start, Seen!Goes

\* Scans, goroutines and the semaphore together implement one probe per pair,
\* started for a due pair and ended by putting the pair off, whatever the limit
\* and however often it changes.
THEOREM ProbesRunAsPromised == Spec => ProbesAsPromised
  <1>1. Init => Seen!Init
    <2> SUFFICES ASSUME Init PROVE Seen!Init
      OBVIOUS
    <2>1. \A p \in Pairs : ProbeOf(p) = "idle"
      BY DEF Init, ProbeOf, Probes
    <2>2. fresh \subseteq Pairs /\ on \in BOOLEAN
      BY DEF Init
    <2>. QED  BY <2>1, <2>2 DEF Seen!Init
  <1>2. TypeOK /\ TypeOK' /\ OneProbePerPair /\ OneProbePerPair' /\ [Next]_vars
          => [Seen!Next]_<<{p \in Pairs : wait[p] = 0}, fresh,
                           [p \in Pairs |-> ProbeOf(p)], on>>
    <2> SUFFICES ASSUME TypeOK, TypeOK', OneProbePerPair, OneProbePerPair', [Next]_vars
                 PROVE  Seen!Next
      OBVIOUS
    <2>1. CASE StartScan
      BY <2>1, WorldSteps DEF StartScan, tasks, Probes, TypeOK
    <2>2. ASSUME NEW p \in Pairs, Skip(p) PROVE Seen!Next
      BY <2>2, WorldSteps DEF Skip, pairState, tasks, Probes
    <2>3. ASSUME NEW p \in Pairs, NEW t \in Tasks, Launch(p, t) PROVE Seen!Next
      BY <2>3, LaunchStarts DEF Seen!Next
    <2>4. ASSUME NEW p \in Pairs, Full(p) PROVE Seen!Next
      <3>1. phase' = Strayed /\ UNCHANGED <<wait, target>>
        BY <2>4 DEF Full, pairState
      <3>2. \A t \in Tasks : phase[t] # "draining" => Strayed[t] = phase[t]
        BY DEF Strayed, TypeOK
      <3>3. \A t \in Tasks : phase[t] = "draining" => Strayed[t] \in {"draining", "stray"}
        BY DEF Strayed, TypeOK
      <3>. QED  BY <3>1, <3>2, <3>3, WorldSteps DEF Probes
    <2>5. ASSUME NEW t \in Tasks, Work(t) PROVE Seen!Next
      <3> USE DEF pairState, sem, scan, settings
      <3>1. CASE Answer(t)
        <4>1. PICK to \in {"binding", "scheduling"} : Goes(t, "asking", to)
          BY <3>1 DEF Answer
        <4>2. target[t] \in Pairs /\ Seen!Goes(target[t], "asking", to)
          BY <3>1, <4>1, TaskMovesProbe DEF Answer
        <4>3. on /\ UNCHANGED <<wait, fresh, on>>
          BY <3>1 DEF Answer
        <4>4. Seen!Answer(target[t])
          BY <4>1, <4>2, <4>3 DEF Seen!Answer
        <4>. QED  BY <4>2, <4>4 DEF Seen!Next
      <3>2. CASE Discard(t)
        <4>1. target[t] \in Pairs /\ Seen!Goes(target[t], "asking", "idle")
          BY <3>2, TaskMovesProbe DEF Discard
        <4>2. Seen!Drop(target[t])
          BY <3>2, <4>1 DEF Discard, Seen!Drop
        <4>. QED  BY <4>1, <4>2 DEF Seen!Next
      <3>3. CASE Bind(t) \/ BindFails(t)
        <4>1. target[t] \in Pairs /\ Seen!Goes(target[t], "binding", "scheduling")
          BY <3>3, TaskMovesProbe DEF Bind, BindFails
        <4>2. Seen!Bind(target[t])
          BY <3>3, <4>1 DEF Bind, BindFails, Seen!Bind
        <4>. QED  BY <4>1, <4>2 DEF Seen!Next
      <3>4. CASE Schedule(t)
        <4>1. target[t] \in Pairs /\ Seen!Goes(target[t], "scheduling", "idle")
          BY <3>4, TaskMovesProbe DEF Schedule
        <4>2. {p \in Pairs : wait'[p] = 0} = {p \in Pairs : wait[p] = 0} \ {target[t]}
          BY <3>4, <4>1, DelaysAssumption DEF Schedule, TypeOK
        <4>3. PICK p \in Pairs : p = target[t]
          BY <4>1
        <4>4. Seen!Schedule(p)
          BY <3>4, <4>1, <4>2, <4>3 DEF Schedule, Seen!Schedule
        <4>. QED  BY <4>4 DEF Seen!Next
      <3>5. CASE Unflag(t) \/ ReadSem(t)
        <4>1. /\ UNCHANGED <<wait, target>>
              /\ \A u \in Tasks \ {t} : phase'[u] = phase[u]
              /\ phase[t] \in {"leaving", "releasing"}
              /\ phase'[t] \in {"releasing", "draining"}
          BY <3>5 DEF Unflag, ReadSem, Goes, TypeOK
        <4>. QED  BY <4>1, WorldSteps DEF Probes
      <3>6. CASE Drain(t) \/ DrainOld(t)
        <4>1. /\ UNCHANGED wait
              /\ \A u \in Tasks \ {t} : phase'[u] = phase[u] /\ target'[u] = target[u]
              /\ phase[t] \in {"draining", "stray"} /\ phase'[t] = "none"
          BY <3>6 DEF Drain, DrainOld, Goes, TypeOK
        <4>. QED  BY <4>1, WorldSteps DEF Probes
      <3>. QED  BY <2>5, <3>1, <3>2, <3>3, <3>4, <3>5, <3>6 DEF Work
    <2>6. ASSUME NEW p \in Pairs, ProbeNow(p) \/ Lapse(p) \/ Capture(p) PROVE Seen!Next
      <3>1. /\ UNCHANGED <<phase, target>>
            /\ \A q \in Pairs : wait[q] = 0 => wait'[q] = 0
        BY <2>6 DEF ProbeNow, Lapse, Capture, pairState, tasks, TypeOK
      <3>. QED  BY <3>1, WorldSteps DEF Probes
    <2>7. CASE SwitchOff \/ SwitchOn
      BY <2>7, WorldSteps DEF SwitchOff, SwitchOn, pairState, tasks, Probes
    <2>8. ASSUME NEW n \in Sizes, Resize(n) PROVE Seen!Next
      BY <2>8, WorldSteps DEF Resize, pairState, tasks, Probes
    <2>9. CASE UNCHANGED vars
      BY <2>9, WorldSteps DEF vars, Probes
    <2>. QED  BY <2>1, <2>2, <2>3, <2>4, <2>5, <2>6, <2>7, <2>8, <2>9 DEF Next, Visit
  <1>. QED
    BY TypeCorrect, ProbesAreExclusive, <1>1, <1>2, PTL
       DEF Spec, ProbesAsPromised, Seen!Spec, Seen!probeVars

-----------------------------------------------------------------------------
(* The schedule, for all windows *)

\* A clock without a sign or a space is a minute of the day, and is in the order
\* of these.
LEMMA PlainClock ==
    ASSUME NEW c \in Clock
    PROVE  c.at \in Int /\ 0 <= c.at /\ c.at <= 1439
  <1>1. LastMinute = 1439
    BY DEF LastMinute
  <1>2. c.at \in 0..1439
    BY <1>1 DEF Clock
  <1>. DEFINE x == c.at
  <1>3. x \in 0..1439
    BY <1>2
  <1>. HIDE DEF x
  <1>4. x \in Int /\ 0 <= x /\ x <= 1439
    BY <1>3
  <1>. QED  BY <1>4 DEF x

\* The texts of such clocks are in the order of the minutes.
LEMMA PlainOrder ==
    ASSUME NEW w \in Window, ~w.start.odd, ~w.end.odd, NEW t \in Int
    PROVE  /\ SpansMidnight(w) <=> w.start.at > w.end.at
           /\ AtMost(w.start, Plain(t)) <=> w.start.at <= t
           /\ AtMost(Plain(t), w.end) <=> t <= w.end.at
           /\ w.start.at \in Int /\ 0 <= w.start.at /\ w.start.at <= 1439
           /\ w.end.at \in Int /\ 0 <= w.end.at /\ w.end.at <= 1439
  <1>1. w.start \in Clock /\ w.end \in Clock
    BY DEF Window
  <1>2. w.start.odd = FALSE /\ w.end.odd = FALSE
    BY <1>1 DEF Clock
  <1>3. /\ w.start.at \in Int /\ 0 <= w.start.at /\ w.start.at <= 1439
        /\ w.end.at \in Int /\ 0 <= w.end.at /\ w.end.at <= 1439
    <2>. DEFINE c == w.start
                d == w.end
    <2>1. c \in Clock /\ d \in Clock
      BY <1>1
    <2>. HIDE DEF c, d
    <2>2. c.at \in Int /\ 0 <= c.at /\ c.at <= 1439
      BY <2>1, PlainClock
    <2>3. d.at \in Int /\ 0 <= d.at /\ d.at <= 1439
      BY <2>1, PlainClock
    <2>. QED  BY <2>2, <2>3 DEF c, d
  <1>4. Plain(t).at = t /\ Plain(t).odd = FALSE
    BY DEF Plain
  <1>5. /\ AtMost(w.start, Plain(t)) <=> w.start.at <= t
        /\ AtMost(Plain(t), w.end) <=> t <= w.end.at
    BY <1>2, <1>4 DEF AtMost
  <1>6. SpansMidnight(w) <=> ~(w.start.at <= w.end.at)
    BY <1>2 DEF SpansMidnight, AtMost
  <1>. QED  BY <1>3, <1>5, <1>6

\* A window that spans midnight is a day longer than the difference of its clocks.
LEMMA WindowLength ==
    ASSUME NEW w \in Window, ~w.start.odd, ~w.end.odd
    PROVE  Length(w) = IF SpansMidnight(w) THEN w.end.at - w.start.at + 1440
                         ELSE w.end.at - w.start.at
  <1>1. /\ w.start.at \in Int /\ 0 <= w.start.at /\ w.start.at <= 1439
        /\ w.end.at \in Int /\ 0 <= w.end.at /\ w.end.at <= 1439
        /\ SpansMidnight(w) <=> w.start.at > w.end.at
    BY PlainOrder
  <1>2. ASSUME NEW x \in Int, 0 - 1439 <= x, x <= 1439
        PROVE  x % 1440 = IF x < 0 THEN x + 1440 ELSE x
    BY <1>2
  <1>3. /\ w.end.at - w.start.at \in Int
        /\ 0 - 1439 <= w.end.at - w.start.at /\ w.end.at - w.start.at <= 1439
    BY <1>1
  <1>4. Length(w) = (w.end.at - w.start.at) % 1440
    BY DEF Length
  <1>5. Length(w) = IF w.end.at - w.start.at < 0 THEN w.end.at - w.start.at + 1440
                      ELSE w.end.at - w.start.at
    BY <1>2, <1>3, <1>4
  <1>. QED  BY <1>1, <1>5

\* A window matches exactly while it is open, outside the small hours.
LEMMA WindowIsScheduled ==
    ASSUME NEW w \in Window, ~w.start.odd, ~w.end.odd, w.enabled,
           NEW day \in Days, NEW t \in 0..LastMinute,
           ~(/\ w.start.at > w.end.at /\ t <= w.end.at
             /\ day \in w.days /\ Yesterday(day) \notin w.days)
    PROVE  Matches(w, day, t) <=> Scheduled(w, day, t)
  <1>1. t \in 0..1439
    BY DEF LastMinute
  <1>2. /\ SpansMidnight(w) <=> w.start.at > w.end.at
        /\ AtMost(w.start, Plain(t)) <=> w.start.at <= t
        /\ AtMost(Plain(t), w.end) <=> t <= w.end.at
        /\ w.start.at \in Int /\ 0 <= w.start.at /\ w.start.at <= 1439
        /\ w.end.at \in Int /\ 0 <= w.end.at /\ w.end.at <= 1439
    BY <1>1, PlainOrder
  <1>3. Matches(w, day, t) <=> MatchesDay(w, day, t) /\ ContainsTime(w, t)
    BY DEF Matches
  <1>4. Scheduled(w, day, t) <=>
          \/ /\ w.days = {} \/ day \in w.days
             /\ t \in w.start.at..w.start.at + Length(w)
          \/ /\ w.days = {} \/ Yesterday(day) \in w.days
             /\ t + 1440 \in w.start.at..w.start.at + Length(w)
    BY DEF Scheduled, Opens
  <1>5. CASE SpansMidnight(w)
    <2>1. w.start.at + Length(w) = w.end.at + 1440
      BY <1>2, <1>5, WindowLength
    <2>2. /\ t \in w.start.at..w.end.at + 1440 <=> w.start.at <= t
          /\ t + 1440 \in w.start.at..w.end.at + 1440 <=> t <= w.end.at
      BY <1>1, <1>2
    <2>. QED  BY <1>1, <1>2, <1>3, <1>4, <1>5, <2>1, <2>2 DEF MatchesDay, ContainsTime
  <1>6. CASE ~SpansMidnight(w)
    <2>1. w.start.at + Length(w) = w.end.at
      BY <1>2, <1>6, WindowLength
    <2>2. /\ t \in w.start.at..w.end.at <=> w.start.at <= t /\ t <= w.end.at
          /\ ~(t + 1440 \in w.start.at..w.end.at)
      BY <1>1, <1>2
    <2>. QED  BY <1>1, <1>2, <1>3, <1>4, <1>6, <2>1, <2>2 DEF MatchesDay, ContainsTime
  <1>. QED  BY <1>5, <1>6

\* A schedule of such windows allows probing exactly while one of them is open.
THEOREM ScheduleMeansItsWindows ==
    ASSUME NEW windows \in SUBSET Window, NEW day \in Days, NEW t \in 0..LastMinute
    PROVE  FollowsScheduleMostly(windows, day, t)
  <1>. DEFINE enabled == {w \in windows : w.enabled}
  <1>. SUFFICES ASSUME \A w \in windows : ~w.start.odd /\ ~w.end.odd,
                       \A w \in windows : ~(/\ w.enabled /\ w.start.at > w.end.at /\ t <= w.end.at
                                            /\ day \in w.days /\ Yesterday(day) \notin w.days)
                PROVE  FollowsSchedule(windows, day, t)
    BY DEF FollowsScheduleMostly
  <1>1. \A w \in enabled : Matches(w, day, t) <=> Scheduled(w, day, t)
    BY WindowIsScheduled
  <1>. QED  BY <1>1 DEF FollowsSchedule, ShouldProbeNow

\* Whatever the windows, the day and the minute, probing follows the schedule but
\* in the small hours (ScheduleIsMostlyKept).
THEOREM AnyScheduleIsKept ==
    ASSUME input.rule = "window" => input \in WindowInputs
    PROVE  ScheduleIsMostlyKept
  BY ScheduleMeansItsWindows DEF ScheduleIsMostlyKept, WindowInputs

-----------------------------------------------------------------------------
(* The time of the next probe, for every policy *)

\* What the panel may set: a life in seconds and the share of it that is the
\* refresh window.
Policy(b) == b.ttl \in Nat /\ b.pct \in 0..90

\* A value is probed for again within its refresh window, whatever the policy,
\* unless it was older than that window is long when it was bound.
THEOREM RefreshComesInTime ==
    ASSUME NEW b, Policy(b), NEW age \in Nat
    PROVE  ReprobedInTimeIfYoung(b, age)
  <1>. DEFINE T == Threshold(b.ttl, b.pct)
  <1>1. T \in Int
    <2>1. b.ttl * (100 - b.pct) \in Int
      BY DEF Policy
    <2>. QED  BY <2>1 DEF Threshold
  <1>2. NextDelay(b, "SUCCESS_TARGET") = T
    <2>1. ~(b.pct < 0)
      BY DEF Policy
    <2>. QED  BY <2>1 DEF NextDelay
  <1>3. RefreshAfter(b, age) = T - age /\ ExpiresAt(b, age) = b.ttl - age
    BY DEF RefreshAfter, ExpiresAt
  <1>. HIDE DEF T
  <1>4. age <= b.ttl - T => T - age <= T /\ T <= b.ttl - age
    BY <1>1 DEF Policy
  <1>. QED  BY <1>2, <1>3, <1>4 DEF ReprobedInTimeIfYoung, ReprobedInTime, T
\* Whatever the policy and the age, a young value is probed for again inside its
\* refresh window (YoungAreReprobed).
THEOREM AnyYoungIsReprobed ==
    ASSUME input.rule = "backoff" => input \in BackoffInputs
    PROVE  YoungAreReprobed
  BY RefreshComesInTime DEF YoungAreReprobed, BackoffInputs, Waiting, Policy

-----------------------------------------------------------------------------
(* The waits, for every run and every cap.  What is computed by doubling is a *)
(* recursive function: that there is one, and what is true of its values,     *)
(* rests on the natural numbers being well founded.                           *)

\* A set that holds 0, and with each number the next one, holds all of them.
LEMMA NatSetInduction ==
    ASSUME NEW S, 0 \in S, \A n \in Nat : n \in S => n + 1 \in S
    PROVE  Nat \subseteq S
  <1>. DEFINE T == Nat \ S
  <1>. SUFFICES ASSUME T # {} PROVE FALSE
    OBVIOUS
  <1>1. T \subseteq Nat
    OBVIOUS
  <1>2. \E n \in T : \A m \in T : ~(<<m, n>> \in OpToRel(<, Nat))
    <2>. HIDE DEF T
    <2>. QED  BY <1>1, NatLessThanWellFounded, WFMin
  <1>3. PICK n \in T : \A m \in T : ~(<<m, n>> \in OpToRel(<, Nat))
    BY <1>2
  <1>4. n \in Nat /\ n # 0 /\ n - 1 \in Nat /\ (n - 1) + 1 = n
    OBVIOUS
  <1>5. n - 1 \in T
    BY <1>4
  <1>6. <<n - 1, n>> \in OpToRel(<, Nat)
    BY <1>4 DEF OpToRel
  <1>. QED  BY <1>3, <1>5, <1>6

\* Each value of f follows from the one before it.
Follows(f, base, step) == f[0] = base /\ \A n \in Nat : f[n + 1] = step[<<n, f[n]>>]

\* There is a function that follows from its first value, step by step.
LEMMA Recursion ==
    ASSUME NEW V, NEW base \in V, NEW step \in [Nat \X V -> V]
    PROVE  \E f \in [Nat -> V] : Follows(f, base, step)
  <1>. DEFINE Runs(n) == {g \in [0..n -> V] :
                            /\ g[0] = base
                            /\ \A i \in 0..n : i < n => g[i + 1] = step[<<i, g[i]>>]}
  <1>1. \A n \in Nat : Runs(n) # {}
    <2>. DEFINE S == {n \in Nat : Runs(n) # {}}
    <2>1. 0 \in S
      <3>1. [i \in 0..0 |-> base] \in Runs(0)
        OBVIOUS
      <3>. QED  BY <3>1
    <2>2. ASSUME NEW n \in Nat, n \in S PROVE n + 1 \in S
      <3>1. PICK g \in Runs(n) : TRUE
        BY <2>2
      <3>. DEFINE h == [i \in 0..(n + 1) |-> IF i = n + 1 THEN step[<<n, g[n]>>] ELSE g[i]]
      <3>2. /\ g \in [0..n -> V] /\ g[0] = base
            /\ \A i \in 0..n : i < n => g[i + 1] = step[<<i, g[i]>>]
        BY <3>1
      <3>3. g[n] \in V /\ step[<<n, g[n]>>] \in V
        BY <3>2
      <3>4. h \in [0..(n + 1) -> V] /\ h[0] = base
        BY <3>2, <3>3
      <3>5. \A i \in 0..(n + 1) : i < n + 1 => h[i + 1] = step[<<i, h[i]>>]
        BY <3>2
      <3>6. h \in Runs(n + 1)
        BY <3>4, <3>5
      <3>. QED  BY <3>6, n + 1 \in Nat
    <2>. HIDE DEF S
    <2>3. Nat \subseteq S
      BY <2>1, <2>2, NatSetInduction
    <2>. QED  BY <2>3 DEF S
  <1>2. \A n \in Nat, m \in Nat : n <= m =>
           \A g \in Runs(n), h \in Runs(m) : g[n] = h[n]
    <2> SUFFICES ASSUME NEW n \in Nat, NEW m \in Nat, n <= m, NEW g \in Runs(n), NEW h \in Runs(m)
                 PROVE  g[n] = h[n]
      OBVIOUS
    <2>. DEFINE S == {i \in Nat : i <= n => g[i] = h[i]}
    <2>1. /\ g \in [0..n -> V] /\ g[0] = base
          /\ \A i \in 0..n : i < n => g[i + 1] = step[<<i, g[i]>>]
          /\ h \in [0..m -> V] /\ h[0] = base
          /\ \A i \in 0..m : i < m => h[i + 1] = step[<<i, h[i]>>]
      OBVIOUS
    <2>2. 0 \in S
      BY <2>1
    <2>3. ASSUME NEW i \in Nat, i \in S PROVE i + 1 \in S
      <3> SUFFICES ASSUME i + 1 <= n PROVE g[i + 1] = h[i + 1]
        OBVIOUS
      <3>1. i \in 0..n /\ i \in 0..m /\ i < n /\ i < m /\ g[i] = h[i]
        BY <2>3
      <3>. QED  BY <2>1, <3>1
    <2>. HIDE DEF S
    <2>4. Nat \subseteq S
      BY <2>2, <2>3, NatSetInduction
    <2>5. n \in S
      BY <2>4
    <2>. QED  BY <2>5 DEF S
  <1>. DEFINE run == [n \in Nat |-> CHOOSE g \in Runs(n) : TRUE]
              f == [n \in Nat |-> run[n][n]]
  <1>3. \A n \in Nat : run[n] \in Runs(n)
    BY <1>1
  <1>. HIDE DEF run
  <1>4. f \in [Nat -> V] /\ f[0] = base
    BY <1>3
  <1>5. ASSUME NEW n \in Nat PROVE f[n + 1] = step[<<n, f[n]>>]
    <2>1. run[n] \in Runs(n) /\ run[n + 1] \in Runs(n + 1) /\ n <= n + 1 /\ n + 1 \in Nat
      BY <1>3
    <2>2. run[n][n] = run[n + 1][n]
      BY <1>2, <2>1
    <2>3. run[n + 1][n + 1] = step[<<n, run[n + 1][n]>>]
      <3>1. n \in 0..(n + 1) /\ n < n + 1
        OBVIOUS
      <3>. QED  BY <2>1, <3>1
    <2>4. f[n + 1] = run[n + 1][n + 1] /\ f[n] = run[n][n]
      OBVIOUS
    <2>. QED  BY <2>2, <2>3, <2>4
  <1>. HIDE DEF f
  <1>. QED  BY <1>4, <1>5 DEF Follows

\* Doubled is what its equation says.
LEMMA DoubledSteps ==
    ASSUME NEW delay \in Nat, NEW cap \in Nat
    PROVE  /\ Doubled(delay, cap) \in [Nat -> Nat]
           /\ Doubled(delay, cap)[0] = delay
           /\ \A n \in Nat : Doubled(delay, cap)[n + 1] = Lesser(2 * Doubled(delay, cap)[n], cap)
  <1>. DEFINE step == [s \in Nat \X Nat |-> Lesser(2 * s[2], cap)]
              D == Doubled(delay, cap)
  <1>1. step \in [Nat \X Nat -> Nat]
    BY DEF Lesser
  <1>2. \A n, x \in Nat : step[<<n, x>>] = Lesser(2 * x, cap)
    OBVIOUS
  <1>. HIDE DEF step
  <1>2a. \E f \in [Nat -> Nat] : Follows(f, delay, step)
    BY <1>1, Recursion
  <1>3. PICK f \in [Nat -> Nat] : f[0] = delay /\ \A n \in Nat : f[n + 1] = step[<<n, f[n]>>]
    BY <1>2a DEF Follows
  <1>4. f = [n \in Nat |-> IF n = 0 THEN delay ELSE Lesser(2 * f[n - 1], cap)]
    <2> SUFFICES ASSUME NEW n \in Nat
                 PROVE  f[n] = IF n = 0 THEN delay ELSE Lesser(2 * f[n - 1], cap)
      BY <1>3
    <2>1. CASE n = 0
      BY <1>3, <2>1
    <2>2. CASE n # 0
      <3>1. n - 1 \in Nat /\ (n - 1) + 1 = n
        BY <2>2
      <3>. QED  BY <1>2, <1>3, <2>2, <3>1
    <2>. QED  BY <2>1, <2>2
  <1>5. D = [n \in Nat |-> IF n = 0 THEN delay ELSE Lesser(2 * D[n - 1], cap)]
    BY <1>4 DEF Doubled
  <1>. HIDE DEF D
  <1>6. D[0] = delay /\ \A n \in Nat : D[n + 1] = Lesser(2 * D[n], cap)
    <2>1. \A n \in Nat : n + 1 \in Nat /\ n + 1 # 0 /\ (n + 1) - 1 = n
      OBVIOUS
    <2>. QED  BY <1>5, <2>1
  <1>7. D \in [Nat -> Nat]
    <2>. DEFINE S == {n \in Nat : D[n] \in Nat}
    <2>1. 0 \in S
      BY <1>6
    <2>2. ASSUME NEW n \in Nat, n \in S PROVE n + 1 \in S
      BY <1>6, <2>2 DEF Lesser
    <2>. HIDE DEF S
    <2>3. Nat \subseteq S
      BY <2>1, <2>2, NatSetInduction
    <2>. QED  BY <1>5, <2>3 DEF S
  <1>. QED  BY <1>6, <1>7 DEF D

\* The lesser of two numbers is one of them, and no greater than either.
LEMMA LesserBounds ==
    ASSUME NEW x \in Nat, NEW cap \in Nat, x <= cap
    PROVE  x <= Lesser(2 * x, cap) /\ Lesser(2 * x, cap) <= cap
  BY DEF Lesser

\* Doubling a delay below the cap never shortens it, and never passes the cap.
LEMMA DoubledBounds ==
    ASSUME NEW delay \in Nat, NEW cap \in Nat, delay <= cap, NEW n \in Nat
    PROVE  /\ Doubled(delay, cap)[n] \in Nat
           /\ delay <= Doubled(delay, cap)[n] /\ Doubled(delay, cap)[n] <= cap
           /\ Doubled(delay, cap)[n] <= Doubled(delay, cap)[n + 1]
           /\ Doubled(delay, cap)[n + 1] = Lesser(2 * Doubled(delay, cap)[n], cap)
  <1>. DEFINE D == Doubled(delay, cap)
              S == {k \in Nat : delay <= D[k] /\ D[k] <= cap}
  <1>1. /\ D \in [Nat -> Nat] /\ D[0] = delay
        /\ \A k \in Nat : D[k + 1] = Lesser(2 * D[k], cap)
    BY DoubledSteps
  <1>. HIDE DEF D
  <1>2. 0 \in S
    BY <1>1
  <1>3. ASSUME NEW k \in Nat, k \in S PROVE k + 1 \in S
    <2>1. D[k] \in Nat /\ k + 1 \in Nat /\ delay <= D[k] /\ D[k] <= cap
      BY <1>1, <1>3
    <2>2. delay <= D[k + 1] /\ D[k + 1] <= cap
      BY <1>1, <2>1, LesserBounds
    <2>. QED  BY <2>1, <2>2
  <1>. HIDE DEF S
  <1>4. Nat \subseteq S
    BY <1>2, <1>3, NatSetInduction
  <1>5. D[n] \in Nat /\ delay <= D[n] /\ D[n] <= cap
    BY <1>1, <1>4 DEF S
  <1>6. D[n] <= D[n + 1]
    BY <1>1, <1>5, LesserBounds
  <1>. QED  BY <1>1, <1>5, <1>6 DEF D

\* The ladder of a bench.
LEMMA Ladder ==
    /\ \A n \in Nat : n >= 6 => Doubled(60, 3840)[n] = 3840
    /\ \A n \in Nat : n < 6 => /\ Doubled(60, 3840)[n] < 3840
                             /\ Doubled(60, 3840)[n + 1] = 2 * Doubled(60, 3840)[n]
  <1>. DEFINE D == Doubled(60, 3840)
              S == {n \in Nat : n >= 6 => D[n] = 3840}
  <1>1. /\ D \in [Nat -> Nat] /\ D[0] = 60
        /\ \A k \in Nat : D[k + 1] = Lesser(2 * D[k], 3840)
    BY DoubledSteps
  <1>. HIDE DEF D
  <1>2. D[0 + 1] = 120
    BY <1>1 DEF Lesser
  <1>3. D[1 + 1] = 240
    BY <1>1, <1>2 DEF Lesser
  <1>4. D[2 + 1] = 480
    BY <1>1, <1>3 DEF Lesser
  <1>5. D[3 + 1] = 960
    BY <1>1, <1>4 DEF Lesser
  <1>6. D[4 + 1] = 1920
    BY <1>1, <1>5 DEF Lesser
  <1>7. D[5 + 1] = 3840
    BY <1>1, <1>6 DEF Lesser
  <1>8. 0 \in S
    OBVIOUS
  <1>9. ASSUME NEW n \in Nat, n \in S PROVE n + 1 \in S
    <2>1. CASE n < 5
      BY <2>1
    <2>2. CASE n = 5
      BY <1>7, <2>2
    <2>3. CASE n > 5
      <3>1. D[n] = 3840
        BY <1>9, <2>3
      <3>. QED  BY <1>1, <3>1 DEF Lesser
    <2>. QED  BY <2>1, <2>2, <2>3
  <1>. HIDE DEF S
  <1>10. Nat \subseteq S
    BY <1>8, <1>9, NatSetInduction
  <1>11. \A n \in Nat : n >= 6 => D[n] = 3840
    BY <1>10 DEF S
  <1>12. \A n \in Nat : n < 6 => D[n] < 3840 /\ D[n + 1] = 2 * D[n]
    <2> SUFFICES ASSUME NEW n \in Nat, n < 6 PROVE D[n] < 3840 /\ D[n + 1] = 2 * D[n]
      OBVIOUS
    <2>1. n = 0 \/ n = 1 \/ n = 2 \/ n = 3 \/ n = 4 \/ n = 5
      OBVIOUS
    <2>. QED  BY <1>1, <1>2, <1>3, <1>4, <1>5, <1>6, <1>7, <2>1
  <1>. QED  BY <1>11, <1>12 DEF D

\* A bench doubles with each failure, and reaches its top at the seventh.
LEMMA CooldownIsBounded ==
    ASSUME NEW n \in Nat
    PROVE  /\ ProxyCooldown(n) \in Nat /\ 60 <= ProxyCooldown(n) /\ ProxyCooldown(n) <= 3840
           /\ ProxyCooldown(n + 1) \in {ProxyCooldown(n), 2 * ProxyCooldown(n)}
           /\ ProxyCooldownReachedCap(n) <=> n >= 7
  <1>. DEFINE D == Doubled(60, 3840)
  <1>1. \A k \in Nat : /\ D[k] \in Nat /\ 60 <= D[k] /\ D[k] <= 3840
                       /\ D[k + 1] = Lesser(2 * D[k], 3840)
    BY DoubledBounds
  <1>2. D[0] = 60
    BY DoubledSteps
  <1>3. \A k \in Nat : /\ k >= 6 => D[k] = 3840
                       /\ k < 6 => D[k] < 3840 /\ D[k + 1] = 2 * D[k]
    BY Ladder
  <1>4. \A k \in Nat : ProxyCooldown(k) = IF k = 0 THEN 60 ELSE D[k - 1]
    BY DEF ProxyCooldown, Minute
  <1>. HIDE DEF D
  <1>5. CASE n = 0
    <2>1. ProxyCooldown(0) = 60 /\ ProxyCooldown(0 + 1) = 60
      BY <1>2, <1>4
    <2>. QED  BY <1>5, <2>1 DEF ProxyCooldownReachedCap, Minute
  <1>6. CASE n # 0
    <2>. DEFINE k == n - 1
    <2>1. k \in Nat /\ n = k + 1 /\ (n + 1) - 1 = k + 1 /\ n + 1 \in Nat /\ n + 1 # 0
      BY <1>6
    <2>. HIDE DEF k
    <2>2. ProxyCooldown(n) = D[k] /\ ProxyCooldown(n + 1) = D[k + 1]
      BY <1>4, <2>1 DEF k
    <2>3. D[k] \in Nat /\ D[k] <= 3840 /\ 60 <= D[k]
      BY <1>1, <2>1
    <2>4. D[k + 1] = D[k] \/ D[k + 1] = 2 * D[k]
      BY <1>3, <2>1
    <2>5. ProxyCooldownReachedCap(n) <=> n >= 7
      BY <1>3, <2>1, <2>2, <2>3 DEF ProxyCooldownReachedCap, Minute
    <2>. QED  BY <2>2, <2>3, <2>4, <2>5
  <1>. QED  BY <1>5, <1>6

\* The streak of a longer and longer part of the outcomes.
LEMMA StreakSteps ==
    ASSUME NEW outcomes
    PROVE  \E s \in [Nat -> Nat] :
              /\ s[0] = 0
              /\ \A n \in Nat : s[n + 1] = recordStreak(s[n], outcomes[n + 1])
              /\ Streak(outcomes) = s[Len(outcomes)]
  <1>. DEFINE step == [r \in Nat \X Nat |-> recordStreak(r[2], outcomes[r[1] + 1])]
              after == CHOOSE s : s = [n \in Nat |-> IF n = 0 THEN 0
                                          ELSE recordStreak(s[n - 1], outcomes[n])]
  <1>1. step \in [Nat \X Nat -> Nat]
    BY DEF recordStreak
  <1>2. \A n, x \in Nat : step[<<n, x>>] = recordStreak(x, outcomes[n + 1])
    OBVIOUS
  <1>. HIDE DEF step
  <1>3. \E f \in [Nat -> Nat] : Follows(f, 0, step)
    BY <1>1, Recursion
  <1>4. PICK f \in [Nat -> Nat] : f[0] = 0 /\ \A n \in Nat : f[n + 1] = step[<<n, f[n]>>]
    BY <1>3 DEF Follows
  <1>5. f = [n \in Nat |-> IF n = 0 THEN 0 ELSE recordStreak(f[n - 1], outcomes[n])]
    <2> SUFFICES ASSUME NEW n \in Nat
                 PROVE  f[n] = IF n = 0 THEN 0 ELSE recordStreak(f[n - 1], outcomes[n])
      BY <1>4
    <2>1. CASE n = 0
      BY <1>4, <2>1
    <2>2. CASE n # 0
      <3>1. n - 1 \in Nat /\ (n - 1) + 1 = n
        BY <2>2
      <3>. QED  BY <1>2, <1>4, <2>2, <3>1
    <2>. QED  BY <2>1, <2>2
  <1>6. after = [n \in Nat |-> IF n = 0 THEN 0 ELSE recordStreak(after[n - 1], outcomes[n])]
    BY <1>5
  <1>7. Streak(outcomes) = after[Len(outcomes)]
    BY DEF Streak
  <1>. HIDE DEF after
  <1>8. after[0] = 0 /\ \A n \in Nat : after[n + 1] = recordStreak(after[n], outcomes[n + 1])
    <2>1. \A n \in Nat : n + 1 \in Nat /\ n + 1 # 0 /\ (n + 1) - 1 = n
      OBVIOUS
    <2>. QED  BY <1>6, <2>1
  <1>9. after \in [Nat -> Nat]
    <2>. DEFINE S == {n \in Nat : after[n] \in Nat}
    <2>1. 0 \in S
      BY <1>8
    <2>2. ASSUME NEW n \in Nat, n \in S PROVE n + 1 \in S
      BY <1>8, <2>2 DEF recordStreak
    <2>. HIDE DEF S
    <2>3. Nat \subseteq S
      BY <2>1, <2>2, NatSetInduction
    <2>. QED  BY <1>6, <2>3 DEF S
  <1>. QED  BY <1>7, <1>8, <1>9

\* A streak that is longer than the threshold is at the end of the outcomes.
LEMMA StreakIsUnbroken ==
    ASSUME NEW outcomes, Len(outcomes) \in Nat, Streak(outcomes) > 3
    PROVE  /\ Len(outcomes) > 3
           /\ \A i \in 0..3 : outcomes[Len(outcomes) - i] = "SUCCESS_NON_TARGET"
  <1>1. PICK s \in [Nat -> Nat] :
              /\ s[0] = 0
              /\ \A n \in Nat : s[n + 1] = recordStreak(s[n], outcomes[n + 1])
              /\ Streak(outcomes) = s[Len(outcomes)]
    BY StreakSteps
  <1>2. ASSUME NEW n \in Nat, NEW k \in Nat, s[n] > k
        PROVE  \E m \in Nat : n = m + 1 /\ outcomes[n] = "SUCCESS_NON_TARGET" /\ s[m] + 1 > k
    <2>1. n # 0
      BY <1>1, <1>2
    <2>2. n - 1 \in Nat /\ n = (n - 1) + 1
      BY <2>1
    <2>3. s[n] = recordStreak(s[n - 1], outcomes[n]) /\ s[n - 1] \in Nat /\ s[n] \in Nat
      BY <1>1, <2>2
    <2>. QED  BY <1>2, <2>2, <2>3 DEF recordStreak
  <1>. DEFINE l == Len(outcomes)
  <1>3. l \in Nat /\ s[l] > 3
    BY <1>1
  <1>. HIDE DEF l
  <1>4. PICK m1 \in Nat : l = m1 + 1 /\ outcomes[l] = "SUCCESS_NON_TARGET" /\ s[m1] + 1 > 3
    BY <1>2, <1>3
  <1>5. PICK m2 \in Nat : m1 = m2 + 1 /\ outcomes[m1] = "SUCCESS_NON_TARGET" /\ s[m2] + 1 > 2
    <2>1. s[m1] \in Nat /\ s[m1] > 2
      BY <1>4
    <2>. QED  BY <1>2, <2>1
  <1>6. PICK m3 \in Nat : m2 = m3 + 1 /\ outcomes[m2] = "SUCCESS_NON_TARGET" /\ s[m3] + 1 > 1
    <2>1. s[m2] \in Nat /\ s[m2] > 1
      BY <1>5
    <2>. QED  BY <1>2, <2>1
  <1>7. PICK m4 \in Nat : m3 = m4 + 1 /\ outcomes[m3] = "SUCCESS_NON_TARGET"
    <2>1. s[m3] \in Nat /\ s[m3] > 0
      BY <1>6
    <2>. QED  BY <1>2, <2>1
  <1>8. l > 3 /\ l - 0 = l /\ l - 1 = m1 /\ l - 2 = m2 /\ l - 3 = m3
    BY <1>3, <1>4, <1>5, <1>6, <1>7
  <1>9. \A i \in 0..3 : i = 0 \/ i = 1 \/ i = 2 \/ i = 3
    OBVIOUS
  <1>. QED  BY <1>4, <1>5, <1>6, <1>7, <1>8, <1>9 DEF l

\* The wait for a state of the right shape, after a run and after a longer one.
LEMMA NonTargetIsBounded ==
    ASSUME NEW b \in Waiting
    PROVE  LET d == NonTargetDelay(b)
           IN  /\ d \in Nat /\ 120 <= d
               /\ d <= IF b.cap <= 0 THEN 1800 ELSE b.cap
               /\ d <= NonTargetDelay([b EXCEPT !.streak = @ + 1])
               /\ d > 120 + b.jitter => b.streak > 3
  <1>. DEFINE top == IF b.cap <= 0 THEN 1800 ELSE b.cap
              base == 120 + b.jitter
              D == Doubled(base, top)
              next == [b EXCEPT !.streak = @ + 1]
              n == b.streak
  <1>1. b.cap \in Int /\ (b.cap <= 0 \/ b.cap >= 300) /\ b.jitter \in Nat /\ b.jitter <= 179
    <2>. DEFINE j == b.jitter
    <2>1. NonTargetMaxDelay - NonTargetMinDelay - 1 = 179 /\ NonTargetMaxDelay = 300
      BY DEF NonTargetMaxDelay, NonTargetMinDelay, Minute
    <2>2. j \in 0..179 /\ b.cap \in Caps
      BY <2>1 DEF Waiting
    <2>. HIDE DEF j
    <2>3. j \in Nat /\ j <= 179
      BY <2>2
    <2>. QED  BY <2>1, <2>2, <2>3 DEF Caps, j
  <1>2. base \in Nat /\ top \in Nat /\ base <= top /\ 120 <= base /\ top = IF b.cap <= 0 THEN 1800 ELSE b.cap
    BY <1>1
  <1>3. n \in Nat
    BY DEF Waiting
  <1>4. next.streak = n + 1 /\ next.cap = b.cap /\ next.jitter = b.jitter
    BY DEF Waiting
  <1>5. NonTargetDelay(b) = IF n <= 3 THEN base ELSE D[n - 3]
    BY DEF NonTargetDelay, NonTargetMinDelay, NonTargetEscalateAfter,
           NonTargetDelayCapDefault, Minute
  <1>6. NonTargetDelay(next) = IF n + 1 <= 3 THEN base ELSE D[(n + 1) - 3]
    BY <1>4 DEF NonTargetDelay, NonTargetMinDelay, NonTargetEscalateAfter,
           NonTargetDelayCapDefault, Minute
  <1>7. ASSUME NEW k \in Nat
        PROVE  D[k] \in Nat /\ base <= D[k] /\ D[k] <= top /\ D[k] <= D[k + 1]
    <2>1. base \in Nat /\ top \in Nat /\ base <= top
      BY <1>2
    <2>. HIDE DEF base, top
    <2>. QED  BY <2>1, DoubledBounds
  <1>. HIDE DEF D, base, top, next, n
  <1>8. CASE n < 3
    <2>1. NonTargetDelay(b) = base /\ NonTargetDelay(next) = base
      BY <1>3, <1>5, <1>6, <1>8
    <2>2. base \in Nat /\ 120 <= base /\ base <= top /\ ~(base > 120 + b.jitter)
      BY <1>1, <1>2 DEF base
    <2>. QED  BY <2>1, <2>2 DEF next, top
  <1>9. CASE n = 3
    <2>1. (n + 1) - 3 = 0 + 1 /\ ~(n + 1 <= 3) /\ n <= 3
      BY <1>9
    <2>2. NonTargetDelay(b) = base /\ NonTargetDelay(next) = D[0 + 1]
      BY <1>5, <1>6, <2>1
    <2>3. D[0 + 1] \in Nat /\ base <= D[0 + 1]
      BY <1>7
    <2>4. base \in Nat /\ 120 <= base /\ base <= top /\ ~(base > 120 + b.jitter)
      BY <1>1, <1>2 DEF base
    <2>. QED  BY <2>2, <2>3, <2>4 DEF next, top
  <1>10. CASE n > 3
    <2>1. n - 3 \in Nat /\ (n + 1) - 3 = (n - 3) + 1
      BY <1>3, <1>10
    <2>2. NonTargetDelay(b) = D[n - 3] /\ NonTargetDelay(next) = D[(n - 3) + 1]
      BY <1>3, <1>5, <1>6, <1>10, <2>1
    <2>3. D[n - 3] \in Nat /\ base <= D[n - 3] /\ D[n - 3] <= top /\ D[n - 3] <= D[(n - 3) + 1]
      BY <1>7, <2>1
    <2>4. /\ NonTargetDelay(b) \in Nat /\ 120 <= NonTargetDelay(b)
          /\ NonTargetDelay(b) <= top /\ NonTargetDelay(b) <= NonTargetDelay(next)
      BY <1>2, <2>2, <2>3
    <2>. QED  BY <1>10, <2>4 DEF n, next, top
  <1>. QED  BY <1>3, <1>8, <1>9, <1>10

\* Whatever the settings and the run, no wait is shorter than two minutes or longer
\* than the cap, and only an unbroken run of wrong shapes makes one longer.
THEOREM EveryWaitIsBounded ==
    ASSUME NEW b \in Waiting, b.streak = Streak(b.run)
    PROVE  WaitIsBounded(b, b.run)
  <1>. DEFINE n == b.streak
              next == [b EXCEPT !.streak = @ + 1]
              top == IF b.cap <= 0 THEN 1800 ELSE b.cap
  <1>1. /\ b.run \in Seq(Outcomes) /\ Len(b.run) \in Nat /\ n \in Nat /\ b.retryAfter \in Nat
    BY DEF Waiting
  <1>2. NextDelay(b, "RATE_LIMIT") > 0
    BY <1>1 DEF NextDelay, DefaultRetryAfter, Minute
  <1>3. \A c : /\ NextDelay(c, "SUCCESS_NON_TARGET") = NonTargetDelay(c)
              /\ NextDelay(c, "SUCCESS_STALE") = NonTargetDelay(c)
    BY DEF NextDelay
  <1>4. /\ NonTargetDelay(b) \in Nat /\ 120 <= NonTargetDelay(b)
        /\ NonTargetDelay(b) <= top
        /\ NonTargetDelay(b) <= NonTargetDelay(next)
        /\ NonTargetDelay(b) > 120 + b.jitter => b.streak > 3
    BY NonTargetIsBounded
  <1>5. NextDelay(b, "SUCCESS_NON_TARGET") > NonTargetMinDelay + b.jitter =>
          /\ Len(b.run) > NonTargetEscalateAfter
          /\ \A i \in 0..NonTargetEscalateAfter : b.run[Len(b.run) - i] = "SUCCESS_NON_TARGET"
    <2>. HIDE DEF n, next, top
    <2>1. NonTargetMinDelay = 120 /\ NonTargetEscalateAfter = 3
      BY DEF NonTargetMinDelay, NonTargetEscalateAfter, Minute
    <2>. QED  BY <1>1, <1>3, <1>4, <2>1, StreakIsUnbroken
  <1>6. /\ ProxyCooldown(n) \in Minute..64 * Minute
        /\ ProxyCooldown(n + 1) \in {ProxyCooldown(n), 2 * ProxyCooldown(n)}
        /\ ProxyCooldownReachedCap(n) <=> n >= 7
    <2>1. n \in Nat
      BY <1>1
    <2>. HIDE DEF n
    <2>2. /\ ProxyCooldown(n) \in Nat /\ 60 <= ProxyCooldown(n) /\ ProxyCooldown(n) <= 3840
          /\ ProxyCooldown(n + 1) \in {ProxyCooldown(n), 2 * ProxyCooldown(n)}
          /\ ProxyCooldownReachedCap(n) <=> n >= 7
      BY <2>1, CooldownIsBounded
    <2>. DEFINE x == ProxyCooldown(n)
    <2>3. x \in Nat /\ 60 <= x /\ x <= 3840
      BY <2>2
    <2>4. Minute = 60
      BY DEF Minute
    <2>. HIDE DEF x
    <2>5. x \in Minute..64 * Minute
      BY <2>3, <2>4
    <2>. QED  BY <2>2, <2>5 DEF x
  <1>7. ASSUME NEW o \in Outcomes \ {"SUCCESS_TARGET", "RATE_LIMIT"}
        PROVE  LET d == NextDelay(b, o)
               IN  /\ d >= 2 * Minute
                   /\ o \in {"SUCCESS_NON_TARGET", "SUCCESS_STALE"} =>
                        /\ d <= IF b.cap <= 0 THEN NonTargetDelayCapDefault ELSE b.cap
                        /\ d <= NextDelay([b EXCEPT !.streak = @ + 1], o)
    <2>1. CASE o \in {"SUCCESS_NON_TARGET", "SUCCESS_STALE"}
      <3>1. NextDelay(b, o) = NonTargetDelay(b) /\ NextDelay(next, o) = NonTargetDelay(next)
        BY <1>3, <2>1
      <3>2. 2 * Minute = 120 /\ NonTargetDelayCapDefault = 1800
        BY DEF Minute, NonTargetDelayCapDefault
      <3>. HIDE DEF next
      <3>3. NextDelay(b, o) >= 2 * Minute
        BY <1>4, <3>1, <3>2
      <3>4. NextDelay(b, o) <= IF b.cap <= 0 THEN NonTargetDelayCapDefault ELSE b.cap
        BY <1>4, <3>1, <3>2
      <3>5. NextDelay(b, o) <= NextDelay(next, o)
        BY <1>4, <3>1
      <3>. QED  BY <3>3, <3>4, <3>5 DEF next
    <2>2. CASE o \notin {"SUCCESS_NON_TARGET", "SUCCESS_STALE"}
      <3>1. NextDelay(b, o) = Fixed[o]
        BY <2>2 DEF NextDelay
      <3>2. o \in DOMAIN Fixed /\ Fixed[o] >= 120
        BY <2>2 DEF Outcomes, Fixed, Minute
      <3>. QED  BY <2>2, <3>1, <3>2 DEF Minute
    <2>. QED  BY <2>1, <2>2
  <1>. QED  BY <1>2, <1>5, <1>6, <1>7 DEF WaitIsBounded

\* Whatever the settings and the run of outcomes, no answer is followed too soon
\* by another probe, nor too late, and benches double up to their top
\* (WaitsAreBounded).
THEOREM AnyWaitIsBounded ==
    ASSUME input.rule = "backoff" => input \in BackoffInputs
    PROVE  WaitsAreBounded
  BY EveryWaitIsBounded DEF WaitsAreBounded, BackoffInputs
=============================================================================
