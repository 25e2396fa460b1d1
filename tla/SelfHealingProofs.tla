-------------------------- MODULE SelfHealingProofs --------------------------
(***************************************************************************)
(* What the self-healing rules guarantee for every set of requests, pairs  *)
(* and values, every limit, and every interleaving of the handlers.        *)
(*                                                                         *)
(* The facts are proved together: that a failure blames the right request  *)
(* and is counted once rests on the records telling what was sent and on   *)
(* their being gone once an answer was seen, and that the handlers write   *)
(* to a pair at all rests on whom the records blame.                       *)
(*                                                                         *)
(* Then: the probe beside the hooks is the one the scheduler promises, and *)
(* the hooks' rewrite of a body (Timezone) is stable and stays inside the  *)
(* environment context, for bodies of any length.                          *)
(***************************************************************************)
EXTENDS SelfHealing, Timezone, SequenceTheorems, FiniteSetTheorems, WellFoundedInduction,
        TLAPS

\* A record tells what went out with its request, and is gone once an answer to
\* the request was seen.
RecordsAreHonest ==
    \A r \in Requests :
        corr[r] # NoRecord =>
            /\ stage[r] \in {"sent", "healing", "closed"}
            /\ corr[r].pair = pair[r] /\ corr[r].value = sent[r]

\* The failures held against p.
Against(p) == {r \in failures : pair[r] = p}

\* A failure is one of a request that is over, so none is counted a second time.
FailuresAreOver ==
    /\ IsFiniteSet(failures)
    /\ \A r \in failures : stage[r] \in {"healing", "closed"}

\* A value is only ever sent for a pair, and a handler that is about to write
\* the bindings knows which pair it is about.
KnowsItsPair ==
    \A r \in Requests :
        /\ sent[r] # NoValue => pair[r] \in Pairs
        /\ stage[r] \in {"discarding", "notifying"} => pair[r] \in Pairs

HealInv ==
    /\ TypeOK
    /\ RecordsAreHonest
    /\ OnlyCarriersHeal
    /\ RunsAreActedUpon
    /\ StrikesAreEarned
    /\ FailuresAreOver
    /\ KnowsItsPair

-----------------------------------------------------------------------------
LEMMA RecordedType ==
    ASSUME TypeOK, NEW p \in Pairs \cup {NoPair}
    PROVE  /\ InjectedValue(p) \in Values \cup {NoValue}
           /\ InjectedValue(p) # NoValue => p \in Pairs
           /\ Recorded(p) \in Record
           /\ Recorded(p).pair = p /\ Recorded(p).value = InjectedValue(p)
  <1>1. InjectedValue(p) \in Values \cup {NoValue}
    BY TargetsAssumption DEF TypeOK, InjectedValue
  <1>2. InjectedValue(p) # NoValue => p \in Pairs
    BY DEF InjectedValue
  <1>. QED  BY <1>1, <1>2 DEF Recorded, Record

\* The account of a response is the one the request was recorded with.
LEMMA ResponsePairIsItsPair ==
    ASSUME TypeOK, RecordsAreHonest, NEW r \in Requests, NEW published \in BOOLEAN,
           ResponsePair(r, published) # NoPair
    PROVE  ResponsePair(r, published) = pair[r] /\ pair[r] \in Pairs
  BY DEF TypeOK, RecordsAreHonest, ResponsePair

-----------------------------------------------------------------------------
\* Strikes stay earned while nothing is counted and no failure is forgotten.
LEMMA EarnedStay ==
    ASSUME StrikesAreEarned, FailuresAreOver, UNCHANGED <<strikes, failures>>,
           \A r \in failures : pair'[r] = pair[r] /\ stage'[r] \in {"healing", "closed"}
    PROVE  StrikesAreEarned' /\ FailuresAreOver'
  <1>1. ASSUME NEW p \in Pairs PROVE Against(p)' = Against(p)
    BY DEF Against
  <1>. QED  BY <1>1 DEF StrikesAreEarned, FailuresAreOver, Against

\* A pair whose failures are forgiven starts again from no strike.
LEMMA ForgivenStartAgain ==
    ASSUME TypeOK, StrikesAreEarned, FailuresAreOver, NEW p \in Pairs,
           strikes' = [strikes EXCEPT ![p] = 0], failures' = Forgiven(p), UNCHANGED pair,
           \A r \in failures' : stage'[r] \in {"healing", "closed"}
    PROVE  StrikesAreEarned' /\ FailuresAreOver' /\ failures' \subseteq Requests
  <1>1. failures' \subseteq failures /\ IsFiniteSet(failures')
    BY FS_Subset DEF Forgiven, FailuresAreOver
  <1>2. ASSUME NEW q \in Pairs PROVE strikes'[q] <= Cardinality(Against(q)')
    <2>1. IsFiniteSet(Against(q)')
      BY <1>1, FS_Subset DEF Against
    <2>2. CASE q = p
      <3>1. Cardinality(Against(q)') \in Nat
        BY <2>1, FS_CardinalityType
      <3>. QED  BY <2>2, <3>1 DEF TypeOK
    <2>3. CASE q # p
      <3>1. Against(q)' = Against(q)
        BY <2>3 DEF Against, Forgiven
      <3>2. strikes'[q] = strikes[q] /\ strikes[q] <= Cardinality(Against(q))
        BY <2>3 DEF TypeOK, StrikesAreEarned, Against
      <3>. QED  BY <3>1, <3>2
    <2>. QED  BY <2>2, <2>3
  <1>. QED  BY <1>1, <1>2 DEF StrikesAreEarned, FailuresAreOver, Against, TypeOK

\* A request that is over for the first time may add to the failures of its
\* pair, and at most one strike comes of it.
LEMMA StrikeIsEarned ==
    ASSUME TypeOK, StrikesAreEarned, FailuresAreOver, NEW r \in Requests, UNCHANGED pair,
           stage[r] \notin {"healing", "closed"},
           \A q \in Requests : q # r => stage'[q] = stage[q],
           stage'[r] \in {"healing", "closed"},
           \/ failures' = failures /\ strikes' = strikes
           \/ /\ failures' = failures \cup {r}
              /\ \/ strikes' = strikes
                 \/ strikes' = [strikes EXCEPT ![pair[r]] = @ + 1]
    PROVE  StrikesAreEarned' /\ FailuresAreOver' /\ failures' \subseteq Requests
  <1>1. r \notin failures
    BY DEF FailuresAreOver
  <1>2. /\ IsFiniteSet(failures') /\ failures' \subseteq Requests
        /\ \A q \in failures' : stage'[q] \in {"healing", "closed"}
    BY FS_AddElement DEF FailuresAreOver, TypeOK
  <1>3. ASSUME NEW p \in Pairs PROVE strikes'[p] <= Cardinality(Against(p)')
    <2>1. /\ IsFiniteSet(Against(p)) /\ r \notin Against(p)
          /\ Cardinality(Against(p)) \in Nat /\ strikes[p] <= Cardinality(Against(p))
      <3>1. IsFiniteSet(Against(p))
        BY FS_Subset DEF Against, FailuresAreOver
      <3>. QED  BY <1>1, <3>1, FS_CardinalityType DEF Against, StrikesAreEarned
    <2>2. CASE failures' = failures \cup {r} /\ pair[r] = p
      <3>1. Against(p)' = Against(p) \cup {r}
        BY <2>2 DEF Against
      <3>2. Cardinality(Against(p)') = Cardinality(Against(p)) + 1
        BY <2>1, <3>1, FS_AddElement
      <3>3. strikes'[p] <= strikes[p] + 1 /\ strikes[p] \in Nat /\ strikes'[p] \in Nat
        BY <2>2 DEF TypeOK
      <3>. QED  BY <2>1, <3>2, <3>3
    <2>3. CASE failures' = failures \/ pair[r] # p
      <3>1. Against(p)' = Against(p)
        BY <2>3 DEF Against
      <3>2. strikes'[p] = strikes[p]
        BY <2>3, <1>1 DEF TypeOK
      <3>. QED  BY <2>1, <3>1, <3>2
    <2>. QED  BY <2>2, <2>3
  <1>. QED  BY <1>2, <1>3 DEF StrikesAreEarned, FailuresAreOver, Against

\* The invariant survives the hook that injects.
LEMMA InjectKeeps ==
    ASSUME HealInv, NEW r \in Requests, NEW p \in Pairs \cup {NoPair}, Inject(r, p)
    PROVE  HealInv'
  <1> USE DEF HealInv
  <1>1. /\ Recorded(p) \in Record /\ Recorded(p).pair = p
        /\ Recorded(p).value = InjectedValue(p)
        /\ InjectedValue(p) \in Values \cup {NoValue}
        /\ InjectedValue(p) # NoValue => p \in Pairs
    BY RecordedType
  <1>2. /\ stage' = [stage EXCEPT ![r] = "sent"] /\ stage[r] = "new"
        /\ pair' = [pair EXCEPT ![r] = p]
        /\ sent' = [sent EXCEPT ![r] = InjectedValue(p)]
        /\ UNCHANGED <<binding, status, strikes, due, probe, enabled, run, unhealed, stale,
                       failures>>
        /\ aged' = {}
        /\ corr' = [Swept EXCEPT ![r] = Recorded(p)]
    BY DEF Inject, held, probing, history
  <1>3. \A q \in Requests : corr'[q] = IF q = r THEN Recorded(p)
                                       ELSE IF q \in aged THEN NoRecord ELSE corr[q]
    BY <1>2 DEF Swept
  <1>4. corr' \in [Requests -> Record \cup {NoRecord}]
    BY <1>1, <1>2 DEF Swept, TypeOK
  <1>5. TypeOK'
    BY <1>1, <1>2, <1>4 DEF TypeOK, Stages
  <1>6. RecordsAreHonest'
    BY <1>1, <1>2, <1>3 DEF TypeOK, RecordsAreHonest
  <1>7. OnlyCarriersHeal' /\ KnowsItsPair'
    BY <1>1, <1>2 DEF TypeOK, OnlyCarriersHeal, KnowsItsPair
  <1>8. RunsAreActedUpon'
    BY <1>2 DEF TypeOK, RunsAreActedUpon
  <1>9. StrikesAreEarned' /\ FailuresAreOver'
    <2>1. \A q \in failures : q \in Requests /\ q # r
      BY <1>2 DEF TypeOK, FailuresAreOver
    <2>2. \A q \in failures : pair'[q] = pair[q] /\ stage'[q] = stage[q]
      BY <1>2, <2>1 DEF TypeOK
    <2>. QED  BY <1>2, <2>2, EarnedStay DEF FailuresAreOver
  <1>. QED  BY <1>5, <1>6, <1>7, <1>8, <1>9

\* The invariant survives the handlers of a response.
LEMMA ResponseKeeps ==
    ASSUME HealInv, NEW r \in Requests,
           \/ \E v \in Values, published \in BOOLEAN :
                 Capture(r, v, published) \/ FindStale(r, v, published)
           \/ Ignore(r) \/ Discard(r) \/ DiscardFails(r) \/ Notify(r)
    PROVE  HealInv'
  <1> USE DEF HealInv, TypeOK, Stages
  <1>1. ASSUME NEW v \in Values, NEW published \in BOOLEAN, Capture(r, v, published)
        PROVE  HealInv'
    <2> DEFINE p == ResponsePair(r, published)
    <2>1. p = pair[r] /\ p \in Pairs
      BY <1>1, ResponsePairIsItsPair DEF Capture
    <2> HIDE DEF p
    <2>2. /\ stage[r] = "sent" /\ v \in Targets
          /\ binding' = [binding EXCEPT ![p] = v]
          /\ status' = [status EXCEPT ![p] = "fresh"]
          /\ stale' = stale \ {p}
          /\ strikes' = [strikes EXCEPT ![p] = 0]
          /\ unhealed' = unhealed \ {p}
          /\ run' = [run EXCEPT ![p] = IF binding[p] = v THEN @ ELSE 0]
          /\ failures' = Forgiven(p)
          /\ corr' = [corr EXCEPT ![r] = NoRecord]
          /\ stage' = [stage EXCEPT ![r] = "answered"]
          /\ UNCHANGED <<aged, pair, sent, due, probe, enabled>>
      BY <1>1 DEF Capture, Consumed, Store, ResetStrikes, AcceptState, probing, p
    <2>0. StrikesAreEarned' /\ FailuresAreOver' /\ failures' \subseteq Requests
      <3>1. \A q \in failures' : q \in failures /\ q \in Requests /\ q # r
        BY <2>2 DEF Forgiven, FailuresAreOver
      <3>2. \A q \in failures' : stage'[q] \in {"healing", "closed"}
        BY <2>2, <3>1 DEF FailuresAreOver
      <3>. QED  BY <2>1, <2>2, <3>2, ForgivenStartAgain
    <2>3. TypeOK'
      BY <2>0, <2>1, <2>2
    <2>4. RecordsAreHonest' /\ OnlyCarriersHeal' /\ KnowsItsPair'
      BY <2>2 DEF RecordsAreHonest, OnlyCarriersHeal, KnowsItsPair
    <2>5. RunsAreActedUpon'
      BY <2>1, <2>2, LimitAssumption DEF RunsAreActedUpon
    <2>. QED  BY <2>0, <2>3, <2>4, <2>5
  <1>0. ASSUME \/ \E v \in Values, published \in BOOLEAN : FindStale(r, v, published)
               \/ Ignore(r) \/ Discard(r) \/ DiscardFails(r) \/ Notify(r)
        PROVE  StrikesAreEarned' /\ FailuresAreOver'
    <2>1. /\ UNCHANGED <<strikes, failures, pair>>
          /\ stage[r] \notin {"healing", "closed"}
          /\ \A q \in Requests : q # r => stage'[q] = stage[q]
      BY <1>0 DEF FindStale, Ignore, Discard, DiscardFails, Notify, held, history
    <2>2. \A q \in failures : stage'[q] = stage[q]
      BY <2>1 DEF FailuresAreOver
    <2>. QED  BY <2>1, <2>2, EarnedStay DEF FailuresAreOver
  <1>2. ASSUME NEW v \in Values, NEW published \in BOOLEAN, FindStale(r, v, published)
        PROVE  HealInv'
    <2>1. pair[r] \in Pairs
      BY <1>2, ResponsePairIsItsPair DEF FindStale
    <2>. QED
      BY <1>0, <1>2, <2>1 DEF FindStale, Consumed, RecordsAreHonest, OnlyCarriersHeal, KnowsItsPair,
                        RunsAreActedUpon, held, probing, history
  <1>3. CASE Ignore(r) \/ DiscardFails(r)
    BY <1>0, <1>3 DEF Ignore, Consumed, DiscardFails, RecordsAreHonest, OnlyCarriersHeal, KnowsItsPair,
                RunsAreActedUpon, held, probing, history
  <1>4. CASE Discard(r)
    BY <1>0, <1>4 DEF Discard, Invalidate, RecordsAreHonest, OnlyCarriersHeal, KnowsItsPair,
                RunsAreActedUpon, probing
  <1>5. CASE Notify(r)
    BY <1>0, <1>5 DEF Notify, RecordsAreHonest, OnlyCarriersHeal, KnowsItsPair,
                RunsAreActedUpon, held, history
  <1>. QED  BY <1>1, <1>2, <1>3, <1>4, <1>5

\* The invariant survives the end of a request and the healing it may cause.
LEMMA CompletionKeeps ==
    ASSUME HealInv, NEW r \in Requests,
           \/ CompleteOther(r) \/ CompleteUnexplained(r) \/ CompleteServerError(r)
           \/ Heal(r) \/ HealFails(r) \/ AgeRecord(r)
    PROVE  HealInv'
  <1> USE DEF HealInv, TypeOK, Stages
  <1>7. ASSUME \/ CompleteOther(r) \/ CompleteUnexplained(r) \/ HealFails(r) \/ AgeRecord(r)
        PROVE  StrikesAreEarned' /\ FailuresAreOver'
    <2>1. /\ UNCHANGED <<strikes, failures, pair>>
          /\ stage' = [stage EXCEPT ![r] = "closed"] \/ stage' = stage
      BY <1>7 DEF CompleteOther, CompleteUnexplained, HealFails, AgeRecord, held, history
    <2>2. \A q \in failures : stage'[q] \in {"healing", "closed"}
      BY <2>1 DEF FailuresAreOver
    <2>. QED  BY <2>1, <2>2, EarnedStay
  <1>0. \A failed \in BOOLEAN : CountRun(r, failed) => run' \in [Pairs -> Nat]
    <2> SUFFICES ASSUME NEW failed \in BOOLEAN, CountRun(r, failed)
                 PROVE  run' \in [Pairs -> Nat]
      OBVIOUS
    <2>. QED  BY DEF CountRun
  <1>1. CASE CompleteOther(r)
    <2>1. run' \in [Pairs -> Nat]
      BY <1>0, <1>1 DEF CompleteOther
    <2>2. /\ stage' = [stage EXCEPT ![r] = "closed"] /\ stage[r] \in {"sent", "answered"}
          /\ corr' = [corr EXCEPT ![r] = NoRecord] \/ corr' = corr
          /\ UNCHANGED <<binding, status, aged, strikes, pair, sent, due, probe, enabled,
                         unhealed, stale, failures>>
      BY <1>1 DEF CompleteOther, held, probing
    <2>. QED
      BY <1>1, <1>7, <2>1, <2>2 DEF RecordsAreHonest, OnlyCarriersHeal, KnowsItsPair,
                                    RunsAreActedUpon
  <1>2. CASE CompleteUnexplained(r)
    BY <1>2, <1>7 DEF CompleteUnexplained, RecordsAreHonest, OnlyCarriersHeal, KnowsItsPair,
                RunsAreActedUpon, held, probing, history
  <1>3. CASE CompleteServerError(r)
    <2>1. run' \in [Pairs -> Nat]
      BY <1>0, <1>3 DEF CompleteServerError
    <2>2. /\ stage[r] \in {"sent", "answered"}
          /\ UNCHANGED <<binding, status, corr, aged, pair, sent, due, probe, enabled,
                         unhealed, stale>>
      BY <1>3 DEF CompleteServerError, held, probing
    <2>0. StrikesAreEarned' /\ FailuresAreOver' /\ failures' \subseteq Requests
      <3>1. enabled /\ Blames(r) => corr[r].pair = pair[r] /\ stage[r] = "sent" /\ sent[r] # NoValue
        BY <2>2 DEF Blames, RecordsAreHonest
      <3>2. /\ stage'[r] \in {"healing", "closed"}
            /\ \A q \in Requests : q # r => stage'[q] = stage[q]
        BY <1>3 DEF CompleteServerError
      <3>3. \/ failures' = failures /\ strikes' = strikes
            \/ /\ failures' = failures \cup {r}
               /\ \/ strikes' = strikes
                  \/ strikes' = [strikes EXCEPT ![pair[r]] = @ + 1]
        BY <1>3, <3>1 DEF CompleteServerError
      <3>. QED  BY <2>2, <3>2, <3>3, StrikeIsEarned
    <2>3. CASE enabled /\ Blames(r)
      <3> DEFINE p == corr[r].pair
      <3>1. p = pair[r] /\ p \in Pairs /\ sent[r] # NoValue
        BY <2>3 DEF Blames, RecordsAreHonest, KnowsItsPair
      <3>2. /\ strikes' = [strikes EXCEPT ![p] = @ + 1]
            /\ stage' = [stage EXCEPT ![r] = IF strikes[p] + 1 >= Limit THEN "healing" ELSE "closed"]
        BY <1>3, <2>3 DEF CompleteServerError, RunReached
      <3> HIDE DEF p
      <3>3. TypeOK'
        BY <2>0, <2>1, <2>2, <3>1, <3>2
      <3>4. RecordsAreHonest' /\ OnlyCarriersHeal' /\ KnowsItsPair'
        BY <2>2, <3>1, <3>2 DEF RecordsAreHonest, OnlyCarriersHeal, KnowsItsPair
      <3>5. RunsAreActedUpon'
        BY <2>2, <3>1, <3>2, LimitAssumption DEF RunsAreActedUpon
      <3>. QED  BY <2>0, <3>3, <3>4, <3>5
    <2>4. CASE ~(enabled /\ Blames(r))
      <3>1. UNCHANGED strikes /\ stage' = [stage EXCEPT ![r] = "closed"]
        BY <1>3, <2>4 DEF CompleteServerError
      <3>. QED
        BY <2>0, <2>1, <2>2, <3>1 DEF RecordsAreHonest, OnlyCarriersHeal, KnowsItsPair,
                                      RunsAreActedUpon
    <2>. QED  BY <2>3, <2>4
  <1>4. CASE Heal(r)
    <2>1. pair[r] \in Pairs
      BY <1>4 DEF Heal, OnlyCarriersHeal
    <2>0. StrikesAreEarned' /\ FailuresAreOver' /\ failures' \subseteq Requests
      <3>1. \A q \in failures' : q \in failures /\ stage'[q] \in {"healing", "closed"}
        BY <1>4 DEF Heal, Forgiven, FailuresAreOver
      <3>. QED  BY <1>4, <2>1, <3>1, ForgivenStartAgain DEF Heal, ResetStrikes
    <2>2. TypeOK' /\ RecordsAreHonest' /\ OnlyCarriersHeal' /\ KnowsItsPair'
      BY <1>4, <2>0, <2>1 DEF Heal, Invalidate, ResetStrikes, probing,
                        RecordsAreHonest, OnlyCarriersHeal, KnowsItsPair
    <2>3. RunsAreActedUpon'
      BY <1>4, <2>1, LimitAssumption DEF Heal, ResetStrikes, RunsAreActedUpon
    <2>. QED  BY <2>0, <2>2, <2>3
  <1>5. CASE HealFails(r)
    <2>1. pair[r] \in Pairs
      BY <1>5 DEF HealFails, OnlyCarriersHeal
    <2>. QED
      BY <1>5, <1>7, <2>1 DEF HealFails, RecordsAreHonest, OnlyCarriersHeal, KnowsItsPair,
                        RunsAreActedUpon, held, probing
  <1>6. CASE AgeRecord(r)
    BY <1>6, <1>7 DEF AgeRecord, RecordsAreHonest, OnlyCarriersHeal, KnowsItsPair,
                RunsAreActedUpon, held, probing, history
  <1>. QED  BY <1>1, <1>2, <1>3, <1>4, <1>5, <1>6

\* The invariant survives what goes on beside the requests.
LEMMA BesideKeeps ==
    ASSUME HealInv,
           \/ \E p \in Pairs : ProbeStart(p) \/ ProbeDropped(p) \/ ProbeAnswers(p)
                 \/ ProbeBindFails(p) \/ ProbeSchedules(p)
           \/ \E p \in Pairs, v \in Values : ProbeBinds(p, v)
           \/ \E p \in Pairs : BackoffEnds(p) \/ Age(p)
           \/ Toggle
           \/ UNCHANGED vars
    PROVE  HealInv'
  <1> USE DEF HealInv
  <1>1. UNCHANGED <<corr, strikes, stage, pair, sent, unhealed, failures>>
    BY DEF ProbeStart, ProbeDropped, ProbeAnswers, ProbeBindFails, ProbeSchedules, ProbeBinds, BackoffEnds,
           Age, Toggle, vars, traffic, history
  <1>2. RecordsAreHonest' /\ OnlyCarriersHeal' /\ KnowsItsPair' /\ RunsAreActedUpon'
    BY <1>1 DEF RecordsAreHonest, OnlyCarriersHeal, KnowsItsPair, RunsAreActedUpon
  <1>4. StrikesAreEarned' /\ FailuresAreOver'
    BY <1>1, EarnedStay DEF FailuresAreOver
  <1>3. TypeOK'
    <2> USE DEF TypeOK, held, traffic, probing, history
    <2>1. ASSUME NEW p \in Pairs, NEW v \in Values, ProbeBinds(p, v) PROVE TypeOK'
      BY <2>1 DEF ProbeBinds, Store, AcceptState
    <2>2. ASSUME NEW p \in Pairs,
                 ProbeStart(p) \/ ProbeDropped(p) \/ ProbeAnswers(p)
                 \/ ProbeBindFails(p) \/ ProbeSchedules(p)
          PROVE  TypeOK'
      BY <2>2 DEF ProbeStart, ProbeDropped, ProbeAnswers, ProbeBindFails, ProbeSchedules
    <2>3. ASSUME NEW p \in Pairs, BackoffEnds(p) \/ Age(p) PROVE TypeOK'
      BY <2>3 DEF BackoffEnds, Age
    <2>4. CASE Toggle
      BY <2>4 DEF Toggle
    <2>5. CASE UNCHANGED vars
      BY <2>5 DEF vars
    <2>. QED  BY <2>1, <2>2, <2>3, <2>4, <2>5
  <1>. QED  BY <1>2, <1>3, <1>4

-----------------------------------------------------------------------------
\* The inductive invariant holds in every reachable state.
THEOREM HealInvariant == Spec => []HealInv
  <1>1. Init => HealInv
    <2> SUFFICES ASSUME Init PROVE HealInv
      OBVIOUS
    <2>1. TypeOK /\ RecordsAreHonest /\ OnlyCarriersHeal /\ RunsAreActedUpon /\ KnowsItsPair
      BY LimitAssumption DEF Init, TypeOK, Stages, RecordsAreHonest, OnlyCarriersHeal,
                             RunsAreActedUpon, KnowsItsPair
    <2>2. StrikesAreEarned /\ FailuresAreOver
      <3>1. failures = {} /\ \A p \in Pairs : strikes[p] = 0 /\ Against(p) = {}
        BY DEF Init, Against
      <3>. QED  BY <3>1, FS_EmptySet DEF StrikesAreEarned, FailuresAreOver, Against
    <2>. QED  BY <2>1, <2>2 DEF HealInv
  <1>2. HealInv /\ [Next]_vars => HealInv'
    <2> SUFFICES ASSUME HealInv, [Next]_vars PROVE HealInv'
      OBVIOUS
    <2>1. ASSUME NEW r \in Requests, NEW p \in Pairs \cup {NoPair}, Inject(r, p) PROVE HealInv'
      BY <2>1, InjectKeeps
    <2>2. ASSUME NEW r \in Requests,
                 \/ \E v \in Values, published \in BOOLEAN :
                       Capture(r, v, published) \/ FindStale(r, v, published)
                 \/ Ignore(r) \/ Discard(r) \/ DiscardFails(r) \/ Notify(r)
          PROVE  HealInv'
      BY <2>2, ResponseKeeps
    <2>3. ASSUME NEW r \in Requests,
                 \/ CompleteOther(r) \/ CompleteUnexplained(r) \/ CompleteServerError(r)
                 \/ Heal(r) \/ HealFails(r) \/ AgeRecord(r)
          PROVE  HealInv'
      BY <2>3, CompletionKeeps
    <2>4. CASE \/ \E p \in Pairs : ProbeStart(p) \/ ProbeDropped(p) \/ ProbeAnswers(p)
                 \/ ProbeBindFails(p) \/ ProbeSchedules(p)
               \/ \E p \in Pairs, v \in Values : ProbeBinds(p, v)
               \/ \E p \in Pairs : BackoffEnds(p) \/ Age(p)
               \/ Toggle
               \/ UNCHANGED vars
      BY <2>4, BesideKeeps
    <2>. QED  BY <2>1, <2>2, <2>3, <2>4 DEF Next
  <1>. QED  BY <1>1, <1>2, PTL DEF Spec

\* Every variable of the hooks and of the pair's probe keeps its type.
THEOREM TypeCorrect == Spec => []TypeOK
  <1>1. HealInv => TypeOK
    BY DEF HealInv
  <1>. QED  BY HealInvariant, <1>1, PTL

\* Every strike stands for a failed carrier of its own that no answer reached,
\* and none for anything from before its pair was last captured or healed.
THEOREM StrikesStandForFailures == Spec => []StrikesAreEarned
  <1>1. HealInv => StrikesAreEarned
    BY DEF HealInv
  <1>. QED  BY HealInvariant, <1>1, PTL

\* No request the plugin left alone ever costs a pair its binding.
THEOREM OnlyCarriersAreBlamed == Spec => []OnlyCarriersHeal
  <1>1. HealInv => OnlyCarriersHeal
    BY DEF HealInv
  <1>. QED  BY HealInvariant, <1>1, PTL

\* A run of strikes that has reached the limit is acted upon, or its action
\* failed; no interleaving of completions steps over the limit.
THEOREM NoRunIsMissed == Spec => []RunsAreActedUpon
  <1>1. HealInv => RunsAreActedUpon
    BY DEF HealInv
  <1>. QED  BY HealInvariant, <1>1, PTL

\* Whatever the hooks do, the probe of every pair runs as the scheduler promises:
\* requests, time and the operator only ever bring a pair's next probe nearer.
THEOREM ProbesRunAsPromised == Spec => ProbesAsPromised
  <1> USE DEF Fresh
  <1>1. Init => Probes!Init
    BY DEF Init, Probes!Init
  <1>2. TypeOK /\ TypeOK' /\ [Next]_vars => [Probes!Next]_<<due, Fresh, probe, enabled>>
    <2> SUFFICES ASSUME TypeOK, TypeOK', [Next]_vars
                 PROVE  [Probes!Next]_<<due, Fresh, probe, enabled>>
      OBVIOUS
    <2> USE DEF held, traffic, history, probing, Probes!Goes
    <2>1. ASSUME due \subseteq due', UNCHANGED probe
          PROVE  Probes!Next
      BY <2>1 DEF Probes!Next, Probes!World, TypeOK
    <2>2. ASSUME NEW r \in Requests, NEW p \in Pairs \cup {NoPair}, Inject(r, p)
          PROVE  Probes!Next
      BY <2>1, <2>2 DEF Inject
    <2>3. ASSUME NEW r \in Requests, NEW v \in Values, NEW published \in BOOLEAN,
                 Capture(r, v, published) \/ FindStale(r, v, published)
          PROVE  Probes!Next
      BY <2>1, <2>3 DEF Capture, FindStale
    <2>4. ASSUME NEW r \in Requests,
                 \/ Ignore(r) \/ Discard(r) \/ DiscardFails(r) \/ Notify(r)
                 \/ CompleteOther(r) \/ CompleteUnexplained(r) \/ CompleteServerError(r)
                 \/ Heal(r) \/ HealFails(r) \/ AgeRecord(r)
          PROVE  Probes!Next
      BY <2>1, <2>4 DEF Ignore, Discard, DiscardFails, Notify, CompleteOther,
                        CompleteUnexplained, CompleteServerError, Heal, HealFails, AgeRecord
    <2>5. ASSUME NEW p \in Pairs, BackoffEnds(p) \/ Age(p) PROVE Probes!Next
      BY <2>1, <2>5 DEF BackoffEnds, Age
    <2>6. CASE Toggle
      BY <2>1, <2>6 DEF Toggle
    <2>7. ASSUME NEW p \in Pairs, ProbeStart(p) PROVE Probes!Next
      BY <2>7 DEF ProbeStart, Probes!Start, Probes!Next
    <2>8. ASSUME NEW p \in Pairs, ProbeDropped(p) PROVE Probes!Next
      BY <2>8 DEF ProbeDropped, Probes!Drop, Probes!Next
    <2>9. ASSUME NEW p \in Pairs, ProbeAnswers(p) PROVE Probes!Next
      BY <2>9 DEF ProbeAnswers, Probes!Answer, Probes!Next
    <2>10. ASSUME NEW p \in Pairs, NEW v \in Values, ProbeBinds(p, v) PROVE Probes!Next
      <3>1. Fresh' = Fresh \cup {p}
        BY <2>10, NoValueAssumption DEF ProbeBinds, Store, TypeOK
      <3>. QED  BY <2>10, <3>1 DEF ProbeBinds, Probes!Bind, Probes!Next
    <2>11. ASSUME NEW p \in Pairs, ProbeBindFails(p) PROVE Probes!Next
      BY <2>11 DEF ProbeBindFails, Probes!Bind, Probes!Next
    <2>12. ASSUME NEW p \in Pairs, ProbeSchedules(p) PROVE Probes!Next
      BY <2>12 DEF ProbeSchedules, Probes!Schedule, Probes!Next
    <2>13. CASE UNCHANGED vars
      BY <2>13 DEF vars
    <2>. QED
      BY <2>2, <2>3, <2>4, <2>5, <2>6, <2>7, <2>8, <2>9, <2>10, <2>11, <2>12, <2>13 DEF Next
  <1>. QED
    BY TypeCorrect, <1>1, <1>2, PTL DEF Spec, ProbesAsPromised, Probes!Spec, Probes!probeVars

-----------------------------------------------------------------------------
(* The rewrite of the time zone, for every body, every list of dialects and   *)
(* every zone.  First what its operators do, said token by token: an edit     *)
(* cuts the text of the first element out and leaves the rest in order.       *)

\* Every set of natural numbers that has members has a least one.
LEMMA Least ==
    ASSUME NEW M, M \subseteq Nat, M # {}
    PROVE  \E n \in M : \A m \in M : n <= m
  <1>1. PICK n \in M : \A m \in M : ~(<<m, n>> \in OpToRel(<, Nat))
    BY NatLessThanWellFounded, WFMin
  <1>2. ASSUME NEW m \in M PROVE n <= m
    <2>. SUFFICES ASSUME m < n PROVE FALSE
      OBVIOUS
    <2>1. m \in Nat /\ n \in Nat
      OBVIOUS
    <2>2. <<m, n>> \in OpToRel(<, Nat)
      BY <2>1 DEF OpToRel
    <2>. QED  BY <1>1, <2>2
  <1>. QED  BY <1>2

\* A set that holds 0, and with each number the next one, holds all of them.
LEMMA NatSetInduction ==
    ASSUME NEW S, 0 \in S, \A n \in Nat : n \in S => n + 1 \in S
    PROVE  Nat \subseteq S
  <1>. SUFFICES ASSUME Nat \ S # {} PROVE FALSE
    OBVIOUS
  <1>1. PICK n \in Nat \ S : \A m \in Nat \ S : n <= m
    BY Least
  <1>2. n \in Nat /\ n # 0 /\ n - 1 \in Nat /\ (n - 1) + 1 = n /\ ~(n <= n - 1)
    OBVIOUS
  <1>3. n - 1 \in Nat \ S
    BY <1>2
  <1>. QED  BY <1>1, <1>2, <1>3

\* Each value of f follows from the one before it.
Follows(f, base, step) == f[0] = base /\ \A n \in Nat : f[n + 1] = step[<<n, f[n]>>]

\* There is a function that follows from its first value, step by step.
LEMMA Recursion ==
    ASSUME NEW V, NEW base \in V, NEW step \in [Nat \X V -> V]
    PROVE  \E f \in [Nat -> V] : Follows(f, base, step)
  <1>. DEFINE Runs(n) == {g \in [0..n -> V] :
                            /\ g[0] = base
                            /\ \A i \in 0..n : i < n => g[i + 1] = step[<<i, g[i]>>]}
  <1>1. \A n \in Nat : Runs(n) # {}
    <2>. DEFINE S == {n \in Nat : Runs(n) # {}}
    <2>1. 0 \in S
      <3>1. [i \in 0..0 |-> base] \in Runs(0)
        OBVIOUS
      <3>. QED  BY <3>1
    <2>2. ASSUME NEW n \in Nat, n \in S PROVE n + 1 \in S
      <3>1. PICK g \in Runs(n) : TRUE
        BY <2>2
      <3>. DEFINE h == [i \in 0..(n + 1) |-> IF i = n + 1 THEN step[<<n, g[n]>>] ELSE g[i]]
      <3>2. /\ g \in [0..n -> V] /\ g[0] = base
            /\ \A i \in 0..n : i < n => g[i + 1] = step[<<i, g[i]>>]
        BY <3>1
      <3>3. g[n] \in V /\ step[<<n, g[n]>>] \in V
        BY <3>2
      <3>4. h \in [0..(n + 1) -> V] /\ h[0] = base
        BY <3>2, <3>3
      <3>5. \A i \in 0..(n + 1) : i < n + 1 => h[i + 1] = step[<<i, h[i]>>]
        BY <3>2
      <3>6. h \in Runs(n + 1)
        BY <3>4, <3>5
      <3>. QED  BY <3>6, n + 1 \in Nat
    <2>. HIDE DEF S
    <2>3. Nat \subseteq S
      BY <2>1, <2>2, NatSetInduction
    <2>. QED  BY <2>3 DEF S
  <1>2. \A n \in Nat, m \in Nat : n <= m =>
           \A g \in Runs(n), h \in Runs(m) : g[n] = h[n]
    <2> SUFFICES ASSUME NEW n \in Nat, NEW m \in Nat, n <= m, NEW g \in Runs(n), NEW h \in Runs(m)
                 PROVE  g[n] = h[n]
      OBVIOUS
    <2>. DEFINE S == {i \in Nat : i <= n => g[i] = h[i]}
    <2>1. /\ g \in [0..n -> V] /\ g[0] = base
          /\ \A i \in 0..n : i < n => g[i + 1] = step[<<i, g[i]>>]
          /\ h \in [0..m -> V] /\ h[0] = base
          /\ \A i \in 0..m : i < m => h[i + 1] = step[<<i, h[i]>>]
      OBVIOUS
    <2>2. 0 \in S
      BY <2>1
    <2>3. ASSUME NEW i \in Nat, i \in S PROVE i + 1 \in S
      <3> SUFFICES ASSUME i + 1 <= n PROVE g[i + 1] = h[i + 1]
        OBVIOUS
      <3>1. i \in 0..n /\ i \in 0..m /\ i < n /\ i < m /\ g[i] = h[i]
        BY <2>3
      <3>. QED  BY <2>1, <3>1
    <2>. HIDE DEF S
    <2>4. Nat \subseteq S
      BY <2>2, <2>3, NatSetInduction
    <2>5. n \in S
      BY <2>4
    <2>. QED  BY <2>5 DEF S
  <1>. DEFINE chosen == [n \in Nat |-> CHOOSE g \in Runs(n) : TRUE]
              f == [n \in Nat |-> chosen[n][n]]
  <1>3. \A n \in Nat : chosen[n] \in Runs(n)
    BY <1>1
  <1>. HIDE DEF chosen
  <1>4. f \in [Nat -> V] /\ f[0] = base
    BY <1>3
  <1>5. ASSUME NEW n \in Nat PROVE f[n + 1] = step[<<n, f[n]>>]
    <2>1. chosen[n] \in Runs(n) /\ chosen[n + 1] \in Runs(n + 1) /\ n <= n + 1 /\ n + 1 \in Nat
      BY <1>3
    <2>2. chosen[n][n] = chosen[n + 1][n]
      BY <1>2, <2>1
    <2>3. chosen[n + 1][n + 1] = step[<<n, chosen[n + 1][n]>>]
      <3>1. n \in 0..(n + 1) /\ n < n + 1
        OBVIOUS
      <3>. QED  BY <2>1, <3>1
    <2>4. f[n + 1] = chosen[n + 1][n + 1] /\ f[n] = chosen[n][n]
      OBVIOUS
    <2>. QED  BY <2>2, <2>3, <2>4
  <1>. HIDE DEF f
  <1>. QED  BY <1>4, <1>5 DEF Follows

\* The first place of a token is one, and there is none before it.
LEMMA IndexFromMeans ==
    ASSUME NEW s, Len(s) \in Nat, NEW i \in Nat \ {0}, NEW token
    PROVE  LET k == IndexFrom(s, i, token)
           IN  /\ k \in Nat
               /\ k = 0 => \A j \in i..Len(s) : s[j] # token
               /\ k # 0 => /\ i <= k /\ k <= Len(s) /\ s[k] = token
                           /\ \A j \in i..(k - 1) : s[j] # token
  <1>. DEFINE at == {j \in i..Len(s) : s[j] = token}
              k == IndexFrom(s, i, token)
  <1>1. k = IF at = {} THEN 0 ELSE CHOOSE j \in at : \A m \in at : j <= m
    BY DEF IndexFrom
  <1>2. CASE at = {}
    BY <1>1, <1>2
  <1>3. CASE at # {}
    <2>1. at \subseteq Nat
      OBVIOUS
    <2>2. \E j \in at : \A m \in at : j <= m
      <3>. HIDE DEF at
      <3>. QED  BY <1>3, <2>1, Least
    <2>3. k \in at /\ \A m \in at : k <= m
      <3>. HIDE DEF at
      <3>. QED  BY <1>1, <1>3, <2>2
    <2>4. k \in Nat /\ k # 0 /\ i <= k /\ k <= Len(s) /\ s[k] = token
      BY <2>3
    <2>5. \A j \in i..(k - 1) : s[j] # token
      <3>. SUFFICES ASSUME NEW j \in i..(k - 1), s[j] = token PROVE FALSE
        OBVIOUS
      <3>1. j \in at /\ j < k
        BY <2>4
      <3>. QED  BY <2>3, <2>4, <3>1
    <2>. QED  BY <2>4, <2>5
  <1>. QED  BY <1>2, <1>3

\* A place with none before it is the first.
LEMMA IndexFromIs ==
    ASSUME NEW s, Len(s) \in Nat, NEW i \in Nat \ {0}, NEW token,
           NEW k \in Nat, i <= k, k <= Len(s), s[k] = token,
           \A j \in i..(k - 1) : s[j] # token
    PROVE  IndexFrom(s, i, token) = k
  <1>. DEFINE x == IndexFrom(s, i, token)
  <1>1. /\ x \in Nat
        /\ x = 0 => \A j \in i..Len(s) : s[j] # token
        /\ x # 0 => /\ i <= x /\ x <= Len(s) /\ s[x] = token
                    /\ \A j \in i..(x - 1) : s[j] # token
    BY IndexFromMeans
  <1>. HIDE DEF x
  <1>2. x # 0
    BY <1>1
  <1>3. ~(k < x)
    BY <1>1, <1>2
  <1>4. ~(x < k)
    BY <1>1, <1>2
  <1>. QED  BY <1>1, <1>3, <1>4 DEF x

\* Where an element starts and ends.
IsBlock(s, a, e, d, name) ==
    /\ a \in Nat /\ e \in Nat /\ 1 <= a /\ a < e /\ e <= Len(s)
    /\ s[a] = Open(d, name) /\ \A j \in 1..(a - 1) : s[j] # Open(d, name)
    /\ s[e] = Close(d, name) /\ \A j \in (a + 1)..(e - 1) : s[j] # Close(d, name)

\* FindBlock finds the first element of a name,
LEMMA BlockMeans ==
    ASSUME NEW s, Len(s) \in Nat, NEW d, NEW name, FindBlock(s, d, name)[2] # 0
    PROVE  IsBlock(s, FindBlock(s, d, name)[1], FindBlock(s, d, name)[2], d, name)
  <1>. DEFINE a == IndexFrom(s, 1, Open(d, name))
              e == IndexFrom(s, a + 1, Close(d, name))
  <1>1. /\ a \in Nat
        /\ a # 0 => /\ 1 <= a /\ a <= Len(s) /\ s[a] = Open(d, name)
                    /\ \A j \in 1..(a - 1) : s[j] # Open(d, name)
    BY IndexFromMeans
  <1>2. a # 0 /\ FindBlock(s, d, name)[1] = a /\ FindBlock(s, d, name)[2] = e
    BY DEF FindBlock
  <1>3. a + 1 \in Nat \ {0}
    BY <1>1
  <1>4. /\ e \in Nat
        /\ e # 0 => /\ a + 1 <= e /\ e <= Len(s) /\ s[e] = Close(d, name)
                    /\ \A j \in (a + 1)..(e - 1) : s[j] # Close(d, name)
    <2>. HIDE DEF a
    <2>. QED  BY <1>3, IndexFromMeans
  <1>. HIDE DEF a, e
  <1>. QED  BY <1>1, <1>2, <1>4 DEF IsBlock

\* and where there is one it finds that.
LEMMA BlockIs ==
    ASSUME NEW s, Len(s) \in Nat, NEW d, NEW name, NEW a, NEW e, IsBlock(s, a, e, d, name)
    PROVE  FindBlock(s, d, name) = <<a, e>>
  <1>1. IndexFrom(s, 1, Open(d, name)) = a
    BY IndexFromIs DEF IsBlock
  <1>2. a + 1 \in Nat \ {0} /\ a + 1 <= e /\ a # 0
    BY DEF IsBlock
  <1>3. IndexFrom(s, a + 1, Close(d, name)) = e
    BY <1>2, IndexFromIs DEF IsBlock
  <1>. QED  BY <1>1, <1>2, <1>3 DEF FindBlock, IsBlock

\* Two sequences, one behind the other.
IsJoin(z, x, y) ==
    /\ Len(z) = Len(x) + Len(y)
    /\ \A j \in 1..Len(x) : z[j] = x[j]
    /\ \A j \in 1..Len(y) : z[Len(x) + j] = y[j]

\* What stands where in a concatenation,
LEMMA Joined ==
    ASSUME NEW U, NEW x \in Seq(U), NEW y \in Seq(U)
    PROVE  x \o y \in Seq(U) /\ IsJoin(x \o y, x, y)
  <1>1. x \o y \in Seq(U) /\ Len(x \o y) = Len(x) + Len(y) /\ Len(x) \in Nat /\ Len(y) \in Nat
    OBVIOUS
  <1>2. \A j \in 1..Len(x) : (x \o y)[j] = x[j]
    OBVIOUS
  <1>3. \A j \in 1..Len(y) : (x \o y)[Len(x) + j] = y[j]
    <2> SUFFICES ASSUME NEW j \in 1..Len(y) PROVE (x \o y)[Len(x) + j] = y[j]
      OBVIOUS
    <2>1. Len(x) + j \in 1..(Len(x) + Len(y)) /\ ~(Len(x) + j <= Len(x)) /\ (Len(x) + j) - Len(x) = j
      BY <1>1
    <2>. QED  BY <1>1, <2>1
  <1>. DEFINE z == x \o y
  <1>4. z \in Seq(U) /\ Len(z) = Len(x) + Len(y)
        /\ (\A j \in 1..Len(x) : z[j] = x[j]) /\ \A j \in 1..Len(y) : z[Len(x) + j] = y[j]
    BY <1>1, <1>2, <1>3
  <1>. HIDE DEF z
  <1>5. z \in Seq(U) /\ IsJoin(z, x, y)
    BY <1>4 DEF IsJoin
  <1>. QED  BY <1>5 DEF z

\* A body whose tokens behind a and before e are replaced by others.
IsSplice(out, s, a, m, e) ==
    /\ Len(out) = a + Len(m) + (Len(s) - e) + 1
    /\ \A j \in 1..a : out[j] = s[j]
    /\ \A j \in 1..Len(m) : out[a + j] = m[j]
    /\ \A j \in e..Len(s) : out[a + Len(m) + (j - e) + 1] = s[j]

\* and in a body of which a part is replaced.
LEMMA Spliced ==
    ASSUME NEW U, NEW s \in Seq(U), NEW m \in Seq(U),
           NEW a \in Nat, NEW e \in Nat, a < e, e <= Len(s)
    PROVE  /\ SubSeq(s, 1, a) \o m \o SubSeq(s, e, Len(s)) \in Seq(U)
           /\ IsSplice(SubSeq(s, 1, a) \o m \o SubSeq(s, e, Len(s)), s, a, m, e)
  <1>. DEFINE p == SubSeq(s, 1, a)
              q == SubSeq(s, e, Len(s))
  <1>1. p \in Seq(U) /\ Len(p) = a /\ \A j \in 1..a : p[j] = s[j]
    <2>1. \A j \in 1..a : s[j] \in U
      OBVIOUS
    <2>. QED  BY <2>1, SubSeqProperties
  <1>2. q \in Seq(U) /\ Len(q) = Len(s) - e + 1 /\ \A j \in 1..(Len(s) - e + 1) : q[j] = s[e + j - 1]
    <2>1. \A j \in e..Len(s) : s[j] \in U
      OBVIOUS
    <2>2. Len(s) \in Int
      OBVIOUS
    <2>. QED  BY <2>1, <2>2, SubSeqProperties
  <1>. HIDE DEF p, q
  <1>. DEFINE pm == p \o m
              out == pm \o q
  <1>3. pm \in Seq(U) /\ IsJoin(pm, p, m)
    BY <1>1, Joined
  <1>. HIDE DEF pm
  <1>4. out \in Seq(U) /\ IsJoin(out, pm, q)
    BY <1>2, <1>3, Joined
  <1>. HIDE DEF out
  <1>5. Len(m) \in Nat /\ Len(s) \in Nat /\ Len(pm) = a + Len(m)
    BY <1>1, <1>3 DEF IsJoin
  <1>6. \A j \in 1..a : out[j] = s[j]
    BY <1>1, <1>3, <1>4, <1>5 DEF IsJoin
  <1>7. \A j \in 1..Len(m) : out[a + j] = m[j]
    <2>1. \A j \in 1..Len(m) : a + j \in 1..Len(pm) /\ pm[a + j] = m[j]
      BY <1>1, <1>3, <1>5 DEF IsJoin
    <2>. QED  BY <1>4, <2>1 DEF IsJoin
  <1>8. ASSUME NEW j \in e..Len(s) PROVE out[a + Len(m) + (j - e) + 1] = s[j]
    <2>. DEFINE i == (j - e) + 1
    <2>1. i \in 1..(Len(s) - e + 1) /\ e + i - 1 = j /\ a + Len(m) + (j - e) + 1 = Len(pm) + i
      BY <1>5
    <2>. HIDE DEF i
    <2>2. out[Len(pm) + i] = q[i]
      BY <1>2, <1>4, <2>1 DEF IsJoin
    <2>. QED  BY <1>2, <2>1, <2>2
  <1>9. Len(out) = a + Len(m) + (Len(s) - e) + 1
    BY <1>2, <1>4, <1>5 DEF IsJoin
  <1>10. out \in Seq(U) /\ IsSplice(out, s, a, m, e)
    BY <1>4, <1>6, <1>7, <1>8, <1>9 DEF IsSplice
  <1>. QED  BY <1>10 DEF out, pm, p, q

\* What ReplaceTag makes of an element.
LEMMA ReplacedTag ==
    ASSUME NEW U, NEW s \in Seq(U), NEW d, NEW name, NEW value, Text(value) \in U
    PROVE  /\ ReplaceTag(s, d, name, value) \in Seq(U)
           /\ \/ FindBlock(s, d, name)[2] = 0 /\ ReplaceTag(s, d, name, value) = s
              \/ \E a, e \in Nat : /\ FindBlock(s, d, name) = <<a, e>> /\ IsBlock(s, a, e, d, name)
                                   /\ IsSplice(ReplaceTag(s, d, name, value), s, a, <<Text(value)>>, e)
  <1>. DEFINE b == FindBlock(s, d, name)
              out == ReplaceTag(s, d, name, value)
              m == <<Text(value)>>
  <1>1. CASE b[2] = 0
    BY <1>1 DEF ReplaceTag
  <1>2. CASE b[2] # 0
    <2>1. m \in Seq(U)
      OBVIOUS
    <2>2. IsBlock(s, b[1], b[2], d, name)
      BY <1>2, BlockMeans
    <2>3. b[1] \in Nat /\ b[2] \in Nat /\ b[1] < b[2] /\ b[2] <= Len(s)
      BY <2>2 DEF IsBlock
    <2>4. b = <<b[1], b[2]>>
      BY DEF FindBlock
    <2>5. out = SubSeq(s, 1, b[1]) \o m \o SubSeq(s, b[2], Len(s))
      BY <1>2 DEF ReplaceTag
    <2>. HIDE DEF b, out, m
    <2>6. out \in Seq(U) /\ IsSplice(out, s, b[1], m, b[2])
      BY <2>1, <2>3, <2>5, Spliced
    <2>. QED  BY <2>2, <2>3, <2>4, <2>6 DEF b, out, m
  <1>. QED  BY <1>1, <1>2

\* The first element between two places.
FirstIn(s, lo, hi, d, name, p, q) ==
    /\ p \in Nat /\ q \in Nat /\ lo <= p /\ p < q /\ q <= hi
    /\ s[p] = Open(d, name) /\ \A j \in lo..(p - 1) : s[j] # Open(d, name)
    /\ s[q] = Close(d, name) /\ \A j \in (p + 1)..(q - 1) : s[j] # Close(d, name)
\* No element between two places.
NoneIn(s, lo, hi, d, name) ==
    \A p, q \in lo..hi : p < q => ~(s[p] = Open(d, name) /\ s[q] = Close(d, name))

\* A body with other text in one element, and with an edit of the first one.
IsCut(out, s, p, q, value) ==
    /\ Len(out) = Len(s) - q + p + 2
    /\ \A j \in 1..p : out[j] = s[j]
    /\ out[p + 1] = Text(value)
    /\ \A j \in q..Len(s) : out[j - q + p + 2] = s[j]

IsEdit(out, s, lo, hi, d, name, value) ==
    \/ out = s /\ NoneIn(s, lo, hi, d, name)
    \/ \E p, q \in Nat : FirstIn(s, lo, hi, d, name, p, q) /\ IsCut(out, s, p, q, value)

\* FindBlock finds nothing exactly if no closing tag is behind an opening one.
LEMMA NoBlockMeans ==
    ASSUME NEW s, Len(s) \in Nat, NEW d, NEW name
    PROVE  FindBlock(s, d, name)[2] = 0 <=> NoneIn(s, 1, Len(s), d, name)
  <1>. DEFINE b == FindBlock(s, d, name)
              a == IndexFrom(s, 1, Open(d, name))
              e == IndexFrom(s, a + 1, Close(d, name))
  <1>1. /\ a \in Nat
        /\ a = 0 => \A j \in 1..Len(s) : s[j] # Open(d, name)
        /\ a # 0 => \A j \in 1..(a - 1) : s[j] # Open(d, name)
    BY IndexFromMeans
  <1>2. /\ e \in Nat
        /\ e = 0 => \A j \in (a + 1)..Len(s) : s[j] # Close(d, name)
    <2>1. a + 1 \in Nat \ {0}
      BY <1>1
    <2>. HIDE DEF a
    <2>. QED  BY <2>1, IndexFromMeans
  <1>3. b[2] = IF a = 0 THEN 0 ELSE e
    BY DEF FindBlock
  <1>. HIDE DEF a, e
  <1>4. ASSUME b[2] = 0 PROVE NoneIn(s, 1, Len(s), d, name)
    <2> SUFFICES ASSUME NEW p \in 1..Len(s), NEW q \in 1..Len(s), p < q,
                        s[p] = Open(d, name), s[q] = Close(d, name)
                 PROVE  FALSE
      BY DEF NoneIn
    <2>1. a # 0
      BY <1>1
    <2>2. e = 0
      BY <1>3, <1>4, <2>1
    <2>3. ~(p \in 1..(a - 1)) /\ p \in Int /\ q \in Int /\ 1 <= p /\ q <= Len(s)
      BY <1>1, <2>1
    <2>4. q \in (a + 1)..Len(s)
      BY <1>1, <2>3
    <2>. QED  BY <1>2, <2>2, <2>4
  <1>5. ASSUME b[2] # 0 PROVE ~NoneIn(s, 1, Len(s), d, name)
    <2>1. IsBlock(s, b[1], b[2], d, name)
      BY <1>5, BlockMeans
    <2>. HIDE DEF b
    <2>. QED  BY <2>1 DEF IsBlock, NoneIn
  <1>. QED  BY <1>4, <1>5

\* The element that FindBlock finds is the first of the whole body.
LEMMA BlockIsFirst ==
    ASSUME NEW s, NEW a, NEW e, NEW d, NEW name
    PROVE  IsBlock(s, a, e, d, name) <=> FirstIn(s, 1, Len(s), d, name, a, e)
  BY DEF IsBlock, FirstIn

\* Other text in an element is a replaced part.
LEMMA SpliceIsCut ==
    ASSUME NEW out, NEW s, Len(s) \in Nat, NEW p \in Nat, NEW q \in Nat, NEW value,
           IsSplice(out, s, p, <<Text(value)>>, q)
    PROVE  IsCut(out, s, p, q, value)
  <1>. DEFINE m == <<Text(value)>>
  <1>1. Len(m) = 1 /\ m[1] = Text(value) /\ 1 \in 1..1
    OBVIOUS
  <1>. HIDE DEF m
  <1>2. /\ Len(out) = p + 1 + (Len(s) - q) + 1 /\ \A j \in 1..p : out[j] = s[j]
        /\ out[p + 1] = Text(value) /\ \A j \in q..Len(s) : out[p + 1 + (j - q) + 1] = s[j]
    BY <1>1 DEF IsSplice, m
  <1>3. \A j \in q..Len(s) : p + 1 + (j - q) + 1 = j - q + p + 2
    OBVIOUS
  <1>4. Len(out) = Len(s) - q + p + 2
    BY <1>2
  <1>. QED  BY <1>2, <1>3, <1>4 DEF IsCut

\* ReplaceTag edits the first element of the body, ReplaceTagWithin that of the context.
LEMMA ReplaceTagEdits ==
    ASSUME NEW U, NEW s \in Seq(U), NEW d, NEW name, NEW value, Text(value) \in U
    PROVE  /\ ReplaceTag(s, d, name, value) \in Seq(U)
           /\ IsEdit(ReplaceTag(s, d, name, value), s, 1, Len(s), d, name, value)
  <1>. DEFINE out == ReplaceTag(s, d, name, value)
  <1>1. /\ out \in Seq(U) /\ Len(s) \in Nat
        /\ \/ FindBlock(s, d, name)[2] = 0 /\ out = s
           \/ \E a, e \in Nat : /\ IsBlock(s, a, e, d, name)
                              /\ IsSplice(out, s, a, <<Text(value)>>, e)
    BY ReplacedTag
  <1>. HIDE DEF out
  <1>2. ASSUME FindBlock(s, d, name)[2] = 0, out = s
        PROVE  IsEdit(out, s, 1, Len(s), d, name, value)
    BY <1>1, <1>2, NoBlockMeans DEF IsEdit
  <1>3. ASSUME NEW a \in Nat, NEW e \in Nat, IsBlock(s, a, e, d, name),
               IsSplice(out, s, a, <<Text(value)>>, e)
        PROVE  IsEdit(out, s, 1, Len(s), d, name, value)
    <2>1. IsCut(out, s, a, e, value) /\ FirstIn(s, 1, Len(s), d, name, a, e)
      BY <1>1, <1>3, SpliceIsCut, BlockIsFirst
    <2>. QED  BY <2>1 DEF IsEdit
  <1>4. IsEdit(out, s, 1, Len(s), d, name, value)
    BY <1>1, <1>2, <1>3
  <1>. QED  BY <1>1, <1>4 DEF out

LEMMA ReplaceTagWithinEdits ==
    ASSUME NEW U, NEW s \in Seq(U), NEW d, NEW name, NEW value, Text(value) \in U,
           NEW a, NEW e, IsBlock(s, a, e, d, "environment_context")
    PROVE  /\ ReplaceTagWithin(s, d, name, value) \in Seq(U)
           /\ IsEdit(ReplaceTagWithin(s, d, name, value), s, a, e - 1, d, name, value)
  <1>. DEFINE env == "environment_context"
              mid == SubSeq(s, a, e - 1)
              new == ReplaceTag(mid, d, name, value)
              out == ReplaceTagWithin(s, d, name, value)
  <1>1. a \in Nat /\ e \in Nat /\ 1 <= a /\ a < e /\ e <= Len(s) /\ Len(s) \in Nat
    BY DEF IsBlock
  <1>2. FindBlock(s, d, env) = <<a, e>>
    BY BlockIs
  <1>3. out = SubSeq(s, 1, a - 1) \o new \o SubSeq(s, e, Len(s))
    <2>1. FindBlock(s, d, env)[1] = a /\ FindBlock(s, d, env)[2] = e
      BY <1>2
    <2>. QED  BY <2>1 DEF ReplaceTagWithin
  <1>4. mid \in Seq(U) /\ Len(mid) = e - a /\ \A j \in 1..(e - a) : mid[j] = s[a + j - 1]
    <2>1. \A j \in a..(e - 1) : s[j] \in U
      BY <1>1
    <2>2. a \in Int /\ e - 1 \in Int /\ a <= e - 1 + 1 /\ e - 1 - a + 1 = e - a
      BY <1>1
    <2>. QED  BY <2>1, <2>2, SubSeqProperties
  <1>. HIDE DEF mid
  <1>5. new \in Seq(U) /\ IsEdit(new, mid, 1, Len(mid), d, name, value)
    BY <1>4, ReplaceTagEdits
  <1>. HIDE DEF new, out
  <1>6. out \in Seq(U) /\ IsSplice(out, s, a - 1, new, e)
    <2>1. a - 1 \in Nat /\ a - 1 < e
      BY <1>1
    <2>. QED  BY <1>1, <1>3, <1>5, <2>1, Spliced
  <1>6a. Len(new) \in Nat /\ Len(out) \in Nat
    BY <1>5, <1>6
  <1>7a. Len(out) = (a - 1) + Len(new) + (Len(s) - e) + 1
    BY <1>6 DEF IsSplice
  <1>7. /\ Len(out) = (a - 1) + Len(new) + (Len(s) - e) + 1
        /\ \A j \in 1..(a - 1) : out[j] = s[j]
        /\ \A j \in a..(a - 1 + Len(new)) : out[j] = new[j - a + 1]
        /\ \A j \in e..Len(s) : out[(a - 1) + Len(new) + (j - e) + 1] = s[j]
    <2>1. ASSUME NEW j \in a..(a - 1 + Len(new)) PROVE out[j] = new[j - a + 1]
      <3>. DEFINE i == j - a + 1
      <3>1. i \in 1..Len(new) /\ (a - 1) + i = j
        BY <1>1, <1>6a
      <3>. HIDE DEF i
      <3>2. out[(a - 1) + i] = new[i]
        BY <1>6, <3>1 DEF IsSplice
      <3>. QED  BY <3>1, <3>2 DEF i
    <2>. QED  BY <1>6, <2>1 DEF IsSplice
  <1>8. \A j \in a..(e - 1) : s[j] = mid[j - a + 1]
    <2> SUFFICES ASSUME NEW j \in a..(e - 1) PROVE s[j] = mid[j - a + 1]
      OBVIOUS
    <2>1. j - a + 1 \in 1..(e - a) /\ a + (j - a + 1) - 1 = j
      BY <1>1
    <2>. QED  BY <1>4, <2>1
  <1>9. ASSUME new = mid, NoneIn(mid, 1, Len(mid), d, name)
        PROVE  IsEdit(out, s, a, e - 1, d, name, value)
    <2>0. a \in Int /\ e \in Int /\ Len(s) \in Int /\ Len(new) = e - a
      BY <1>1, <1>4, <1>9
    <2>1. Len(out) = Len(s)
      BY <1>7a, <2>0
    <2>2. ASSUME NEW j \in 1..Len(s) PROVE out[j] = s[j]
      <3>0. j \in Int /\ 1 <= j /\ j <= Len(s) /\ Len(new) = e - a
        BY <1>1, <1>4, <1>9
      <3>1. CASE j < a
        BY <1>1, <1>7, <3>0, <3>1
      <3>2. CASE a <= j /\ j < e
        <4>1. j \in a..(e - 1) /\ j \in a..(a - 1 + Len(new))
          BY <1>1, <3>0, <3>2
        <4>. QED  BY <1>7, <1>8, <1>9, <4>1
      <3>3. CASE e <= j
        <4>1. j \in e..Len(s) /\ (a - 1) + Len(new) + (j - e) + 1 = j
          BY <1>1, <3>0, <3>3
        <4>. QED  BY <1>7, <4>1
      <3>. QED  BY <1>1, <3>0, <3>1, <3>2, <3>3
    <2>3. out = s
      BY <1>6, <2>1, <2>2, SeqEqual
    <2>4. NoneIn(s, a, e - 1, d, name)
      <3> SUFFICES ASSUME NEW p \in a..(e - 1), NEW q \in a..(e - 1), p < q,
                          s[p] = Open(d, name), s[q] = Close(d, name)
                   PROVE  FALSE
        BY DEF NoneIn
      <3>1. p - a + 1 \in 1..Len(mid) /\ q - a + 1 \in 1..Len(mid) /\ p - a + 1 < q - a + 1
        BY <1>1, <1>4
      <3>. QED  BY <1>8, <1>9, <3>1 DEF NoneIn
    <2>. QED  BY <2>3, <2>4 DEF IsEdit
  <1>10. ASSUME NEW x \in Nat, NEW y \in Nat, FirstIn(mid, 1, Len(mid), d, name, x, y),
                IsCut(new, mid, x, y, value)
         PROVE  IsEdit(out, s, a, e - 1, d, name, value)
    <2>. DEFINE p == a - 1 + x
                q == a - 1 + y
    <2>1. 1 <= x /\ x < y /\ y <= e - a
      BY <1>4, <1>10 DEF FirstIn
    <2>2. p \in Nat /\ q \in Nat /\ a <= p /\ p < q /\ q <= e - 1 /\ p - a + 1 = x /\ q - a + 1 = y
      BY <1>1, <2>1
    <2>. HIDE DEF p, q
    <2>3. FirstIn(s, a, e - 1, d, name, p, q)
      <3>0. p \in a..(e - 1) /\ q \in a..(e - 1)
        BY <1>1, <2>2
      <3>1. s[p] = mid[x] /\ s[q] = mid[y]
        BY <1>8, <2>2, <3>0
      <3>2. \A j \in a..(p - 1) : s[j] # Open(d, name)
        <4> SUFFICES ASSUME NEW j \in a..(p - 1) PROVE s[j] # Open(d, name)
          OBVIOUS
        <4>1. j \in a..(e - 1) /\ j - a + 1 \in 1..(x - 1)
          BY <1>1, <2>2
        <4>. QED  BY <1>8, <1>10, <4>1 DEF FirstIn
      <3>3. \A j \in (p + 1)..(q - 1) : s[j] # Close(d, name)
        <4> SUFFICES ASSUME NEW j \in (p + 1)..(q - 1) PROVE s[j] # Close(d, name)
          OBVIOUS
        <4>1. j \in a..(e - 1) /\ j - a + 1 \in (x + 1)..(y - 1)
          BY <1>1, <2>2
        <4>. QED  BY <1>8, <1>10, <4>1 DEF FirstIn
      <3>. QED  BY <1>10, <2>2, <3>1, <3>2, <3>3 DEF FirstIn
    <2>4. /\ Len(new) = (e - a) - y + x + 2 /\ new[x + 1] = Text(value)
          /\ \A j \in 1..x : new[j] = mid[j]
          /\ \A j \in y..(e - a) : new[j - y + x + 2] = mid[j]
      BY <1>4, <1>10 DEF IsCut
    <2>4a. Len(new) = (e - a) - y + x + 2 /\ a \in Int /\ e \in Int /\ Len(s) \in Int
      BY <1>1, <2>4
    <2>5. Len(out) = Len(s) - q + p + 2
      BY <1>7a, <2>2, <2>4a
    <2>6. ASSUME NEW j \in 1..p PROVE out[j] = s[j]
      <3>0. j \in Int /\ 1 <= j /\ j <= p
        BY <2>2
      <3>1. CASE j < a
        BY <1>1, <1>7, <3>0, <3>1
      <3>2. CASE a <= j
        <4>1. j \in a..(e - 1) /\ j \in a..(a - 1 + Len(new)) /\ j - a + 1 \in 1..x
          BY <1>1, <2>1, <2>2, <2>4, <3>0, <3>2
        <4>. QED  BY <1>7, <1>8, <2>4, <4>1
      <3>. QED  BY <1>1, <3>0, <3>1, <3>2
    <2>7. out[p + 1] = Text(value)
      <3>1. p + 1 \in a..(a - 1 + Len(new)) /\ (p + 1) - a + 1 = x + 1
        BY <1>1, <2>1, <2>2, <2>4
      <3>. QED  BY <1>7, <2>4, <3>1
    <2>8. ASSUME NEW j \in q..Len(s) PROVE out[j - q + p + 2] = s[j]
      <3>0. j \in Int /\ q <= j /\ j <= Len(s)
        BY <1>1, <2>2
      <3>1. CASE j < e
        <4>. DEFINE i == j - a + 1
                    k == j - q + p + 2
        <4>1. j \in a..(e - 1) /\ i \in y..(e - a)
          BY <1>1, <2>2, <3>0, <3>1
        <4>2. k \in a..(a - 1 + Len(new)) /\ k - a + 1 = i - y + x + 2
          BY <1>1, <2>1, <2>2, <2>4, <3>0, <3>1
        <4>. HIDE DEF k
        <4>3. out[k] = new[k - a + 1] /\ s[j] = mid[i]
          BY <1>7, <1>8, <4>1, <4>2
        <4>. HIDE DEF i
        <4>4. new[i - y + x + 2] = mid[i]
          BY <2>4, <4>1
        <4>. QED  BY <4>2, <4>3, <4>4 DEF k
      <3>2. CASE e <= j
        <4>1. j \in e..Len(s) /\ (a - 1) + Len(new) + (j - e) + 1 = j - q + p + 2
          BY <1>1, <2>2, <2>4, <3>0, <3>2
        <4>. QED  BY <1>7, <4>1
      <3>. QED  BY <1>1, <3>0, <3>1, <3>2
    <2>9. IsCut(out, s, p, q, value)
      BY <2>5, <2>6, <2>7, <2>8 DEF IsCut
    <2>. QED  BY <2>2, <2>3, <2>9 DEF IsEdit
  <1>11. IsEdit(out, s, a, e - 1, d, name, value)
    BY <1>5, <1>9, <1>10 DEF IsEdit
  <1>. QED  BY <1>6, <1>11 DEF out

\* A part of one body, and a part of another one that is the same.
Agree(x, i, k, y, j, l) ==
    /\ i \in Nat \ {0} /\ k \in Nat /\ i <= k + 1 /\ k <= Len(x)
    /\ j \in Nat \ {0} /\ l \in Nat /\ j <= l + 1 /\ l <= Len(y)
    /\ k - i = l - j /\ \A m \in 0..(k - i) : x[i + m] = y[j + m]

IsSameSlice(x, i, k, y, j, l) == SubSeq(x, i, k) = SubSeq(y, j, l)

\* Parts that agree token by token are the same.
LEMMA SameParts ==
    ASSUME NEW U, NEW x \in Seq(U), NEW y \in Seq(U), NEW i, NEW k, NEW j, NEW l,
           Agree(x, i, k, y, j, l)
    PROVE  IsSameSlice(x, i, k, y, j, l)
  <1>. DEFINE p == SubSeq(x, i, k)
              q == SubSeq(y, j, l)
              n == k - i + 1
  <1>. USE DEF Agree
  <1>1. p \in Seq(U) /\ Len(p) = n /\ \A m \in 1..n : p[m] = x[i + m - 1]
    <2>1. \A m \in i..k : x[m] \in U
      OBVIOUS
    <2>. QED  BY <2>1, SubSeqProperties
  <1>2. q \in Seq(U) /\ Len(q) = n /\ \A m \in 1..n : q[m] = y[j + m - 1]
    <2>1. \A m \in j..l : y[m] \in U
      OBVIOUS
    <2>2. l - j + 1 = n
      OBVIOUS
    <2>. QED  BY <2>1, <2>2, SubSeqProperties
  <1>. HIDE DEF p, q
  <1>3. ASSUME NEW m \in 1..n PROVE p[m] = q[m]
    <2>1. m - 1 \in 0..(k - i) /\ i + (m - 1) = i + m - 1 /\ j + (m - 1) = j + m - 1
      OBVIOUS
    <2>. QED  BY <1>1, <1>2, <2>1
  <1>. HIDE DEF n
  <1>4. p = q
    BY <1>1, <1>2, <1>3, SeqEqual
  <1>. QED  BY <1>4 DEF p, q, IsSameSlice


\* Where a token of the edited body was before.
Moved(i, j, p, q) == \/ i = j /\ j <= p
                     \/ j >= q /\ i = j - q + p + 2

\* Every token but the new text was in the old body, and every token outside the
\* element is in the new one, in the same order.
LEMMA CutMoves ==
    ASSUME NEW out, NEW s, Len(s) \in Nat, NEW p \in Nat, NEW q \in Nat, NEW value,
           1 <= p, p < q, q <= Len(s), IsCut(out, s, p, q, value)
    PROVE  /\ Len(out) \in Nat
           /\ \A i \in 1..Len(out) : i # p + 1 => \E j \in 1..Len(s) : out[i] = s[j] /\ Moved(i, j, p, q)
           /\ \A j \in 1..Len(s) : j <= p \/ j >= q => \E i \in 1..Len(out) : out[i] = s[j] /\ Moved(i, j, p, q)
  <1>1. Len(out) \in Nat /\ Len(out) = Len(s) - q + p + 2
    BY DEF IsCut
  <1>2. ASSUME NEW i \in 1..Len(out), i # p + 1
        PROVE  \E j \in 1..Len(s) : out[i] = s[j] /\ Moved(i, j, p, q)
    <2>0. i \in Int /\ 1 <= i /\ i <= Len(out)
      BY <1>1
    <2>1. CASE i <= p
      <3>1. i \in 1..Len(s) /\ i \in 1..p
        BY <2>0, <2>1
      <3>. QED  BY <2>1, <3>1 DEF IsCut, Moved
    <2>2. CASE i > p
      <3>. DEFINE j == i - p - 2 + q
      <3>1. j \in 1..Len(s) /\ j \in q..Len(s) /\ j >= q /\ i = j - q + p + 2
        BY <1>1, <1>2, <2>0, <2>2
      <3>. HIDE DEF j
      <3>2. out[j - q + p + 2] = s[j]
        BY <3>1 DEF IsCut
      <3>3. Moved(i, j, p, q)
        BY <3>1 DEF Moved
      <3>4. out[i] = s[j]
        BY <3>1, <3>2
      <3>. QED  BY <3>1, <3>3, <3>4
    <2>. QED  BY <2>0, <2>1, <2>2
  <1>3. ASSUME NEW j \in 1..Len(s), j <= p \/ j >= q
        PROVE  \E i \in 1..Len(out) : out[i] = s[j] /\ Moved(i, j, p, q)
    <2>1. CASE j <= p
      <3>1. j \in 1..Len(out) /\ j \in 1..p
        BY <1>1, <2>1
      <3>. QED  BY <2>1, <3>1 DEF IsCut, Moved
    <2>2. CASE j >= q
      <3>. DEFINE i == j - q + p + 2
      <3>1. i \in 1..Len(out) /\ j \in q..Len(s)
        BY <1>1, <2>2
      <3>2. out[i] = s[j] /\ Moved(i, j, p, q)
        BY <2>2, <3>1 DEF IsCut, Moved
      <3>. QED  BY <3>1, <3>2
    <2>. QED  BY <1>3, <2>1, <2>2
  <1>. QED  BY <1>1, <1>2, <1>3

\* An element that says what it is to say.
Settled(s, lo, hi, d, name, value) ==
    \A p, q \in Nat : FirstIn(s, lo, hi, d, name, p, q) => q = p + 2 /\ s[p + 1] = Text(value)

\* Tags of different kinds, names or dialects differ.
LEMMA TagsDiffer ==
    ASSUME NEW d, NEW name, NEW d2, NEW name2, NEW value
    PROVE  /\ Open(d, name) # Close(d2, name2)
           /\ Text(value) # Open(d, name) /\ Text(value) # Close(d, name)
           /\ d # d2 \/ name # name2 => /\ Open(d, name) # Open(d2, name2)
                                       /\ Close(d, name) # Close(d2, name2)
           /\ IsTag(Open(d, name)) /\ IsTag(Close(d, name)) /\ ~IsTag(Text(value))
  BY DEF Open, Close, Text, IsTag

\* What has been edited says what it is to say,
LEMMA EditSettles ==
    ASSUME NEW out, NEW s, Len(s) \in Nat, NEW lo \in Nat \ {0}, NEW hi \in Nat, hi <= Len(s),
           NEW d, NEW name, NEW value, IsEdit(out, s, lo, hi, d, name, value)
    PROVE  Settled(out, lo, hi + Len(out) - Len(s), d, name, value)
  <1>1. ASSUME out = s, NoneIn(s, lo, hi, d, name)
        PROVE  Settled(out, lo, hi + Len(out) - Len(s), d, name, value)
    <2>1. hi + Len(out) - Len(s) = hi
      BY <1>1
    <2>2. ASSUME NEW p \in Nat, NEW q \in Nat, FirstIn(s, lo, hi, d, name, p, q) PROVE FALSE
      <3>1. p \in lo..hi /\ q \in lo..hi /\ p < q /\ s[p] = Open(d, name) /\ s[q] = Close(d, name)
        BY <2>2 DEF FirstIn
      <3>. QED  BY <1>1, <3>1 DEF NoneIn
    <2>. QED  BY <1>1, <2>1, <2>2 DEF Settled
  <1>2. ASSUME NEW p \in Nat, NEW q \in Nat, FirstIn(s, lo, hi, d, name, p, q), IsCut(out, s, p, q, value)
        PROVE  Settled(out, lo, hi + Len(out) - Len(s), d, name, value)
    <2>. DEFINE hi2 == hi + Len(out) - Len(s)
    <2>1. /\ lo <= p /\ p < q /\ q <= hi /\ s[p] = Open(d, name) /\ s[q] = Close(d, name)
          /\ \A j \in lo..(p - 1) : s[j] # Open(d, name)
      BY <1>2 DEF FirstIn
    <2>2. /\ Len(out) = Len(s) - q + p + 2 /\ \A j \in 1..p : out[j] = s[j]
          /\ out[p + 1] = Text(value) /\ \A j \in q..Len(s) : out[j - q + p + 2] = s[j]
      BY <1>2 DEF IsCut
    <2>3. out[p + 2] = Close(d, name)
      <3>1. q \in q..Len(s) /\ q - q + p + 2 = p + 2
        BY <2>1
      <3>2. out[q - q + p + 2] = s[q]
        BY <2>2, <3>1
      <3>. QED  BY <2>1, <3>1, <3>2
    <2>4. out[p] = Open(d, name)
      BY <2>1, <2>2
    <2>5. hi2 \in Int /\ p + 2 <= hi2
      BY <2>1, <2>2
    <2>. HIDE DEF hi2
    <2>6. ASSUME NEW x \in Nat, NEW y \in Nat, FirstIn(out, lo, hi2, d, name, x, y)
          PROVE  y = x + 2 /\ out[x + 1] = Text(value)
      <3>1. /\ lo <= x /\ x < y /\ y <= hi2 /\ out[x] = Open(d, name) /\ out[y] = Close(d, name)
            /\ \A j \in lo..(x - 1) : out[j] # Open(d, name)
            /\ \A j \in (x + 1)..(y - 1) : out[j] # Close(d, name)
        BY <2>6 DEF FirstIn
      <3>2. ~(p < x)
        <4>1. p < x => p \in lo..(x - 1)
          BY <2>1
        <4>. QED  BY <2>4, <3>1, <4>1
      <3>3. ~(x < p)
        <4>1. x < p => x \in lo..(p - 1) /\ x \in 1..p
          BY <3>1
        <4>. QED  BY <2>1, <2>2, <3>1, <4>1
      <3>4. x = p
        BY <3>2, <3>3
      <3>5. y # p + 1
        BY <2>2, <3>1, TagsDiffer
      <3>6. ~(p + 2 < y)
        <4>1. p + 2 < y => p + 2 \in (x + 1)..(y - 1)
          BY <3>4
        <4>. QED  BY <2>3, <3>1, <4>1
      <3>7. y = p + 2
        BY <3>1, <3>4, <3>5, <3>6
      <3>. QED  BY <2>2, <3>4, <3>7
    <2>7. Settled(out, lo, hi2, d, name, value)
      BY <2>6 DEF Settled
    <2>. QED  BY <2>7 DEF hi2
  <1>. QED  BY <1>1, <1>2 DEF IsEdit

\* and is left as it is by the same edit.
LEMMA SettledIsDone ==
    ASSUME NEW U, NEW s \in Seq(U), NEW out \in Seq(U), NEW lo \in Nat \ {0}, NEW hi \in Nat, hi <= Len(s),
           NEW d, NEW name, NEW value, IsEdit(out, s, lo, hi, d, name, value),
           Settled(s, lo, hi, d, name, value)
    PROVE  out = s
  <1>. SUFFICES ASSUME NEW p \in Nat, NEW q \in Nat, FirstIn(s, lo, hi, d, name, p, q),
                       IsCut(out, s, p, q, value)
                PROVE  out = s
    BY DEF IsEdit
  <1>1. q = p + 2 /\ s[p + 1] = Text(value) /\ 1 <= p /\ q <= Len(s) /\ Len(s) \in Nat
    BY DEF Settled, FirstIn
  <1>2. Len(out) = Len(s)
    BY <1>1 DEF IsCut
  <1>3. ASSUME NEW j \in 1..Len(s) PROVE out[j] = s[j]
    <2>1. CASE j <= p
      BY <2>1, j \in 1..p DEF IsCut
    <2>2. CASE j = p + 1
      BY <1>1, <2>2 DEF IsCut
    <2>3. CASE j >= q
      <3>1. j \in q..Len(s) /\ j - q + p + 2 = j
        BY <1>1, <2>3
      <3>2. out[j - q + p + 2] = s[j]
        BY <3>1 DEF IsCut
      <3>. QED  BY <3>1, <3>2
    <2>. QED  BY <1>1, <2>1, <2>2, <2>3
  <1>. QED  BY <1>2, <1>3, SeqEqual

\* The elements that are rewritten.
Names == {"timezone", "current_date"}
\* The first tag behind an opening one that is not the same closes it.
Ends(s, i, j, d, name) ==
    \E k \in (i + 1)..j : /\ s[k] = Close(d, name)
                         /\ \A m \in (i + 1)..(k - 1) : s[m] = Open(d, name) \/ ~IsTag(s[m])
\* ElementsAreDisjoint, between two places.
DisjointIn(s, lo, hi) ==
    \A d \in ToSet(Dialects), name \in Names : \A i, j \in lo..hi :
        i < j /\ s[i] = Open(d, name) /\ s[j] = Close(d, name) => Ends(s, i, j, d, name)

\* What is cut out holds no other tag.
LEMMA CutHoldsNoTag ==
    ASSUME NEW s, NEW lo \in Nat, NEW hi \in Nat, DisjointIn(s, lo, hi),
           NEW d \in ToSet(Dialects), NEW name \in Names, NEW p, NEW q, FirstIn(s, lo, hi, d, name, p, q)
    PROVE  \A m \in (p + 1)..(q - 1) : s[m] = Open(d, name) \/ ~IsTag(s[m])
  <1>1. /\ p \in Nat /\ q \in Nat /\ p \in lo..hi /\ q \in lo..hi /\ p < q
        /\ s[p] = Open(d, name) /\ s[q] = Close(d, name)
        /\ \A j \in (p + 1)..(q - 1) : s[j] # Close(d, name)
    BY DEF FirstIn
  <1>2. Ends(s, p, q, d, name)
    BY <1>1 DEF DisjointIn
  <1>3. PICK k \in (p + 1)..q : /\ s[k] = Close(d, name)
                               /\ \A m \in (p + 1)..(k - 1) : s[m] = Open(d, name) \/ ~IsTag(s[m])
    BY <1>2 DEF Ends
  <1>4. k = q
    <2>1. k # q => k \in (p + 1)..(q - 1)
      BY <1>1
    <2>. QED  BY <1>1, <1>3, <2>1
  <1>. QED  BY <1>3, <1>4

\* An edit leaves elements apart that are apart,
LEMMA EditKeepsDisjoint ==
    ASSUME NEW out, NEW s, Len(s) \in Nat, NEW lo \in Nat \ {0}, NEW hi \in Nat, hi <= Len(s),
           NEW d \in ToSet(Dialects), NEW name \in Names, NEW value,
           IsEdit(out, s, lo, hi, d, name, value), DisjointIn(s, lo, hi)
    PROVE  DisjointIn(out, lo, hi + Len(out) - Len(s))
  <1>1. CASE out = s
    <2>1. hi + Len(out) - Len(s) = hi
      BY <1>1
    <2>. QED  BY <1>1, <2>1
  <1>2. ASSUME NEW p \in Nat, NEW q \in Nat, FirstIn(s, lo, hi, d, name, p, q), IsCut(out, s, p, q, value)
        PROVE  DisjointIn(out, lo, hi + Len(out) - Len(s))
    <2>. DEFINE hi2 == hi + Len(out) - Len(s)
    <2>1. /\ lo <= p /\ p < q /\ q <= hi /\ 1 <= p /\ q <= Len(s) /\ s[p] = Open(d, name) /\ s[q] = Close(d, name)
          /\ \A j \in (p + 1)..(q - 1) : s[j] # Close(d, name)
      BY <1>2 DEF FirstIn
    <2>2. Len(out) = Len(s) - q + p + 2 /\ out[p + 1] = Text(value)
      BY <1>2 DEF IsCut
    <2>3. hi2 = hi - q + p + 2 /\ hi2 \in Nat /\ hi2 <= Len(out)
      BY <2>1, <2>2
    <2>. HIDE DEF hi2
    <2>4. /\ Len(out) \in Nat
          /\ \A i \in 1..Len(out) : i # p + 1 => \E j \in 1..Len(s) : out[i] = s[j] /\ Moved(i, j, p, q)
          /\ \A j \in 1..Len(s) : j <= p \/ j >= q => \E i \in 1..Len(out) : out[i] = s[j] /\ Moved(i, j, p, q)
      <3>1. 1 <= p /\ p < q /\ q <= Len(s)
        BY <2>1
      <3>. QED  BY <1>2, <3>1, CutMoves
    <2>5. ASSUME NEW d2 \in ToSet(Dialects), NEW name2 \in Names, NEW x \in lo..hi2, NEW y \in lo..hi2,
                 x < y, out[x] = Open(d2, name2), out[y] = Close(d2, name2)
          PROVE  Ends(out, x, y, d2, name2)
      <3>1. x \in 1..Len(out) /\ y \in 1..Len(out) /\ x # p + 1 /\ y # p + 1
        BY <2>2, <2>3, <2>5, TagsDiffer
      <3>2. PICK i \in 1..Len(s) : out[x] = s[i] /\ Moved(x, i, p, q)
        BY <2>4, <3>1
      <3>3. PICK j \in 1..Len(s) : out[y] = s[j] /\ Moved(y, j, p, q)
        BY <2>4, <3>1
      <3>4. i \in lo..hi /\ j \in lo..hi /\ i < j
        BY <2>1, <2>3, <2>5, <3>2, <3>3 DEF Moved
      <3>5. Ends(s, i, j, d2, name2)
        BY <2>5, <3>2, <3>3, <3>4 DEF DisjointIn
      <3>6. PICK k \in (i + 1)..j : /\ s[k] = Close(d2, name2)
                                   /\ \A m \in (i + 1)..(k - 1) : s[m] = Open(d2, name2) \/ ~IsTag(s[m])
        BY <3>5 DEF Ends
      <3>7. k \in 1..Len(s) /\ i < k /\ k <= j
        BY <3>4
      <3>8. k <= p \/ k >= q
        <4> SUFFICES ASSUME p < k, k < q PROVE FALSE
          BY <3>7
        <4>1. i <= p
          BY <3>2, <3>7 DEF Moved
        <4>2. Open(d2, name2) = Open(d, name)
          <5>1. CASE i = p
            BY <2>1, <2>5, <3>2, <5>1
          <5>2. CASE i # p
            <6>1. p \in (i + 1)..(k - 1)
              BY <4>1, <5>2
            <6>. QED  BY <2>1, <3>6, <6>1, TagsDiffer
          <5>. QED  BY <5>1, <5>2
        <4>3. Close(d2, name2) = Close(d, name)
          BY <4>2, TagsDiffer
        <4>4. k \in (p + 1)..(q - 1)
          OBVIOUS
        <4>. QED  BY <2>1, <3>6, <4>3, <4>4
      <3>9. PICK z \in 1..Len(out) : out[z] = s[k] /\ Moved(z, k, p, q)
        BY <2>4, <3>7, <3>8
      <3>10. z \in (x + 1)..y
        BY <2>1, <3>1, <3>2, <3>3, <3>7, <3>9 DEF Moved
      <3>11. ASSUME NEW m \in (x + 1)..(z - 1) PROVE out[m] = Open(d2, name2) \/ ~IsTag(out[m])
        <4>1. CASE m = p + 1
          BY <2>2, <4>1, TagsDiffer
        <4>2. CASE m # p + 1
          <5>1. m \in 1..Len(out) /\ x < m /\ m < z
            BY <3>1
          <5>2. PICK n \in 1..Len(s) : out[m] = s[n] /\ Moved(m, n, p, q)
            BY <2>4, <4>2, <5>1
          <5>3. n \in (i + 1)..(k - 1)
            BY <2>1, <3>2, <3>9, <5>1, <5>2 DEF Moved
          <5>. QED  BY <3>6, <5>2, <5>3
        <4>. QED  BY <4>1, <4>2
      <3>. QED  BY <3>6, <3>9, <3>10, <3>11 DEF Ends
    <2>6. DisjointIn(out, lo, hi2)
      BY <2>5 DEF DisjointIn
    <2>. QED  BY <2>6 DEF hi2
  <1>. QED  BY <1>1, <1>2 DEF IsEdit

\* leaves what another element says,
LEMMA EditKeepsSettled ==
    ASSUME NEW out, NEW s, Len(s) \in Nat, NEW lo \in Nat \ {0}, NEW hi \in Nat, hi <= Len(s),
           NEW d \in ToSet(Dialects), NEW name \in Names, NEW value,
           IsEdit(out, s, lo, hi, d, name, value), DisjointIn(s, lo, hi),
           NEW d2, NEW name2, d # d2 \/ name # name2, NEW value2, Settled(s, lo, hi, d2, name2, value2)
    PROVE  Settled(out, lo, hi + Len(out) - Len(s), d2, name2, value2)
  <1>1. CASE out = s
    <2>1. hi + Len(out) - Len(s) = hi
      BY <1>1
    <2>. QED  BY <1>1, <2>1
  <1>2. ASSUME NEW p \in Nat, NEW q \in Nat, FirstIn(s, lo, hi, d, name, p, q), IsCut(out, s, p, q, value)
        PROVE  Settled(out, lo, hi + Len(out) - Len(s), d2, name2, value2)
    <2>. DEFINE hi2 == hi + Len(out) - Len(s)
    <2>1. /\ lo <= p /\ p < q /\ q <= hi /\ 1 <= p /\ q <= Len(s) /\ s[p] = Open(d, name) /\ s[q] = Close(d, name)
      BY <1>2 DEF FirstIn
    <2>1a. \A m \in (p + 1)..(q - 1) : s[m] # Open(d2, name2) /\ s[m] # Close(d2, name2)
      <3>1. \A m \in (p + 1)..(q - 1) : s[m] = Open(d, name) \/ ~IsTag(s[m])
        BY <1>2, CutHoldsNoTag
      <3>. QED  BY <3>1, TagsDiffer
    <2>2. Len(out) = Len(s) - q + p + 2 /\ out[p + 1] = Text(value)
      BY <1>2 DEF IsCut
    <2>3. hi2 = hi - q + p + 2 /\ hi2 \in Nat /\ hi2 <= Len(out)
      BY <2>1, <2>2
    <2>. HIDE DEF hi2
    <2>4. /\ Len(out) \in Nat
          /\ \A i \in 1..Len(out) : i # p + 1 => \E j \in 1..Len(s) : out[i] = s[j] /\ Moved(i, j, p, q)
          /\ \A j \in 1..Len(s) : j <= p \/ j >= q => \E i \in 1..Len(out) : out[i] = s[j] /\ Moved(i, j, p, q)
      <3>1. 1 <= p /\ p < q /\ q <= Len(s)
        BY <2>1
      <3>. QED  BY <1>2, <3>1, CutMoves
    <2>5. ASSUME NEW x \in Nat, NEW y \in Nat, FirstIn(out, lo, hi2, d2, name2, x, y)
          PROVE  y = x + 2 /\ out[x + 1] = Text(value2)
      <3>0. /\ lo <= x /\ x < y /\ y <= hi2 /\ out[x] = Open(d2, name2) /\ out[y] = Close(d2, name2)
            /\ \A m \in lo..(x - 1) : out[m] # Open(d2, name2)
            /\ \A m \in (x + 1)..(y - 1) : out[m] # Close(d2, name2)
        BY <2>5 DEF FirstIn
      <3>1. x \in 1..Len(out) /\ y \in 1..Len(out) /\ x # p + 1 /\ y # p + 1
        BY <2>2, <2>3, <3>0, TagsDiffer
      <3>2. PICK i \in 1..Len(s) : out[x] = s[i] /\ Moved(x, i, p, q)
        BY <2>4, <3>1
      <3>3. PICK j \in 1..Len(s) : out[y] = s[j] /\ Moved(y, j, p, q)
        BY <2>4, <3>1
      <3>4. i \in Nat /\ j \in Nat /\ lo <= i /\ i < j /\ j <= hi
        BY <2>1, <2>3, <3>0, <3>2, <3>3 DEF Moved
      <3>5. \A m \in lo..(i - 1) : s[m] # Open(d2, name2)
        <4> SUFFICES ASSUME NEW m \in lo..(i - 1), s[m] = Open(d2, name2) PROVE FALSE
          OBVIOUS
        <4>1. m \in 1..Len(s) /\ lo <= m /\ m < i
          BY <3>4
        <4>2. m <= p \/ m >= q
          <5>1. ~(m <= p \/ m >= q) => m \in (p + 1)..(q - 1)
            OBVIOUS
          <5>. QED  BY <2>1a, <5>1
        <4>3. PICK z \in 1..Len(out) : out[z] = s[m] /\ Moved(z, m, p, q)
          BY <2>4, <4>1, <4>2
        <4>4. z \in lo..(x - 1)
          BY <2>1, <3>1, <3>2, <4>1, <4>3 DEF Moved
        <4>. QED  BY <3>0, <4>3, <4>4
      <3>6. \A m \in (i + 1)..(j - 1) : s[m] # Close(d2, name2)
        <4> SUFFICES ASSUME NEW m \in (i + 1)..(j - 1), s[m] = Close(d2, name2) PROVE FALSE
          OBVIOUS
        <4>1. m \in 1..Len(s) /\ i < m /\ m < j
          BY <3>4
        <4>2. m <= p \/ m >= q
          <5>1. ~(m <= p \/ m >= q) => m \in (p + 1)..(q - 1)
            OBVIOUS
          <5>. QED  BY <2>1a, <5>1
        <4>3. PICK z \in 1..Len(out) : out[z] = s[m] /\ Moved(z, m, p, q)
          BY <2>4, <4>1, <4>2
        <4>4. z \in (x + 1)..(y - 1)
          BY <2>1, <3>1, <3>2, <3>3, <4>1, <4>3 DEF Moved
        <4>. QED  BY <3>0, <4>3, <4>4
      <3>7. j = i + 2 /\ s[i + 1] = Text(value2)
        <4>1. FirstIn(s, lo, hi, d2, name2, i, j)
          BY <3>0, <3>2, <3>3, <3>4, <3>5, <3>6 DEF FirstIn
        <4>. QED  BY <3>4, <4>1 DEF Settled
      <3>8. i # p /\ i + 1 # p /\ i # q /\ i + 1 # q
        BY <2>1, <3>0, <3>2, <3>7, TagsDiffer
      <3>8a. i + 1 \in 1..Len(s) /\ (i + 1 <= p \/ i + 1 >= q)
        <4>1. i <= p \/ i >= q
          BY <3>2 DEF Moved
        <4>2. i \in Int /\ p \in Int /\ 1 <= i /\ i + 2 <= Len(s)
          BY <3>7
        <4>. QED  BY <3>8, <4>1, <4>2
      <3>9. PICK z \in 1..Len(out) : out[z] = s[i + 1] /\ Moved(z, i + 1, p, q)
        BY <2>4, <3>8a
      <3>10. y = x + 2 /\ z = x + 1
        BY <2>1, <3>1, <3>2, <3>3, <3>7, <3>8, <3>9 DEF Moved
      <3>. QED  BY <3>7, <3>9, <3>10
    <2>6. Settled(out, lo, hi2, d2, name2, value2)
      BY <2>5 DEF Settled
    <2>. QED  BY <2>6 DEF hi2
  <1>. QED  BY <1>1, <1>2 DEF IsEdit

\* and makes no element that was not there.
LEMMA EditKeepsNone ==
    ASSUME NEW out, NEW s, Len(s) \in Nat, NEW lo \in Nat \ {0}, NEW hi \in Nat, hi <= Len(s),
           NEW d, NEW name, NEW value, IsEdit(out, s, lo, hi, d, name, value),
           NEW d2, NEW name2, NoneIn(s, 1, Len(s), d2, name2)
    PROVE  NoneIn(out, 1, Len(out), d2, name2)
  <1>. SUFFICES ASSUME NEW p \in Nat, NEW q \in Nat, FirstIn(s, lo, hi, d, name, p, q),
                       IsCut(out, s, p, q, value),
                       NEW x \in 1..Len(out), NEW y \in 1..Len(out), x < y,
                       out[x] = Open(d2, name2), out[y] = Close(d2, name2)
                PROVE  FALSE
    BY DEF IsEdit, NoneIn
  <1>1. 1 <= p /\ p < q /\ q <= Len(s)
    BY DEF FirstIn
  <1>2. /\ Len(out) \in Nat
        /\ \A i \in 1..Len(out) : i # p + 1 => \E j \in 1..Len(s) : out[i] = s[j] /\ Moved(i, j, p, q)
    BY <1>1, CutMoves
  <1>3. x # p + 1 /\ y # p + 1
    <2>1. out[p + 1] = Text(value)
      BY DEF IsCut
    <2>. QED  BY <2>1, TagsDiffer
  <1>4. PICK i \in 1..Len(s) : out[x] = s[i] /\ Moved(x, i, p, q)
    BY <1>2, <1>3
  <1>5. PICK j \in 1..Len(s) : out[y] = s[j] /\ Moved(y, j, p, q)
    BY <1>2, <1>3
  <1>6. i < j
    BY <1>1, <1>2, <1>4, <1>5 DEF Moved
  <1>. QED  BY <1>4, <1>5, <1>6 DEF NoneIn

\* An edit inside the context leaves the rest as it was.
LEMMA EditKeepsContext ==
    ASSUME NEW out, NEW s, Len(s) \in Nat, NEW a, NEW e, NEW d, NEW wrap, IsBlock(s, a, e, d, wrap),
           NEW name, NEW value, IsEdit(out, s, a, e - 1, d, name, value)
    PROVE  /\ IsBlock(out, a, e + Len(out) - Len(s), d, wrap)
           /\ \A j \in 1..a : out[j] = s[j]
           /\ \A j \in 0..(Len(s) - e) : out[e + Len(out) - Len(s) + j] = s[e + j]
  <1>1. /\ a \in Nat /\ e \in Nat /\ 1 <= a /\ a < e /\ e <= Len(s)
        /\ s[a] = Open(d, wrap) /\ \A j \in 1..(a - 1) : s[j] # Open(d, wrap)
        /\ s[e] = Close(d, wrap) /\ \A j \in (a + 1)..(e - 1) : s[j] # Close(d, wrap)
    BY DEF IsBlock
  <1>2. CASE out = s
    <2>1. e + Len(out) - Len(s) = e
      BY <1>1, <1>2
    <2>. QED  BY <1>2, <2>1
  <1>3. ASSUME NEW p \in Nat, NEW q \in Nat, FirstIn(s, a, e - 1, d, name, p, q), IsCut(out, s, p, q, value)
        PROVE  /\ IsBlock(out, a, e + Len(out) - Len(s), d, wrap)
               /\ \A j \in 1..a : out[j] = s[j]
               /\ \A j \in 0..(Len(s) - e) : out[e + Len(out) - Len(s) + j] = s[e + j]
    <2>. DEFINE x == e + Len(out) - Len(s)
    <2>1. a <= p /\ p < q /\ q <= e - 1
      BY <1>3 DEF FirstIn
    <2>2. /\ Len(out) = Len(s) - q + p + 2 /\ \A j \in 1..p : out[j] = s[j]
          /\ out[p + 1] = Text(value) /\ \A j \in q..Len(s) : out[j - q + p + 2] = s[j]
      BY <1>3 DEF IsCut
    <2>3. x = e - q + p + 2 /\ x \in Nat /\ a < x /\ x <= Len(out)
      BY <1>1, <2>1, <2>2
    <2>. HIDE DEF x
    <2>4. \A j \in 1..a : out[j] = s[j]
      BY <1>1, <2>1, <2>2
    <2>5. \A j \in 0..(Len(s) - e) : out[x + j] = s[e + j]
      <3> SUFFICES ASSUME NEW j \in 0..(Len(s) - e) PROVE out[x + j] = s[e + j]
        OBVIOUS
      <3>. DEFINE k == e + j
      <3>1. k \in q..Len(s) /\ k - q + p + 2 = x + j
        BY <1>1, <2>1, <2>3
      <3>. HIDE DEF k
      <3>2. out[k - q + p + 2] = s[k]
        BY <2>2, <3>1
      <3>. QED  BY <3>1, <3>2 DEF k
    <2>6. out[x] = Close(d, wrap)
      <3>1. 0 \in 0..(Len(s) - e) /\ x + 0 = x /\ e + 0 = e
        BY <1>1, <2>3
      <3>. QED  BY <1>1, <2>5, <3>1
    <2>7. ASSUME NEW j \in (a + 1)..(x - 1) PROVE out[j] # Close(d, wrap)
      <3>0. j \in Int /\ a + 1 <= j /\ j <= x - 1
        BY <1>1, <2>3
      <3>1. CASE j <= p
        <4>1. j \in 1..p /\ j \in (a + 1)..(e - 1)
          BY <1>1, <2>1, <3>0, <3>1
        <4>. QED  BY <1>1, <2>2, <4>1
      <3>2. CASE j = p + 1
        BY <2>2, <3>2, TagsDiffer
      <3>3. CASE j > p + 1
        <4>. DEFINE k == j - p - 2 + q
        <4>1. k \in q..Len(s) /\ k \in (a + 1)..(e - 1) /\ k - q + p + 2 = j
          BY <1>1, <2>1, <2>3, <3>0, <3>3
        <4>. HIDE DEF k
        <4>2. out[k - q + p + 2] = s[k]
          BY <2>2, <4>1
        <4>. QED  BY <1>1, <4>1, <4>2
      <3>. QED  BY <3>0, <3>1, <3>2, <3>3
    <2>8. \A j \in 1..(a - 1) : out[j] # Open(d, wrap)
      BY <1>1, <2>4
    <2>9. out[a] = Open(d, wrap)
      BY <1>1, <2>4
    <2>10. IsBlock(out, a, x, d, wrap)
      BY <1>1, <2>3, <2>6, <2>7, <2>8, <2>9 DEF IsBlock
    <2>. QED  BY <2>4, <2>5, <2>10 DEF x
  <1>. QED  BY <1>2, <1>3 DEF IsEdit

\* What a rewrite is to say in a dialect.
Done(s, lo, hi, d) == Settled(s, lo, hi, d, "timezone", Zone) /\ Settled(s, lo, hi, d, "current_date", Today)
Env == "environment_context"

\* Both edits of a dialect, one after the other.
LEMMA BothEdits ==
    ASSUME NEW s, Len(s) \in Nat, NEW one, Len(one) \in Nat, NEW two, Len(two) \in Nat,
           NEW lo \in Nat \ {0}, NEW hi \in Nat, hi <= Len(s), lo <= hi + 1, NEW d \in ToSet(Dialects),
           IsEdit(one, s, lo, hi, d, "timezone", Zone),
           IsEdit(two, one, lo, hi + Len(one) - Len(s), d, "current_date", Today),
           DisjointIn(s, lo, hi)
    PROVE  /\ DisjointIn(two, lo, hi + Len(two) - Len(s))
           /\ Done(two, lo, hi + Len(two) - Len(s), d)
           /\ \A d2 : Done(s, lo, hi, d2) => Done(two, lo, hi + Len(two) - Len(s), d2)
           /\ \A d2, name2 : NoneIn(s, 1, Len(s), d2, name2) => NoneIn(two, 1, Len(two), d2, name2)
  <1>. DEFINE hi1 == hi + Len(one) - Len(s)
              hi2 == hi + Len(two) - Len(s)
  <1>1. hi1 \in Nat /\ hi1 <= Len(one) /\ hi2 = hi1 + Len(two) - Len(one)
    <2>1. CASE one = s
      BY <2>1
    <2>2. ASSUME NEW p \in Nat, NEW q \in Nat, FirstIn(s, lo, hi, d, "timezone", p, q), IsCut(one, s, p, q, Zone)
          PROVE  hi1 \in Nat
      <3>1. q <= hi /\ Len(one) = Len(s) - q + p + 2
        BY <2>2 DEF FirstIn, IsCut
      <3>. QED  BY <3>1
    <2>3. hi1 \in Nat
      BY <2>1, <2>2 DEF IsEdit
    <2>4. hi1 <= Len(one) /\ hi2 = hi1 + Len(two) - Len(one)
      OBVIOUS
    <2>. QED  BY <2>3, <2>4
  <1>2. /\ DisjointIn(one, lo, hi1) /\ Settled(one, lo, hi1, d, "timezone", Zone)
    BY EditKeepsDisjoint, EditSettles DEF Names
  <1>. HIDE DEF hi1, hi2
  <1>3. IsEdit(two, one, lo, hi1, d, "current_date", Today)
    BY DEF hi1
  <1>4. /\ DisjointIn(two, lo, hi1 + Len(two) - Len(one))
        /\ Settled(two, lo, hi1 + Len(two) - Len(one), d, "current_date", Today)
    <2>1. "current_date" \in Names
      BY DEF Names
    <2>. QED  BY <1>1, <1>2, <1>3, <2>1, EditKeepsDisjoint, EditSettles
  <1>5. ASSUME NEW d2, NEW name2, d # d2 \/ "timezone" # name2, NEW value2,
               Settled(s, lo, hi, d2, name2, value2)
        PROVE  Settled(one, lo, hi1, d2, name2, value2)
    <2>1. "timezone" \in Names
      BY DEF Names
    <2>2. Settled(one, lo, hi + Len(one) - Len(s), d2, name2, value2)
      BY <1>5, <2>1, EditKeepsSettled
    <2>. QED  BY <2>2 DEF hi1
  <1>6. ASSUME NEW d2, NEW name2, d # d2 \/ "current_date" # name2, NEW value2,
               Settled(one, lo, hi1, d2, name2, value2)
        PROVE  Settled(two, lo, hi1 + Len(two) - Len(one), d2, name2, value2)
    <2>1. "current_date" \in Names
      BY DEF Names
    <2>. QED  BY <1>1, <1>2, <1>3, <1>6, <2>1, EditKeepsSettled
  <1>7. DisjointIn(two, lo, hi2) /\ Done(two, lo, hi2, d)
    <2>1. Settled(two, lo, hi1 + Len(two) - Len(one), d, "timezone", Zone)
      BY <1>2, <1>6
    <2>. QED  BY <1>1, <1>4, <2>1 DEF Done
  <1>8. ASSUME NEW d2, Done(s, lo, hi, d2) PROVE Done(two, lo, hi2, d2)
    <2>1. CASE d2 = d
      BY <1>7, <2>1
    <2>2. CASE d2 # d
      <3>1. /\ Settled(one, lo, hi1, d2, "timezone", Zone)
            /\ Settled(one, lo, hi1, d2, "current_date", Today)
        BY <1>5, <1>8, <2>2 DEF Done
      <3>2. /\ Settled(two, lo, hi1 + Len(two) - Len(one), d2, "timezone", Zone)
            /\ Settled(two, lo, hi1 + Len(two) - Len(one), d2, "current_date", Today)
        BY <1>6, <2>2, <3>1
      <3>. QED  BY <1>1, <3>2 DEF Done
    <2>. QED  BY <2>1, <2>2
  <1>9. ASSUME NEW d2, NEW name2, NoneIn(s, 1, Len(s), d2, name2)
        PROVE  NoneIn(two, 1, Len(two), d2, name2)
    <2>1. NoneIn(one, 1, Len(one), d2, name2)
      BY <1>9, EditKeepsNone
    <2>. QED  BY <1>1, <1>3, <2>1, EditKeepsNone
  <1>. QED  BY <1>7, <1>8, <1>9 DEF hi2

\* Both edits of one dialect.
BareOnce(s, d) == ReplaceTag(ReplaceTag(s, d, "timezone", Zone), d, "current_date", Today)

\* The rewrite without a context goes through the dialects one by one.
LEMMA BareSteps ==
    ASSUME NEW U, NEW s \in Seq(U), Text(Zone) \in U, Text(Today) \in U
    PROVE  \E f \in [Nat -> Seq(U)] :
              /\ f[0] = s /\ \A n \in Nat : f[n + 1] = BareOnce(f[n], Dialects[n + 1])
              /\ RewriteBareTags(s) = f[Len(Dialects)]
  <1>. DEFINE step == [r \in Nat \X Seq(U) |-> BareOnce(r[2], Dialects[r[1] + 1])]
              after == CHOOSE f : f = [n \in Nat |-> IF n = 0 THEN s ELSE BareOnce(f[n - 1], Dialects[n])]
  <1>1. \A v \in Seq(U) : \A d : BareOnce(v, d) \in Seq(U)
    BY ReplaceTagEdits DEF BareOnce
  <1>2. step \in [Nat \X Seq(U) -> Seq(U)]
    BY <1>1
  <1>3. \A n \in Nat, v \in Seq(U) : step[<<n, v>>] = BareOnce(v, Dialects[n + 1])
    OBVIOUS
  <1>. HIDE DEF step
  <1>4. \E f \in [Nat -> Seq(U)] : Follows(f, s, step)
    BY <1>2, Recursion
  <1>5. PICK f \in [Nat -> Seq(U)] : f[0] = s /\ \A n \in Nat : f[n + 1] = step[<<n, f[n]>>]
    BY <1>4 DEF Follows
  <1>6. f = [n \in Nat |-> IF n = 0 THEN s ELSE BareOnce(f[n - 1], Dialects[n])]
    <2> SUFFICES ASSUME NEW n \in Nat
                 PROVE  f[n] = IF n = 0 THEN s ELSE BareOnce(f[n - 1], Dialects[n])
      BY <1>5
    <2>1. CASE n = 0
      BY <1>5, <2>1
    <2>2. CASE n # 0
      <3>1. n - 1 \in Nat /\ (n - 1) + 1 = n
        BY <2>2
      <3>. QED  BY <1>3, <1>5, <2>2, <3>1
    <2>. QED  BY <2>1, <2>2
  <1>7. after = [n \in Nat |-> IF n = 0 THEN s ELSE BareOnce(after[n - 1], Dialects[n])]
    BY <1>6
  <1>8. RewriteBareTags(s) = after[Len(Dialects)]
    BY DEF RewriteBareTags, BareOnce
  <1>. HIDE DEF after
  <1>9. after[0] = s /\ \A n \in Nat : after[n + 1] = BareOnce(after[n], Dialects[n + 1])
    <2>1. \A n \in Nat : n + 1 \in Nat /\ n + 1 # 0 /\ (n + 1) - 1 = n
      OBVIOUS
    <2>. QED  BY <1>7, <2>1
  <1>10. after \in [Nat -> Seq(U)]
    <2>. DEFINE S == {n \in Nat : after[n] \in Seq(U)}
    <2>1. 0 \in S
      BY <1>9
    <2>2. ASSUME NEW n \in Nat, n \in S PROVE n + 1 \in S
      <3>1. after[n] \in Seq(U) /\ after[n + 1] = BareOnce(after[n], Dialects[n + 1])
        BY <1>9, <2>2
      <3>2. BareOnce(after[n], Dialects[n + 1]) \in Seq(U)
        BY <1>1, <3>1
      <3>3. after[n + 1] \in Seq(U) /\ n + 1 \in Nat
        BY <3>1, <3>2
      <3>. QED  BY <3>3
    <2>. HIDE DEF S
    <2>3. Nat \subseteq S
      BY <2>1, <2>2, NatSetInduction
    <2>. QED  BY <1>7, <2>3 DEF S
  <1>. QED  BY <1>8, <1>9, <1>10

\* A body that is done: with a context or without one.
DoneBare(s) == \A i \in DOMAIN Dialects : /\ NoneIn(s, 1, Len(s), Dialects[i], Env)
                                         /\ Done(s, 1, Len(s), Dialects[i])
DoneWithin(s) == \E i \in DOMAIN Dialects, a, e \in Nat :
                    /\ IsBlock(s, a, e, Dialects[i], Env)
                    /\ \A j \in 1..(i - 1) : NoneIn(s, 1, Len(s), Dialects[j], Env)
                    /\ Done(s, a, e - 1, Dialects[i])

\* A dialect wraps the body exactly if the body has a context in it.
LEMMA HasBlockMeans ==
    ASSUME NEW s, Len(s) \in Nat, NEW d
    PROVE  HasBlock(s, d, Env) <=> ~NoneIn(s, 1, Len(s), d, Env)
  BY NoBlockMeans DEF HasBlock

\* Once every dialect has been rewritten, the body is done.
LEMMA BareRewriteSettles ==
    ASSUME NEW U, NEW s \in Seq(U), Text(Zone) \in U, Text(Today) \in U, Dialects \in Seq(STRING),
           DisjointIn(s, 1, Len(s)), \A i \in DOMAIN Dialects : NoneIn(s, 1, Len(s), Dialects[i], Env)
    PROVE  RewriteBareTags(s) \in Seq(U) /\ DoneBare(RewriteBareTags(s))
  <1>1. PICK f \in [Nat -> Seq(U)] :
              /\ f[0] = s /\ \A n \in Nat : f[n + 1] = BareOnce(f[n], Dialects[n + 1])
              /\ RewriteBareTags(s) = f[Len(Dialects)]
    BY BareSteps
  <1>. DEFINE P(n) == /\ DisjointIn(f[n], 1, Len(f[n]))
                      /\ \A i \in DOMAIN Dialects : NoneIn(f[n], 1, Len(f[n]), Dialects[i], Env)
                      /\ \A i \in 1..n : Done(f[n], 1, Len(f[n]), Dialects[i])
              S == {n \in Nat : n <= Len(Dialects) => P(n)}
  <1>0. Len(Dialects) \in Nat /\ DOMAIN Dialects = 1..Len(Dialects)
    OBVIOUS
  <1>2. 0 \in S
    <2>1. P(0)
      BY <1>1
    <2>. QED  BY <2>1
  <1>3. ASSUME NEW n \in Nat, n \in S PROVE n + 1 \in S
    <2>. SUFFICES ASSUME n + 1 <= Len(Dialects) PROVE P(n + 1)
      OBVIOUS
    <2>0. n + 1 \in DOMAIN Dialects /\ n <= Len(Dialects)
      BY <1>0
    <2>. DEFINE v == f[n]
                d == Dialects[n + 1]
                one == ReplaceTag(v, d, "timezone", Zone)
                two == ReplaceTag(one, d, "current_date", Today)
    <2>1. P(n) /\ v \in Seq(U) /\ d \in ToSet(Dialects) /\ n + 1 \in Nat
      <3>1. P(n)
        BY <1>3, <2>0
      <3>2. d \in ToSet(Dialects)
        BY <2>0 DEF ToSet
      <3>. QED  BY <3>1, <3>2
    <2>2. f[n + 1] = two
      BY <1>1 DEF BareOnce
    <2>. HIDE DEF v, d
    <2>3. one \in Seq(U) /\ IsEdit(one, v, 1, Len(v), d, "timezone", Zone)
      BY <2>1, ReplaceTagEdits
    <2>. HIDE DEF one
    <2>4. two \in Seq(U) /\ IsEdit(two, one, 1, Len(one), d, "current_date", Today)
      BY <2>3, ReplaceTagEdits
    <2>. HIDE DEF two
    <2>5. /\ Len(v) \in Nat /\ Len(one) \in Nat /\ Len(two) \in Nat /\ 1 \in Nat \ {0} /\ 1 <= Len(v) + 1
          /\ Len(v) + Len(one) - Len(v) = Len(one) /\ Len(v) + Len(two) - Len(v) = Len(two) /\ Len(v) <= Len(v)
      <3>1. Len(v) \in Nat
        <4>1. v \in Seq(U)
          BY <2>1
        <4>. QED  BY <4>1
      <3>2. Len(one) \in Nat
        BY <2>3
      <3>3. Len(two) \in Nat
        BY <2>4
      <3>. QED  BY <3>1, <3>2, <3>3
    <2>6. DisjointIn(v, 1, Len(v))
      BY <2>1 DEF v
    <2>7. IsEdit(two, one, 1, Len(v) + Len(one) - Len(v), d, "current_date", Today)
      BY <2>4, <2>5
    <2>8. /\ DisjointIn(two, 1, Len(v) + Len(two) - Len(v))
          /\ Done(two, 1, Len(v) + Len(two) - Len(v), d)
          /\ \A d2 : Done(v, 1, Len(v), d2) => Done(two, 1, Len(v) + Len(two) - Len(v), d2)
          /\ \A d2, name2 : NoneIn(v, 1, Len(v), d2, name2) => NoneIn(two, 1, Len(two), d2, name2)
      BY <2>1, <2>3, <2>5, <2>6, <2>7, BothEdits
    <2>9. \A i \in 1..(n + 1) : Done(two, 1, Len(two), Dialects[i])
      <3> SUFFICES ASSUME NEW i \in 1..(n + 1) PROVE Done(two, 1, Len(two), Dialects[i])
        OBVIOUS
      <3>1. CASE i = n + 1
        BY <2>5, <2>8, <3>1 DEF d
      <3>2. CASE i # n + 1
        <4>1. i \in 1..n
          BY <3>2
        <4>2. Done(v, 1, Len(v), Dialects[i])
          BY <2>1, <4>1 DEF v
        <4>. QED  BY <2>5, <2>8, <4>2
      <3>. QED  BY <3>1, <3>2
    <2>10. \A i \in DOMAIN Dialects : NoneIn(two, 1, Len(two), Dialects[i], Env)
      BY <2>1, <2>8 DEF v
    <2>11. DisjointIn(two, 1, Len(two))
      BY <2>5, <2>8
    <2>. QED  BY <2>2, <2>9, <2>10, <2>11
  <1>. HIDE DEF S
  <1>4. Nat \subseteq S
    BY <1>2, <1>3, NatSetInduction
  <1>5. Len(Dialects) \in S
    BY <1>0, <1>4
  <1>6. P(Len(Dialects))
    <2>. HIDE DEF P
    <2>. QED  BY <1>0, <1>5 DEF S
  <1>. QED  BY <1>0, <1>1, <1>6 DEF DoneBare
\* The wrapper is the first dialect that wraps the body.
LEMMA WrapperMeans ==
    ASSUME NEW s, Dialects \in Seq(STRING), Wrappers(s) # {}
    PROVE  \E i \in DOMAIN Dialects :
              /\ Wrapper(s) = Dialects[i] /\ HasBlock(s, Dialects[i], "environment_context")
              /\ \A j \in 1..(i - 1) : ~HasBlock(s, Dialects[j], "environment_context")
  <1>. DEFINE W == Wrappers(s)
  <1>1. W \subseteq Nat /\ W \subseteq DOMAIN Dialects
    BY DEF Wrappers
  <1>2. \E i \in W : \A j \in W : i <= j
    <2>. HIDE DEF W
    <2>. QED  BY <1>1, Least DEF W
  <1>. DEFINE i == CHOOSE k \in W : \A j \in W : k <= j
  <1>3. i \in W /\ \A j \in W : i <= j
    BY <1>2
  <1>4. Wrapper(s) = Dialects[i]
    BY DEF Wrapper
  <1>. HIDE DEF i
  <1>5. HasBlock(s, Dialects[i], "environment_context")
    BY <1>3 DEF Wrappers
  <1>6. ASSUME NEW j \in 1..(i - 1) PROVE ~HasBlock(s, Dialects[j], "environment_context")
    <2>1. j \in DOMAIN Dialects /\ ~(i <= j)
      BY <1>1, <1>3
    <2>. QED  BY <1>3, <2>1 DEF Wrappers
  <1>. QED  BY <1>1, <1>3, <1>4, <1>5, <1>6

\* The context of another body, with the same around it.
KeepsContext(out, s, a, e, d) ==
    /\ IsBlock(out, a, e + Len(out) - Len(s), d, Env)
    /\ \A j \in 1..a : out[j] = s[j]
    /\ \A j \in 0..(Len(s) - e) : out[e + Len(out) - Len(s) + j] = s[e + j]

\* Both edits inside the context.
LEMMA WithinEdits ==
    ASSUME NEW U, NEW s \in Seq(U), Text(Zone) \in U, Text(Today) \in U,
           NEW d, NEW a, NEW e, IsBlock(s, a, e, d, Env)
    PROVE  LET one == ReplaceTagWithin(s, d, "timezone", Zone)
               two == ReplaceTagWithin(one, d, "current_date", Today)
           IN  /\ one \in Seq(U) /\ IsEdit(one, s, a, e - 1, d, "timezone", Zone)
               /\ two \in Seq(U) /\ IsEdit(two, one, a, e - 1 + Len(one) - Len(s), d, "current_date", Today)
               /\ KeepsContext(two, s, a, e, d)
  <1>. DEFINE one == ReplaceTagWithin(s, d, "timezone", Zone)
              two == ReplaceTagWithin(one, d, "current_date", Today)
              x == e + Len(one) - Len(s)
  <1>1. one \in Seq(U) /\ IsEdit(one, s, a, e - 1, d, "timezone", Zone)
    BY ReplaceTagWithinEdits DEF Env
  <1>. HIDE DEF one
  <1>2. Len(s) \in Nat /\ Len(one) \in Nat /\ e \in Nat /\ e <= Len(s)
    BY <1>1 DEF IsBlock
  <1>3. /\ IsBlock(one, a, x, d, Env)
        /\ \A j \in 1..a : one[j] = s[j]
        /\ \A j \in 0..(Len(s) - e) : one[x + j] = s[e + j]
    <2>1. Len(s) \in Nat /\ IsBlock(s, a, e, d, Env) /\ IsEdit(one, s, a, e - 1, d, "timezone", Zone)
      BY <1>1
    <2>2. /\ IsBlock(one, a, e + Len(one) - Len(s), d, Env)
          /\ \A j \in 1..a : one[j] = s[j]
          /\ \A j \in 0..(Len(s) - e) : one[e + Len(one) - Len(s) + j] = s[e + j]
      BY <2>1, EditKeepsContext
    <2>. QED  BY <2>2
  <1>4. two \in Seq(U) /\ IsEdit(two, one, a, x - 1, d, "current_date", Today)
    <2>. HIDE DEF x
    <2>. QED  BY <1>1, <1>3, ReplaceTagWithinEdits DEF Env
  <1>. HIDE DEF two
  <1>5. Len(two) \in Nat
    BY <1>4
  <1>6. /\ IsBlock(two, a, x + Len(two) - Len(one), d, Env)
        /\ \A j \in 1..a : two[j] = one[j]
        /\ \A j \in 0..(Len(one) - x) : two[x + Len(two) - Len(one) + j] = one[x + j]
    <2>. HIDE DEF x
    <2>. QED  BY <1>2, <1>3, <1>4, EditKeepsContext
  <1>7. /\ x + Len(two) - Len(one) = e + Len(two) - Len(s) /\ Len(one) - x = Len(s) - e
        /\ x - 1 = e - 1 + Len(one) - Len(s)
    BY <1>2, <1>5
  <1>. HIDE DEF x
  <1>8. /\ IsBlock(two, a, e + Len(two) - Len(s), d, Env)
        /\ \A j \in 0..(Len(s) - e) : two[e + Len(two) - Len(s) + j] = s[e + j]
    BY <1>3, <1>6, <1>7
  <1>9. \A j \in 1..a : two[j] = s[j]
    BY <1>3, <1>6
  <1>10. KeepsContext(two, s, a, e, d)
    BY <1>8, <1>9 DEF KeepsContext
  <1>. QED  BY <1>1, <1>4, <1>7, <1>10 DEF one, two

\* Once the context has been rewritten, the body is done.
LEMMA WithinRewriteSettles ==
    ASSUME NEW U, NEW s \in Seq(U), Text(Zone) \in U, Text(Today) \in U, Dialects \in Seq(STRING),
           DisjointIn(s, 1, Len(s)), Wrappers(s) # {}
    PROVE  RewriteEnvironment(s) \in Seq(U) /\ DoneWithin(RewriteEnvironment(s))
  <1>1. PICK i \in DOMAIN Dialects :
              /\ Wrapper(s) = Dialects[i] /\ HasBlock(s, Dialects[i], Env)
              /\ \A j \in 1..(i - 1) : ~HasBlock(s, Dialects[j], Env)
    BY WrapperMeans DEF Env
  <1>. DEFINE d == Dialects[i]
              b == FindBlock(s, d, Env)
              a == b[1]
              e == b[2]
              one == ReplaceTagWithin(s, d, "timezone", Zone)
              two == ReplaceTagWithin(one, d, "current_date", Today)
  <1>2. RewriteEnvironment(s) = two
    BY <1>1 DEF RewriteEnvironment
  <1>3. IsBlock(s, a, e, d, Env)
    BY <1>1, BlockMeans DEF HasBlock
  <1>4. d \in ToSet(Dialects)
    BY DEF ToSet
  <1>. HIDE DEF a, e, b, d
  <1>5. /\ one \in Seq(U) /\ IsEdit(one, s, a, e - 1, d, "timezone", Zone)
        /\ two \in Seq(U) /\ IsEdit(two, one, a, e - 1 + Len(one) - Len(s), d, "current_date", Today)
        /\ IsBlock(two, a, e + Len(two) - Len(s), d, Env)
    BY <1>3, WithinEdits DEF KeepsContext
  <1>. HIDE DEF one, two
  <1>6. Len(s) \in Nat /\ Len(one) \in Nat /\ Len(two) \in Nat
    <2>1. Len(one) \in Nat
      BY <1>5
    <2>2. Len(two) \in Nat
      BY <1>5
    <2>. QED  BY <2>1, <2>2
  <1>7. a \in Nat \ {0} /\ e - 1 \in Nat /\ e \in Nat /\ e - 1 <= Len(s) /\ a <= (e - 1) + 1 /\ 1 <= a
    BY <1>3, <1>6 DEF IsBlock
  <1>8. DisjointIn(s, a, e - 1)
    <2>1. \A k \in a..(e - 1) : k \in 1..Len(s)
      BY <1>6, <1>7
    <2>. QED  BY <2>1 DEF DisjointIn
  <1>. DEFINE f == e - 1
  <1>9. /\ Done(two, a, f + Len(two) - Len(s), d)
        /\ \A d2, name2 : NoneIn(s, 1, Len(s), d2, name2) => NoneIn(two, 1, Len(two), d2, name2)
    <2>1. /\ f \in Nat /\ f <= Len(s) /\ a <= f + 1 /\ DisjointIn(s, a, f)
          /\ IsEdit(one, s, a, f, d, "timezone", Zone)
          /\ IsEdit(two, one, a, f + Len(one) - Len(s), d, "current_date", Today)
      BY <1>5, <1>7, <1>8
    <2>. HIDE DEF f
    <2>. QED  BY <1>4, <1>6, <1>7, <2>1, BothEdits
  <1>. DEFINE x == e + Len(two) - Len(s)
  <1>10. f + Len(two) - Len(s) = x - 1 /\ x \in Nat
    BY <1>5, <1>6, <1>7 DEF IsBlock
  <1>11. \A j \in 1..(i - 1) : NoneIn(two, 1, Len(two), Dialects[j], Env)
    BY <1>1, <1>6, <1>9, HasBlockMeans
  <1>12. IsBlock(two, a, x, Dialects[i], Env) /\ Done(two, a, x - 1, Dialects[i])
    BY <1>5, <1>9, <1>10 DEF d
  <1>. HIDE DEF x, f
  <1>13. DoneWithin(two)
    BY <1>7, <1>10, <1>11, <1>12 DEF DoneWithin
  <1>. QED  BY <1>2, <1>5, <1>13

\* A body that is done is left as it is.
LEMMA DoneIsStable ==
    ASSUME NEW U, NEW s \in Seq(U), Text(Zone) \in U, Text(Today) \in U, Dialects \in Seq(STRING),
           DoneBare(s) \/ DoneWithin(s)
    PROVE  RewriteEnvironment(s) = s
  <1>0. Len(s) \in Nat /\ 1 \in Nat \ {0} /\ Len(s) <= Len(s)
    OBVIOUS
  <1>1. CASE DoneBare(s)
    <2>1. Wrappers(s) = {}
      BY <1>0, <1>1, HasBlockMeans DEF DoneBare, Wrappers, Env
    <2>2. ASSUME NEW i \in DOMAIN Dialects PROVE BareOnce(s, Dialects[i]) = s
      <3>. DEFINE d == Dialects[i]
                  one == ReplaceTag(s, d, "timezone", Zone)
                  two == ReplaceTag(s, d, "current_date", Today)
      <3>1. Settled(s, 1, Len(s), d, "timezone", Zone) /\ Settled(s, 1, Len(s), d, "current_date", Today)
        BY <1>1 DEF DoneBare, Done
      <3>2. one \in Seq(U) /\ IsEdit(one, s, 1, Len(s), d, "timezone", Zone)
        BY ReplaceTagEdits
      <3>3. two \in Seq(U) /\ IsEdit(two, s, 1, Len(s), d, "current_date", Today)
        BY ReplaceTagEdits
      <3>4. BareOnce(s, d) = ReplaceTag(one, d, "current_date", Today)
        BY DEF BareOnce
      <3>. HIDE DEF one
      <3>5. one = s
        BY <1>0, <3>1, <3>2, SettledIsDone
      <3>6. BareOnce(s, d) = two
        BY <3>4, <3>5
      <3>. HIDE DEF two
      <3>7. two = s
        BY <1>0, <3>1, <3>3, SettledIsDone
      <3>. QED  BY <3>6, <3>7
    <2>3. PICK f \in [Nat -> Seq(U)] :
              /\ f[0] = s /\ \A n \in Nat : f[n + 1] = BareOnce(f[n], Dialects[n + 1])
              /\ RewriteBareTags(s) = f[Len(Dialects)]
      BY BareSteps
    <2>4. Len(Dialects) \in Nat /\ DOMAIN Dialects = 1..Len(Dialects)
      OBVIOUS
    <2>. DEFINE S == {n \in Nat : n <= Len(Dialects) => f[n] = s}
    <2>5. 0 \in S
      BY <2>3
    <2>6. ASSUME NEW n \in Nat, n \in S PROVE n + 1 \in S
      <3>. SUFFICES ASSUME n + 1 <= Len(Dialects) PROVE f[n + 1] = s
        OBVIOUS
      <3>1. n + 1 \in DOMAIN Dialects /\ f[n] = s
        BY <2>4, <2>6
      <3>2. f[n + 1] = BareOnce(f[n], Dialects[n + 1])
        BY <2>3
      <3>. QED  BY <2>2, <3>1, <3>2
    <2>. HIDE DEF S
    <2>7. Nat \subseteq S
      BY <2>5, <2>6, NatSetInduction
    <2>8. Len(Dialects) \in S
      BY <2>4, <2>7
    <2>9. f[Len(Dialects)] = s
      BY <2>4, <2>8 DEF S
    <2>. QED  BY <2>1, <2>3, <2>9 DEF RewriteEnvironment
  <1>2. ASSUME NEW i \in DOMAIN Dialects, NEW a \in Nat, NEW e \in Nat,
               IsBlock(s, a, e, Dialects[i], Env),
               \A j \in 1..(i - 1) : NoneIn(s, 1, Len(s), Dialects[j], Env),
               Done(s, a, e - 1, Dialects[i])
        PROVE  RewriteEnvironment(s) = s
    <2>. DEFINE d == Dialects[i]
                W == Wrappers(s)
                c == CHOOSE k \in W : \A j \in W : k <= j
    <2>1. /\ 1 <= a /\ a < e /\ e <= Len(s) /\ s[a] = Open(d, Env) /\ s[e] = Close(d, Env)
      BY <1>2 DEF IsBlock
    <2>2. ~NoneIn(s, 1, Len(s), d, Env)
      <3>1. a \in 1..Len(s) /\ e \in 1..Len(s)
        BY <1>0, <2>1
      <3>. QED  BY <2>1, <3>1 DEF NoneIn
    <2>3. i \in W
      BY <1>0, <2>2, HasBlockMeans DEF Wrappers, Env
    <2>4. \A j \in W : j \in DOMAIN Dialects /\ ~(j \in 1..(i - 1))
      BY <1>0, <1>2, HasBlockMeans DEF Wrappers, Env
    <2>4a. DOMAIN Dialects \subseteq Nat /\ DOMAIN Dialects = 1..Len(Dialects) /\ Len(Dialects) \in Nat
      OBVIOUS
    <2>5. \A j \in W : j \in Nat /\ i <= j
      BY <2>4, <2>4a
    <2>. HIDE DEF W
    <2>6. c \in W /\ \A j \in W : c <= j
      BY <2>3, <2>5
    <2>. HIDE DEF c
    <2>7. c = i
      BY <2>3, <2>5, <2>6
    <2>8. Wrapper(s) = d
      BY <2>7 DEF Wrapper, W, c
    <2>9. RewriteEnvironment(s) =
            ReplaceTagWithin(ReplaceTagWithin(s, d, "timezone", Zone), d, "current_date", Today)
      BY <2>3, <2>8 DEF RewriteEnvironment, W
    <2>. HIDE DEF d
    <2>. DEFINE one == ReplaceTagWithin(s, d, "timezone", Zone)
                two == ReplaceTagWithin(s, d, "current_date", Today)
                f == e - 1
    <2>10. /\ a \in Nat \ {0} /\ f \in Nat /\ f <= Len(s)
           /\ Settled(s, a, f, d, "timezone", Zone) /\ Settled(s, a, f, d, "current_date", Today)
      BY <1>0, <1>2, <2>1 DEF Done, d
    <2>10a. IsBlock(s, a, e, d, "environment_context")
      BY <1>2 DEF d, Env
    <2>11. one \in Seq(U) /\ IsEdit(one, s, a, f, d, "timezone", Zone)
      BY <2>10a, ReplaceTagWithinEdits
    <2>12. two \in Seq(U) /\ IsEdit(two, s, a, f, d, "current_date", Today)
      BY <2>10a, ReplaceTagWithinEdits
    <2>13. RewriteEnvironment(s) = ReplaceTagWithin(one, d, "current_date", Today)
      BY <2>9
    <2>. HIDE DEF one, f
    <2>14. one = s
      BY <2>10, <2>11, SettledIsDone
    <2>15. RewriteEnvironment(s) = two
      BY <2>13, <2>14
    <2>. HIDE DEF two
    <2>16. two = s
      BY <2>10, <2>12, SettledIsDone
    <2>. QED  BY <2>15, <2>16
  <1>. QED  BY <1>1, <1>2 DEF DoneWithin

\* Outside of the context nothing changes.
LEMMA OutsideKept ==
    ASSUME NEW U, NEW s \in Seq(U), Text(Zone) \in U, Text(Today) \in U, Dialects \in Seq(STRING)
    PROVE  OutsideIsKept(s)
  <1>. SUFFICES ASSUME Wrappers(s) # {} PROVE OutsideIsKept(s)
    BY DEF OutsideIsKept
  <1>. DEFINE d == Wrapper(s)
              b == FindBlock(s, d, Env)
              out == RewriteEnvironment(s)
              a == b[1]
              e == b[2]
              x == e + Len(out) - Len(s)
  <1>1. e # 0
    BY WrapperMeans DEF HasBlock, Env
  <1>2. IsBlock(s, a, e, d, Env)
    BY <1>1, BlockMeans
  <1>3. out = ReplaceTagWithin(ReplaceTagWithin(s, d, "timezone", Zone), d, "current_date", Today)
    BY DEF RewriteEnvironment
  <1>. HIDE DEF a, e, b, d, out
  <1>4. /\ out \in Seq(U) /\ IsBlock(out, a, x, d, Env)
        /\ \A j \in 1..a : out[j] = s[j]
        /\ \A j \in 0..(Len(s) - e) : out[x + j] = s[e + j]
    <2>. DEFINE two == ReplaceTagWithin(ReplaceTagWithin(s, d, "timezone", Zone), d, "current_date", Today)
    <2>1. two \in Seq(U) /\ KeepsContext(two, s, a, e, d)
      BY <1>2, WithinEdits
    <2>. HIDE DEF two
    <2>2. out = two
      BY <1>3 DEF two
    <2>. QED  BY <2>1, <2>2 DEF KeepsContext
  <1>5. Len(s) \in Nat /\ Len(out) \in Nat
    BY <1>4
  <1>6. /\ a \in Nat \ {0} /\ e \in Nat \ {0} /\ x \in Nat \ {0} /\ a < e /\ e <= Len(s) /\ a < x /\ x <= Len(out)
        /\ Len(out) - x = Len(s) - e /\ Len(out) - (Len(s) - e) = x
    BY <1>2, <1>4, <1>5 DEF IsBlock
  <1>. HIDE DEF x
  <1>7. SubSeq(out, 1, a) = SubSeq(s, 1, a)
    <2>1. \A k \in 0..(a - 1) : out[1 + k] = s[1 + k]
      BY <1>4, <1>5, <1>6
    <2>2. 1 \in Nat \ {0} /\ a \in Nat /\ 1 <= a + 1 /\ a <= Len(out) /\ a <= Len(s)
      BY <1>6
    <2>3. Agree(out, 1, a, s, 1, a)
      BY <2>1, <2>2 DEF Agree
    <2>4. IsSameSlice(out, 1, a, s, 1, a)
      BY <1>4, <2>3, SameParts
    <2>. QED  BY <2>4 DEF IsSameSlice
  <1>8. SubSeq(out, x, Len(out)) = SubSeq(s, e, Len(s))
    <2>1. \A k \in 0..(Len(out) - x) : out[x + k] = s[e + k]
      BY <1>4, <1>5, <1>6
    <2>2. x <= Len(out) + 1 /\ e <= Len(s) + 1 /\ Len(out) - x = Len(s) - e /\ Len(out) <= Len(out) /\ Len(s) <= Len(s)
      BY <1>4, <1>5, <1>6
    <2>3. Agree(out, x, Len(out), s, e, Len(s))
      BY <1>5, <1>6, <2>1, <2>2 DEF Agree
    <2>4. IsSameSlice(out, x, Len(out), s, e, Len(s))
      BY <1>4, <2>3, SameParts
    <2>. QED  BY <2>4 DEF IsSameSlice
  <1>. QED  BY <1>6, <1>7, <1>8 DEF OutsideIsKept, a, e, b, d, out, Env

\* The first field of a name, when its value is one to edit.
Holds(v, numericOK) == (v[1] = "string" /\ v[2] \in ZoneLike) \/ (v[1] = "number" /\ numericOK)
FirstField(s, i, name, numericOK) ==
    /\ i < Len(s) /\ s[i] = Key(name) /\ Holds(s[i + 1], numericOK)
    /\ \A j \in 1..(i - 1) : s[j] # Key(name)
Edited(s, i, value) == [s EXCEPT ![i + 1] = <<s[i + 1][1], value>>]
IsFieldEdit(out, s, name, value, numericOK) ==
    \/ out = s /\ \A i \in 1..Len(s) : ~FirstField(s, i, name, numericOK)
    \/ \E i \in 1..Len(s) : FirstField(s, i, name, numericOK) /\ out = Edited(s, i, value)
\* The same tags and texts, and other values in fields.
Value(v) == v[1] \in {"string", "number"}
SameTags(x, y) == /\ Len(x) = Len(y)
                  /\ \A i \in 1..Len(y) : x[i] = y[i] \/ (Value(x[i]) /\ Value(y[i]))

\* ReplaceJSONField edits the first field of a name, if its value is one to edit.
LEMMA ReplacedField ==
    ASSUME NEW s, Len(s) \in Nat, NEW name, NEW value, NEW numericOK \in BOOLEAN
    PROVE  IsFieldEdit(ReplaceJSONField(s, name, value, numericOK), s, name, value, numericOK)
  <1>. DEFINE i == IndexFrom(s, 1, Key(name))
              out == ReplaceJSONField(s, name, value, numericOK)
  <1>1. /\ i \in Nat
        /\ i = 0 => \A j \in 1..Len(s) : s[j] # Key(name)
        /\ i # 0 => /\ 1 <= i /\ i <= Len(s) /\ s[i] = Key(name)
                    /\ \A j \in 1..(i - 1) : s[j] # Key(name)
    BY IndexFromMeans
  <1>2. out = IF i # 0 /\ i < Len(s) /\ Holds(s[i + 1], numericOK) THEN Edited(s, i, value) ELSE s
    BY DEF ReplaceJSONField, Holds, Edited
  <1>. HIDE DEF i, out
  <1>3. CASE i # 0 /\ i < Len(s) /\ Holds(s[i + 1], numericOK)
    <2>1. i \in 1..Len(s) /\ FirstField(s, i, name, numericOK) /\ out = Edited(s, i, value)
      BY <1>1, <1>2, <1>3 DEF FirstField
    <2>. QED  BY <2>1 DEF IsFieldEdit, out
  <1>4. CASE ~(i # 0 /\ i < Len(s) /\ Holds(s[i + 1], numericOK))
    <2>1. ASSUME NEW k \in 1..Len(s), FirstField(s, k, name, numericOK) PROVE FALSE
      <3>1. /\ k < Len(s) /\ s[k] = Key(name) /\ Holds(s[k + 1], numericOK)
            /\ \A j \in 1..(k - 1) : s[j] # Key(name)
        BY <2>1 DEF FirstField
      <3>2. i # 0
        BY <1>1, <3>1
      <3>3. ~(k < i)
        <4>1. k < i => k \in 1..(i - 1)
          BY <1>1
        <4>. QED  BY <1>1, <3>1, <3>2, <4>1
      <3>4. ~(i < k)
        <4>1. i < k => i \in 1..(k - 1)
          BY <1>1, <3>2
        <4>. QED  BY <1>1, <3>1, <3>2, <4>1
      <3>5. i = k
        BY <1>1, <3>3, <3>4
      <3>. QED  BY <1>4, <3>1, <3>2, <3>5
    <2>. QED  BY <1>2, <1>4, <2>1 DEF IsFieldEdit, out
  <1>. QED  BY <1>3, <1>4

\* What an edit of a field changes.
LEMMA EditedMeans ==
    ASSUME NEW s, Len(s) \in Nat, DOMAIN s = 1..Len(s), NEW i \in 1..Len(s), NEW name, NEW value, NEW numericOK,
           FirstField(s, i, name, numericOK), NEW out, out = Edited(s, i, value)
    PROVE  /\ i + 1 \in 1..Len(s) /\ Len(out) = Len(s) /\ DOMAIN out = 1..Len(s)
           /\ out[i + 1] = <<s[i + 1][1], value>> /\ Value(s[i + 1]) /\ Value(out[i + 1])
           /\ \A j \in 1..Len(s) : j # i + 1 => out[j] = s[j]
  <1>1. i + 1 \in 1..Len(s)
    BY DEF FirstField
  <1>2. Value(s[i + 1])
    BY DEF FirstField, Holds, Value
  <1>3. /\ DOMAIN out = 1..Len(s) /\ out[i + 1] = <<s[i + 1][1], value>>
        /\ \A j \in 1..Len(s) : j # i + 1 => out[j] = s[j]
    BY <1>1 DEF Edited
  <1>4. Len(out) = Len(s)
    BY <1>1 DEF Edited
  <1>5. Value(out[i + 1])
    BY <1>2, <1>3 DEF Value
  <1>. QED  BY <1>1, <1>2, <1>3, <1>4, <1>5

\* An edit of a field leaves the tags,
LEMMA FieldEditKeeps ==
    ASSUME NEW U, NEW s \in Seq(U), NEW name, NEW value, <<"string", value>> \in U, <<"number", value>> \in U,
           NEW numericOK, NEW out, IsFieldEdit(out, s, name, value, numericOK)
    PROVE  out \in Seq(U) /\ SameTags(out, s)
  <1>1. Len(s) \in Nat /\ DOMAIN s = 1..Len(s)
    OBVIOUS
  <1>2. CASE out = s
    BY <1>2 DEF SameTags
  <1>3. ASSUME NEW i \in 1..Len(s), FirstField(s, i, name, numericOK), out = Edited(s, i, value)
        PROVE  out \in Seq(U) /\ SameTags(out, s)
    <2>1. /\ i + 1 \in 1..Len(s) /\ Len(out) = Len(s) /\ DOMAIN out = 1..Len(s)
          /\ out[i + 1] = <<s[i + 1][1], value>> /\ Value(s[i + 1]) /\ Value(out[i + 1])
          /\ \A j \in 1..Len(s) : j # i + 1 => out[j] = s[j]
      BY <1>1, <1>3, EditedMeans
    <2>2. SameTags(out, s)
      BY <2>1 DEF SameTags
    <2>3. <<s[i + 1][1], value>> \in U
      <3>1. s[i + 1][1] = "string" \/ s[i + 1][1] = "number"
        BY <2>1 DEF Value
      <3>. QED  BY <3>1
    <2>4. out \in Seq(U)
      BY <1>3, <2>1, <2>3 DEF Edited
    <2>. QED  BY <2>2, <2>4
  <1>. QED  BY <1>2, <1>3 DEF IsFieldEdit

\* A field that says what it is to say.
FieldDone(s, name, value, numericOK) ==
    \A i \in 1..Len(s) : FirstField(s, i, name, numericOK) => s[i + 1] = <<s[i + 1][1], value>>

\* A field that says what it is to say is left as it is.
LEMMA FieldDoneIsStable ==
    ASSUME NEW U, NEW s \in Seq(U), NEW name, NEW value, NEW numericOK \in BOOLEAN,
           FieldDone(s, name, value, numericOK)
    PROVE  ReplaceJSONField(s, name, value, numericOK) = s
  <1>. DEFINE out == ReplaceJSONField(s, name, value, numericOK)
  <1>0. Len(s) \in Nat /\ DOMAIN s = 1..Len(s)
    OBVIOUS
  <1>1. IsFieldEdit(out, s, name, value, numericOK)
    BY <1>0, ReplacedField
  <1>. HIDE DEF out
  <1>2. ASSUME NEW i \in 1..Len(s), FirstField(s, i, name, numericOK), out = Edited(s, i, value)
        PROVE  out = s
    <2>1. s[i + 1] = <<s[i + 1][1], value>>
      BY <1>2 DEF FieldDone
    <2>2. out = [s EXCEPT ![i + 1] = s[i + 1]]
      BY <1>2, <2>1 DEF Edited
    <2>. QED  BY <2>2
  <1>. QED  BY <1>1, <1>2 DEF IsFieldEdit, out

\* What has been edited says what it is to say,
LEMMA FieldEditSettles ==
    ASSUME NEW s, Len(s) \in Nat, DOMAIN s = 1..Len(s), NEW name, NEW value, NEW numericOK, NEW out,
           IsFieldEdit(out, s, name, value, numericOK)
    PROVE  FieldDone(out, name, value, numericOK)
  <1>1. ASSUME out = s, \A i \in 1..Len(s) : ~FirstField(s, i, name, numericOK)
        PROVE  FieldDone(out, name, value, numericOK)
    BY <1>1 DEF FieldDone
  <1>2. ASSUME NEW i \in 1..Len(s), FirstField(s, i, name, numericOK), out = Edited(s, i, value)
        PROVE  FieldDone(out, name, value, numericOK)
    <2>1. /\ i + 1 \in 1..Len(s) /\ Len(out) = Len(s) /\ DOMAIN out = 1..Len(s)
          /\ out[i + 1] = <<s[i + 1][1], value>> /\ Value(s[i + 1]) /\ Value(out[i + 1])
          /\ \A j \in 1..Len(s) : j # i + 1 => out[j] = s[j]
      BY <1>2, EditedMeans
    <2>2. s[i] = Key(name) /\ \A j \in 1..(i - 1) : s[j] # Key(name)
      BY <1>2 DEF FirstField
    <2>3. ASSUME NEW k \in 1..Len(out), FirstField(out, k, name, numericOK)
          PROVE  out[k + 1] = <<out[k + 1][1], value>>
      <3>1. out[k] = Key(name) /\ \A j \in 1..(k - 1) : out[j] # Key(name)
        BY <2>3 DEF FirstField
      <3>2. k # i + 1
        BY <2>1, <3>1 DEF Value, Key
      <3>3. s[k] = Key(name)
        BY <2>1, <3>1, <3>2
      <3>4. ~(k < i)
        <4>1. k < i => k \in 1..(i - 1)
          BY <2>1
        <4>. QED  BY <2>2, <3>3, <4>1
      <3>5. ~(i < k)
        <4>1. i < k => i \in 1..(k - 1)
          BY <2>1
        <4>. QED  BY <2>1, <2>2, <3>1, <4>1
      <3>6. k = i
        BY <2>1, <3>4, <3>5
      <3>7. out[i + 1][1] = s[i + 1][1]
        BY <2>1
      <3>. QED  BY <2>1, <3>6, <3>7
    <2>. QED  BY <2>3 DEF FieldDone
  <1>. QED  BY <1>1, <1>2 DEF IsFieldEdit

\* and an edit leaves what a field of another name says.
LEMMA FieldEditKeepsDone ==
    ASSUME NEW s, Len(s) \in Nat, DOMAIN s = 1..Len(s), NEW name, NEW value, NEW numericOK, NEW out,
           IsFieldEdit(out, s, name, value, numericOK),
           NEW name2, name2 # name, NEW value2, NEW numericOK2, FieldDone(s, name2, value2, numericOK2)
    PROVE  FieldDone(out, name2, value2, numericOK2)
  <1>1. CASE out = s
    BY <1>1
  <1>2. ASSUME NEW i \in 1..Len(s), FirstField(s, i, name, numericOK), out = Edited(s, i, value)
        PROVE  FieldDone(out, name2, value2, numericOK2)
    <2>1. /\ i + 1 \in 1..Len(s) /\ Len(out) = Len(s) /\ DOMAIN out = 1..Len(s)
          /\ out[i + 1] = <<s[i + 1][1], value>> /\ Value(s[i + 1]) /\ Value(out[i + 1])
          /\ \A j \in 1..Len(s) : j # i + 1 => out[j] = s[j]
      BY <1>2, EditedMeans
    <2>2. s[i] = Key(name) /\ Key(name) # Key(name2)
      BY <1>2 DEF FirstField, Key
    <2>3. ASSUME NEW k \in 1..Len(out), FirstField(out, k, name2, numericOK2)
          PROVE  out[k + 1] = <<out[k + 1][1], value2>>
      <3>1. /\ k < Len(out) /\ out[k] = Key(name2) /\ Holds(out[k + 1], numericOK2)
            /\ \A j \in 1..(k - 1) : out[j] # Key(name2)
        BY <2>3 DEF FirstField
      <3>2. k # i + 1
        BY <2>1, <3>1 DEF Value, Key
      <3>3. s[k] = Key(name2) /\ k # i
        BY <2>1, <2>2, <3>1, <3>2
      <3>4. out[k + 1] = s[k + 1]
        <4>1. k + 1 \in 1..Len(s) /\ k + 1 # i + 1
          BY <2>1, <3>1, <3>3
        <4>. QED  BY <2>1, <4>1
      <3>5. ASSUME NEW j \in 1..(k - 1) PROVE s[j] # Key(name2)
        <4>1. CASE j = i + 1
          BY <2>1, <4>1 DEF Value, Key
        <4>2. CASE j # i + 1
          <5>1. j \in 1..Len(s)
            BY <2>1
          <5>. QED  BY <2>1, <3>1, <4>2, <5>1
        <4>. QED  BY <4>1, <4>2
      <3>6. FirstField(s, k, name2, numericOK2)
        BY <2>1, <3>1, <3>3, <3>4, <3>5 DEF FirstField
      <3>. QED  BY <2>1, <3>4, <3>6 DEF FieldDone
    <2>. QED  BY <2>3 DEF FieldDone
  <1>. QED  BY <1>1, <1>2 DEF IsFieldEdit

\* Where the tags are the same, tags and texts are at the same places,
LEMMA SameTagsMeans ==
    ASSUME NEW x, NEW y, SameTags(x, y), NEW i \in 1..Len(y), NEW d, NEW name
    PROVE  /\ x[i] = Open(d, name) <=> y[i] = Open(d, name)
           /\ x[i] = Close(d, name) <=> y[i] = Close(d, name)
           /\ x[i] = Text(name) <=> y[i] = Text(name)
  <1>1. \A v : Value(v) => v # Open(d, name) /\ v # Close(d, name) /\ v # Text(name)
    BY DEF Value, Open, Close, Text
  <1>. QED  BY <1>1 DEF SameTags

\* so that a body that is done stays so.
LEMMA SameTagsDone ==
    ASSUME NEW x, NEW y, SameTags(x, y), Len(y) \in Nat, Dialects \in Seq(STRING), DoneBare(y) \/ DoneWithin(y)
    PROVE  DoneBare(x) \/ DoneWithin(x)
  <1>0. Len(x) = Len(y) /\ Len(y) \in Nat
    BY DEF SameTags
  <1>1. ASSUME NEW d, NEW name, NoneIn(y, 1, Len(y), d, name)
        PROVE  NoneIn(x, 1, Len(x), d, name)
    BY <1>0, <1>1, SameTagsMeans DEF NoneIn
  <1>2. ASSUME NEW lo \in Nat \ {0}, NEW hi \in Nat, hi <= Len(y), NEW d, NEW name, NEW p, NEW q,
               FirstIn(x, lo, hi, d, name, p, q)
        PROVE  FirstIn(y, lo, hi, d, name, p, q)
    <2>1. \A j \in lo..hi : j \in 1..Len(y)
      BY <1>0, <1>2
    <2>2. /\ p \in Nat /\ q \in Nat /\ lo <= p /\ p < q /\ q <= hi
          /\ x[p] = Open(d, name) /\ \A j \in lo..(p - 1) : x[j] # Open(d, name)
          /\ x[q] = Close(d, name) /\ \A j \in (p + 1)..(q - 1) : x[j] # Close(d, name)
      BY <1>2 DEF FirstIn
    <2>3. p \in 1..Len(y) /\ q \in 1..Len(y)
      BY <1>0, <1>2, <2>2
    <2>4. y[p] = Open(d, name) /\ y[q] = Close(d, name)
      BY <2>2, <2>3, SameTagsMeans
    <2>5. ASSUME NEW j \in lo..(p - 1) PROVE y[j] # Open(d, name)
      <3>1. j \in 1..Len(y)
        BY <1>0, <1>2, <2>2
      <3>. QED  BY <2>2, <3>1, SameTagsMeans
    <2>6. ASSUME NEW j \in (p + 1)..(q - 1) PROVE y[j] # Close(d, name)
      <3>1. j \in 1..Len(y)
        BY <1>0, <1>2, <2>2
      <3>. QED  BY <2>2, <3>1, SameTagsMeans
    <2>. QED  BY <2>2, <2>4, <2>5, <2>6 DEF FirstIn
  <1>3. ASSUME NEW lo \in Nat \ {0}, NEW hi \in Nat, hi <= Len(y), NEW d, NEW name, NEW value,
               Settled(y, lo, hi, d, name, value)
        PROVE  Settled(x, lo, hi, d, name, value)
    <2> SUFFICES ASSUME NEW p \in Nat, NEW q \in Nat, FirstIn(x, lo, hi, d, name, p, q)
                 PROVE  q = p + 2 /\ x[p + 1] = Text(value)
      BY DEF Settled
    <2>1. FirstIn(y, lo, hi, d, name, p, q)
      BY <1>2, <1>3
    <2>2. q = p + 2 /\ y[p + 1] = Text(value)
      BY <1>3, <2>1 DEF Settled
    <2>3. p + 1 \in 1..Len(y)
      BY <1>0, <1>3, <2>1, <2>2 DEF FirstIn
    <2>. QED  BY <2>2, <2>3, SameTagsMeans
  <1>4. CASE DoneBare(y)
    <2>1. 1 \in Nat \ {0} /\ Len(y) <= Len(y)
      BY <1>0
    <2>2. ASSUME NEW i \in DOMAIN Dialects
          PROVE  NoneIn(x, 1, Len(x), Dialects[i], Env) /\ Done(x, 1, Len(x), Dialects[i])
      <3>1. NoneIn(y, 1, Len(y), Dialects[i], Env) /\ Done(y, 1, Len(y), Dialects[i])
        BY <1>4 DEF DoneBare
      <3>. QED  BY <1>0, <1>1, <1>3, <2>1, <3>1 DEF Done
    <2>. QED  BY <2>2 DEF DoneBare
  <1>5. ASSUME NEW i \in DOMAIN Dialects, NEW a \in Nat, NEW e \in Nat,
               IsBlock(y, a, e, Dialects[i], Env),
               \A j \in 1..(i - 1) : NoneIn(y, 1, Len(y), Dialects[j], Env),
               Done(y, a, e - 1, Dialects[i])
        PROVE  DoneWithin(x)
    <2>1. /\ 1 <= a /\ a < e /\ e <= Len(y)
          /\ y[a] = Open(Dialects[i], Env) /\ \A j \in 1..(a - 1) : y[j] # Open(Dialects[i], Env)
          /\ y[e] = Close(Dialects[i], Env) /\ \A j \in (a + 1)..(e - 1) : y[j] # Close(Dialects[i], Env)
      BY <1>5 DEF IsBlock
    <2>2. IsBlock(x, a, e, Dialects[i], Env)
      <3>1. a \in 1..Len(y) /\ e \in 1..Len(y)
        BY <1>0, <2>1
      <3>2. x[a] = Open(Dialects[i], Env) /\ x[e] = Close(Dialects[i], Env)
        BY <2>1, <3>1, SameTagsMeans
      <3>3. ASSUME NEW j \in 1..(a - 1) PROVE x[j] # Open(Dialects[i], Env)
        <4>1. j \in 1..Len(y)
          BY <1>0, <2>1
        <4>. QED  BY <2>1, <4>1, SameTagsMeans
      <3>4. ASSUME NEW j \in (a + 1)..(e - 1) PROVE x[j] # Close(Dialects[i], Env)
        <4>1. j \in 1..Len(y)
          BY <1>0, <2>1
        <4>. QED  BY <2>1, <4>1, SameTagsMeans
      <3>. QED  BY <1>0, <2>1, <3>2, <3>3, <3>4 DEF IsBlock
    <2>3. Done(x, a, e - 1, Dialects[i])
      <3>1. a \in Nat \ {0} /\ e - 1 \in Nat /\ e - 1 <= Len(y)
        BY <1>0, <2>1
      <3>. QED  BY <1>3, <1>5, <3>1 DEF Done
    <2>4. \A j \in 1..(i - 1) : NoneIn(x, 1, Len(x), Dialects[j], Env)
      BY <1>1, <1>5
    <2>. QED  BY <2>2, <2>3, <2>4 DEF DoneWithin
  <1>. QED  BY <1>4, <1>5 DEF DoneWithin

\* What a second rewrite finds.
LEMMA StableRewrite ==
    ASSUME NEW U, NEW s \in Seq(U), Text(Zone) \in U, Text(Today) \in U, Dialects \in Seq(STRING),
           \A k \in {"string", "number"} : <<k, Zone>> \in U /\ <<k, Offset>> \in U
    PROVE  RewriteIsStable(s)
  <1>. SUFFICES ASSUME ElementsAreDisjoint(s), MentionsAMarker(s), MentionsAMarker(Rewrite(s))
                PROVE  Rewrite(Rewrite(s)) = Rewrite(s)
    BY DEF RewriteIsStable, Rewrite
  <1>. DEFINE env == RewriteEnvironment(s)
              one == ReplaceJSONField(env, "timezone", Zone, FALSE)
              two == ReplaceJSONField(one, "timezone_offset_min", Offset, TRUE)
  <1>1. Len(s) \in Nat /\ DOMAIN s = 1..Len(s)
    OBVIOUS
  <1>2. DisjointIn(s, 1, Len(s))
    BY <1>1 DEF ElementsAreDisjoint, DisjointIn, Ends, Names
  <1>3. env \in Seq(U) /\ (DoneBare(env) \/ DoneWithin(env))
    <2>1. CASE Wrappers(s) = {}
      <3>1. \A i \in DOMAIN Dialects : NoneIn(s, 1, Len(s), Dialects[i], Env)
        BY <1>1, <2>1, HasBlockMeans DEF Wrappers, Env
      <3>2. env = RewriteBareTags(s)
        BY <2>1 DEF RewriteEnvironment
      <3>. QED  BY <1>2, <3>1, <3>2, BareRewriteSettles
    <2>2. CASE Wrappers(s) # {}
      BY <1>2, <2>2, WithinRewriteSettles
    <2>. QED  BY <2>1, <2>2
  <1>4. Rewrite(s) = two
    BY DEF Rewrite
  <1>. HIDE DEF env
  <1>5. Len(env) \in Nat /\ DOMAIN env = 1..Len(env)
    BY <1>3
  <1>6. IsFieldEdit(one, env, "timezone", Zone, FALSE)
    BY <1>5, ReplacedField
  <1>. HIDE DEF one
  <1>7. one \in Seq(U) /\ SameTags(one, env)
    BY <1>3, <1>6, FieldEditKeeps
  <1>8. Len(one) \in Nat /\ DOMAIN one = 1..Len(one)
    BY <1>7
  <1>9. IsFieldEdit(two, one, "timezone_offset_min", Offset, TRUE)
    BY <1>8, ReplacedField
  <1>. HIDE DEF two
  <1>10. two \in Seq(U) /\ SameTags(two, one)
    BY <1>7, <1>9, FieldEditKeeps
  <1>11. DoneBare(one) \/ DoneWithin(one)
    BY <1>3, <1>5, <1>7, SameTagsDone
  <1>12. DoneBare(two) \/ DoneWithin(two)
    BY <1>8, <1>10, <1>11, SameTagsDone
  <1>13. RewriteEnvironment(two) = two
    BY <1>10, <1>12, DoneIsStable
  <1>14. FieldDone(one, "timezone", Zone, FALSE)
    BY <1>5, <1>6, FieldEditSettles
  <1>15. FieldDone(two, "timezone", Zone, FALSE)
    <2>1. "timezone" # "timezone_offset_min"
      OBVIOUS
    <2>. QED  BY <1>8, <1>9, <1>14, <2>1, FieldEditKeepsDone
  <1>16. FieldDone(two, "timezone_offset_min", Offset, TRUE)
    BY <1>8, <1>9, FieldEditSettles
  <1>17. ReplaceJSONField(two, "timezone", Zone, FALSE) = two
    BY <1>10, <1>15, FieldDoneIsStable
  <1>18. ReplaceJSONField(two, "timezone_offset_min", Offset, TRUE) = two
    BY <1>10, <1>16, FieldDoneIsStable
  <1>. QED  BY <1>4, <1>13, <1>17, <1>18 DEF Rewrite

\* Without an opening tag nothing is rewritten but fields.
LEMMA NoTagNoRewrite ==
    ASSUME NEW U, NEW s \in Seq(U), Text(Zone) \in U, Text(Today) \in U, Dialects \in Seq(STRING),
           \A i \in 1..Len(s) : \A d, name : s[i] # Open(d, name)
    PROVE  RewriteEnvironment(s) = s
  <1>1. \A d, name : NoneIn(s, 1, Len(s), d, name)
    BY DEF NoneIn
  <1>2. ASSUME NEW d, NEW name, NEW p, NEW q PROVE ~FirstIn(s, 1, Len(s), d, name, p, q)
    <2>1. FirstIn(s, 1, Len(s), d, name, p, q) => p \in 1..Len(s) /\ s[p] = Open(d, name)
      BY DEF FirstIn
    <2>. QED  BY <2>1
  <1>3. DoneBare(s)
    BY <1>1, <1>2 DEF DoneBare, Done, Settled
  <1>. QED  BY <1>3, DoneIsStable

\* A value behind a key of the name that is edited.
IsEdited(out, s, j, name, numericOK) ==
    j > 1 /\ s[j - 1] = Key(name) /\ Holds(s[j], numericOK) /\ Value(s[j]) /\ Value(out[j])

\* An edit of a field leaves every token but the value behind a key of that name.
LEMMA FieldEditMeans ==
    ASSUME NEW s, Len(s) \in Nat, DOMAIN s = 1..Len(s), NEW name, NEW value, NEW numericOK, NEW out,
           IsFieldEdit(out, s, name, value, numericOK)
    PROVE  /\ Len(out) = Len(s) /\ DOMAIN out = 1..Len(s)
           /\ \A j \in 1..Len(s) : out[j] = s[j] \/ IsEdited(out, s, j, name, numericOK)
  <1>1. CASE out = s
    BY <1>1
  <1>2. ASSUME NEW i \in 1..Len(s), FirstField(s, i, name, numericOK), out = Edited(s, i, value)
        PROVE  /\ Len(out) = Len(s) /\ DOMAIN out = 1..Len(s)
               /\ \A j \in 1..Len(s) : out[j] = s[j] \/ IsEdited(out, s, j, name, numericOK)
    <2>1. /\ i + 1 \in 1..Len(s) /\ Len(out) = Len(s) /\ DOMAIN out = 1..Len(s)
          /\ out[i + 1] = <<s[i + 1][1], value>> /\ Value(s[i + 1]) /\ Value(out[i + 1])
          /\ \A j \in 1..Len(s) : j # i + 1 => out[j] = s[j]
      BY <1>2, EditedMeans
    <2>2. s[i] = Key(name) /\ Holds(s[i + 1], numericOK)
      BY <1>2 DEF FirstField
    <2>3. (i + 1) - 1 = i /\ i + 1 > 1
      OBVIOUS
    <2>4. IsEdited(out, s, i + 1, name, numericOK)
      BY <2>1, <2>2, <2>3 DEF IsEdited
    <2>. QED  BY <2>1, <2>4
  <1>. QED  BY <1>1, <1>2 DEF IsFieldEdit

\* In a body without tags only values of fields are edited.
LEMMA EditedFields ==
    ASSUME NEW U, NEW s \in Seq(U), \A i \in DOMAIN s : s[i][1] \notin {"open", "close"},
           Text(Zone) \in U, Text(Today) \in U, Dialects \in Seq(STRING)
    PROVE  OnlyFieldsAreEdited(s)
  <1>. DEFINE env == RewriteEnvironment(s)
              one == ReplaceJSONField(env, "timezone", Zone, FALSE)
              two == ReplaceJSONField(one, "timezone_offset_min", Offset, TRUE)
              out == Rewrite(s)
              zone(v) == v[1] = "string" /\ v[2] \in ZoneLike
              field(i) ==
                  \/ s[i - 1] = Key("timezone") /\ zone(s[i])
                  \/ s[i - 1] = Key("timezone_offset_min") /\ (zone(s[i]) \/ s[i][1] = "number")
  <1>1. Len(s) \in Nat /\ DOMAIN s = 1..Len(s)
    OBVIOUS
  <1>2. env = s
    <2>1. \A i \in 1..Len(s) : \A d, name : s[i] # Open(d, name)
      BY <1>1 DEF Open
    <2>. QED  BY <1>1, <2>1, NoTagNoRewrite
  <1>3. IsFieldEdit(one, s, "timezone", Zone, FALSE)
    BY <1>1, <1>2, ReplacedField
  <1>4. out = s \/ out = two
    BY DEF Rewrite
  <1>. HIDE DEF env, one
  <1>5. /\ Len(one) = Len(s) /\ DOMAIN one = 1..Len(s)
        /\ \A j \in 1..Len(s) : one[j] = s[j] \/ IsEdited(one, s, j, "timezone", FALSE)
    BY <1>1, <1>3, FieldEditMeans
  <1>6. Len(one) \in Nat /\ DOMAIN one = 1..Len(one)
    BY <1>1, <1>5
  <1>7. IsFieldEdit(two, one, "timezone_offset_min", Offset, TRUE)
    BY <1>6, ReplacedField
  <1>. HIDE DEF two
  <1>8. /\ Len(two) = Len(one) /\ DOMAIN two = 1..Len(one)
        /\ \A j \in 1..Len(one) : two[j] = one[j] \/ IsEdited(two, one, j, "timezone_offset_min", TRUE)
    BY <1>6, <1>7, FieldEditMeans
  <1>9. ASSUME NEW j \in 1..Len(s) PROVE two[j] = s[j] \/ (j > 1 /\ field(j))
    <2>1. ASSUME IsEdited(one, s, j, "timezone", FALSE) PROVE j > 1 /\ field(j)
      BY <2>1 DEF IsEdited, Holds
    <2>2. ASSUME IsEdited(two, one, j, "timezone_offset_min", TRUE) PROVE j > 1 /\ field(j)
      <3>1. j > 1 /\ one[j - 1] = Key("timezone_offset_min") /\ (zone(one[j]) \/ one[j][1] = "number")
        BY <2>2 DEF IsEdited, Holds
      <3>2. j - 1 \in 1..Len(s)
        BY <1>1, <3>1
      <3>3. s[j - 1] = Key("timezone_offset_min")
        <4>1. one[j - 1] = s[j - 1] \/ IsEdited(one, s, j - 1, "timezone", FALSE)
          BY <1>5, <3>2
        <4>2. ~Value(one[j - 1])
          BY <3>1 DEF Value, Key
        <4>. QED  BY <3>1, <4>1, <4>2 DEF IsEdited
      <3>4. one[j] = s[j]
        <4>1. ~IsEdited(one, s, j, "timezone", FALSE)
          BY <3>3 DEF IsEdited, Key
        <4>. QED  BY <1>5, <4>1
      <3>. QED  BY <3>1, <3>3, <3>4
    <2>. HIDE DEF field, zone
    <2>. QED  BY <1>5, <1>8, <2>1, <2>2
  <1>10. Len(out) = Len(s) /\ \A i \in 1..Len(s) : out[i] = s[i] \/ (i > 1 /\ field(i))
    <2>. HIDE DEF field, zone, out
    <2>. QED  BY <1>4, <1>5, <1>8, <1>9
  <1>. QED  BY <1>1, <1>10 DEF OnlyFieldsAreEdited

\* In any body only what it declares is edited.
LEMMA OnlyDeclarationsAreEdited ==
    ASSUME NEW U, NEW s \in Seq(U), Text(Zone) \in U, Text(Today) \in U, Dialects \in Seq(STRING)
    PROVE  OnlyDeclarations(s)
  <1>1. OutsideIsKept(s)
    BY OutsideKept
  <1>2. OnlyFieldsAreEdited(s)
    <2>1. CASE \A i \in DOMAIN s : s[i][1] \notin {"open", "close"}
      BY <2>1, EditedFields
    <2>2. CASE ~\A i \in DOMAIN s : s[i][1] \notin {"open", "close"}
      BY <2>2 DEF OnlyFieldsAreEdited
    <2>. QED  BY <2>1, <2>2
  <1>. QED  BY <1>1, <1>2 DEF OnlyDeclarations

\* What is put into a body is made of tokens.
LEMMA ZoneIsAToken ==
    /\ Text(Zone) \in Token /\ Text(Today) \in Token /\ Dialects \in Seq(STRING)
    /\ \A k \in {"string", "number"} : <<k, Zone>> \in Token /\ <<k, Offset>> \in Token
  BY TimezoneAssumption DEF Text, Token

\* Whatever the body, a second rewrite finds nothing to do (RewritesAreStable).
THEOREM AnyRewriteIsStable ==
    ASSUME input.rule = "timezone" => input \in TimezoneInputs
    PROVE  RewritesAreStable
  <1>. SUFFICES ASSUME input.body \in Seq(Token)
                PROVE  RewriteIsStable(input.body)
    BY DEF RewritesAreStable, TimezoneInputs
  <1>. QED  BY ZoneIsAToken, StableRewrite

\* Whatever the body, only what the environment context declares is edited, or
\* the fields that hold a zone or an offset (DeclarationsAreTheLimit).
THEOREM AnyLimitIsKept ==
    ASSUME input.rule = "timezone" => input \in TimezoneInputs
    PROVE  DeclarationsAreTheLimit
  <1>. SUFFICES ASSUME input.body \in Seq(Token)
                PROVE  OnlyDeclarations(input.body)
    BY DEF DeclarationsAreTheLimit, TimezoneInputs
  <1>. QED  BY ZoneIsAToken, OnlyDeclarationsAreEdited
=============================================================================
