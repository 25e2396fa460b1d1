------------------------ MODULE AccountRegistryProofs ------------------------
(***************************************************************************)
(* What the account registry guarantees for any number of accounts and of  *)
(* concurrent syncs: an account that is no longer tracked is explained.    *)
(*                                                                         *)
(* The explanation is the sync that still has the account to drop, so the  *)
(* invariant adds that a sync which is about to take a new list, or names  *)
(* its next account, has nothing left from the last one to forget.         *)
(*                                                                         *)
(* Then: of what upstream says of the budget (Verdict), time only heals.   *)
(***************************************************************************)
EXTENDS AccountRegistry, Verdict, TLAPS

\* A sync holds accounts to drop only while it drops, and one by one.
SyncsAreTidy ==
    \A s \in Syncs :
        /\ phase[s] \in {"idle", "fetched", "answering"} => gone[s] = {}
        /\ phase[s] \notin {"erasing", "unbinding"} => victim[s] = NoAccount

OrphanInv == TypeOK /\ SyncsAreTidy /\ OrphansAreExplained

-----------------------------------------------------------------------------
\* Every variable keeps its type: above all, what is written off as left over
\* is bound and untracked.
THEOREM TypeCorrect == Spec => []TypeOK
  <1>1. Init => TypeOK
    BY DEF Init, TypeOK, Phases, Consents
  <1>2. TypeOK /\ [Next]_vars => TypeOK'
    <2> SUFFICES ASSUME TypeOK, [Next]_vars PROVE TypeOK'
      OBVIOUS
    <2> USE DEF TypeOK, sync, armed, bindings
    <2>1. ASSUME NEW s \in Syncs, SyncStep(s) PROVE TypeOK'
      <3> USE DEF Phases, Continue
      <3>1. CASE Fetch(s)
        BY <3>1 DEF Fetch
      <3>2. CASE Adopt(s)
        <4>1. consent' \in [Switched -> Consents]
          BY <3>2 DEF Adopt, Relisted, Consents
        <4>. QED  BY <3>2, <4>1 DEF Adopt, View, Missing
      <3>3. ASSUME NEW a \in Accounts, Forget(s, a) PROVE TypeOK'
        BY <3>3 DEF Forget
      <3>4. CASE Erase(s) \/ EraseFails(s) \/ Answer(s)
        BY <3>4 DEF Erase, EraseFails, Answer
      <3>5. CASE Unbind(s)
        BY <3>5 DEF Unbind, NextVictim
      <3>6. CASE UnbindFails(s)
        BY <3>6 DEF UnbindFails, NextVictim
      <3>. QED  BY <2>1, <3>1, <3>2, <3>3, <3>4, <3>5, <3>6 DEF SyncStep
    <2>2. ASSUME NEW a \in Switched, NEW on \in BOOLEAN,
                 SaveToggle(a, on) \/ ApplyToggle(a, on)
          PROVE  TypeOK'
      <3>1. a \in Accounts
        BY SwitchedAssumption
      <3>2. consent' \in [Switched -> Consents]
        BY <2>2 DEF SaveToggle, ApplyToggle, Asked, Consents
      <3>. QED  BY <2>2, <3>1, <3>2 DEF SaveToggle, ApplyToggle, With
    <2>3. ASSUME NEW a \in Accounts,
                 StartWork(a) \/ Bind(a) \/ Miss(a) \/ HostChanges(a)
          PROVE  TypeOK'
      BY <2>3 DEF StartWork, Bind, Miss, HostChanges, With
    <2>4. CASE Restart
      BY <2>4 DEF Restart, Phases
    <2>5. CASE UNCHANGED vars
      BY <2>5 DEF vars
    <2>. QED  BY <2>1, <2>2, <2>3, <2>4, <2>5 DEF Next
  <1>. QED  BY <1>1, <1>2, PTL DEF Spec

-----------------------------------------------------------------------------
\* Between two lists a sync has dropped all it had to drop.
LEMMA TidyStep ==
    ASSUME TypeOK, SyncsAreTidy, [Next]_vars
    PROVE  SyncsAreTidy'
  <1> USE DEF SyncsAreTidy, TypeOK, Phases, sync, Continue
  <1>1. ASSUME NEW s \in Syncs, SyncStep(s) PROVE SyncsAreTidy'
    <2>1. CASE Fetch(s) \/ Erase(s) \/ EraseFails(s) \/ Answer(s)
      BY <2>1 DEF Fetch, Erase, EraseFails, Answer
    <2>2. CASE Adopt(s)
      BY <2>2 DEF Adopt
    <2>3. ASSUME NEW a \in Accounts, Forget(s, a) PROVE SyncsAreTidy'
      BY <2>3 DEF Forget
    <2>4. CASE Unbind(s) \/ UnbindFails(s)
      BY <2>4 DEF Unbind, UnbindFails, NextVictim
    <2>. QED  BY <1>1, <2>1, <2>2, <2>3, <2>4 DEF SyncStep
  <1>2. ASSUME NEW a \in Accounts, NEW on \in BOOLEAN,
               SaveToggle(a, on) \/ ApplyToggle(a, on)
        PROVE  SyncsAreTidy'
    BY <1>2 DEF SaveToggle, ApplyToggle
  <1>3. ASSUME NEW a \in Accounts,
               StartWork(a) \/ Bind(a) \/ Miss(a) \/ HostChanges(a)
        PROVE  SyncsAreTidy'
    BY <1>3 DEF StartWork, Bind, Miss, HostChanges
  <1>4. CASE Restart
    BY <1>4 DEF Restart
  <1>5. CASE UNCHANGED vars
    BY <1>5 DEF vars
  <1>. QED  BY <1>1, <1>2, <1>3, <1>4, <1>5, SwitchedAssumption DEF Next

\* A step of a sync keeps every orphan explained: whoever loses an account
\* from the view takes it over to drop.
LEMMA SyncKeepsOrphansExplained ==
    ASSUME OrphanInv, TypeOK', NEW s \in Syncs, SyncStep(s)
    PROVE  OrphansAreExplained'
  <1> USE DEF OrphanInv, OrphansAreExplained, BeingDropped, TypeOK
  <1>1. CASE Fetch(s) \/ Erase(s) \/ EraseFails(s) \/ Answer(s)
    BY <1>1 DEF Fetch, Erase, EraseFails, Answer, armed, bindings
  <1>2. CASE Adopt(s)
    <2> SUFFICES ASSUME NEW a \in bound, a \notin list[s]
                 PROVE  BeingDropped(a)' \/ a \in leftover'
      BY <1>2 DEF Adopt, View
    <2>1. CASE a \in accounts
      BY <1>2, <2>1 DEF Adopt, Missing
    <2>2. CASE a \notin accounts /\ a \in leftover
      BY <1>2, <2>2 DEF Adopt, View
    <2>3. CASE a \notin accounts /\ BeingDropped(a)
      <3>1. PICK t \in Syncs : a \in gone[t] \/ victim[t] = a
        BY <2>3
      <3>2. t # s
        <4>1. gone[s] = {} /\ victim[s] = NoAccount
          BY <1>2 DEF Adopt, SyncsAreTidy
        <4>. QED  BY <3>1, <4>1, NoAccountAssumption
      <3>. QED  BY <1>2, <3>1, <3>2 DEF Adopt
    <2>. QED  BY <2>1, <2>2, <2>3
  <1>3. ASSUME NEW b \in Accounts, Forget(s, b) PROVE OrphansAreExplained'
    <2> SUFFICES ASSUME NEW a \in bound, a \notin accounts \ {b}
                 PROVE  BeingDropped(a)' \/ a \in leftover'
      BY <1>3 DEF Forget, bindings
    <2>1. victim[s] = NoAccount
      BY <1>3 DEF Forget, SyncsAreTidy
    <2>. QED  BY <1>3, <2>1, NoAccountAssumption DEF Forget, bindings
  <1>4. CASE Unbind(s)
    BY <1>4 DEF Unbind, NextVictim, armed
  <1>5. CASE UnbindFails(s)
    BY <1>5 DEF UnbindFails, NextVictim, armed
  <1>. QED  BY <1>1, <1>2, <1>3, <1>4, <1>5 DEF SyncStep

\* An account that is no longer tracked keeps a binding only because a sync is
\* about to drop it, a response came too late, a drop failed or the process was
\* restarted.
THEOREM OrphansHaveAReason == Spec => []OrphansAreExplained
  <1>1. Init => SyncsAreTidy /\ OrphansAreExplained
    BY DEF Init, SyncsAreTidy, OrphansAreExplained
  <1>2. OrphanInv /\ TypeOK' /\ [Next]_vars => SyncsAreTidy' /\ OrphansAreExplained'
    <2> SUFFICES ASSUME OrphanInv, TypeOK', [Next]_vars PROVE OrphansAreExplained'
      BY TidyStep DEF OrphanInv
    <2> USE DEF OrphanInv, OrphansAreExplained, BeingDropped, TypeOK, sync
    <2>1. ASSUME NEW s \in Syncs, SyncStep(s) PROVE OrphansAreExplained'
      BY <2>1, SyncKeepsOrphansExplained
    <2>2. ASSUME NEW a \in Switched, NEW on \in BOOLEAN,
                 SaveToggle(a, on) \/ ApplyToggle(a, on)
          PROVE  OrphansAreExplained'
      BY <2>2 DEF SaveToggle, ApplyToggle, bindings
    <2>3. ASSUME NEW a \in Accounts,
                 StartWork(a) \/ Bind(a) \/ Miss(a) \/ HostChanges(a)
          PROVE  OrphansAreExplained'
      BY <2>3 DEF StartWork, Bind, Miss, HostChanges, bindings
    <2>4. CASE Restart
      BY <2>4 DEF Restart
    <2>5. CASE UNCHANGED vars
      BY <2>5 DEF vars
    <2>. QED  BY <2>1, <2>2, <2>3, <2>4, <2>5 DEF Next
  <1>. QED  BY TypeCorrect, <1>1, <1>2, PTL DEF Spec, OrphanInv

-----------------------------------------------------------------------------
(* The verdict on an account, whatever the host and upstream say of it *)

\* The windows that are spent, and the deadlines of an account that is out of quota.
SpentUntil(a) == {w.reset : w \in {v \in {a.quota.primary, a.quota.secondary} : v.used >= 100}}
QuotaUntil(a) == SpentUntil(a) \cup (IF a.message \cap quotaMarkers = {} THEN {} ELSE {a.retry})

\* Of two resets one is the last.
LEMMA LastReset ==
    ASSUME NEW x \in Int, NEW y \in Int, NEW S, S \subseteq {x, y}, S # {}
    PROVE  \E t \in S : \A u \in S : u <= t
  <1>1. CASE x \in S /\ (y \in S => y <= x)
    <2>1. \A u \in S : u <= x
      BY <1>1
    <2>. QED  BY <1>1, <2>1
  <1>2. CASE y \in S /\ (x \in S => x <= y)
    <2>1. \A u \in S : u <= y
      BY <1>2
    <2>. QED  BY <1>2, <2>1
  <1>3. \/ x \in S /\ (y \in S => y <= x)
        \/ y \in S /\ (x \in S => x <= y)
    <2>1. x \in S \/ y \in S
      OBVIOUS
    <2>2. x <= y \/ y <= x
      OBVIOUS
    <2>. QED  BY <2>1, <2>2
  <1>. QED  BY <1>1, <1>2, <1>3

\* A budget is exhausted as long as one of its spent windows has not been reset.
LEMMA ExhaustedMeans ==
    ASSUME NEW a \in HostAccount, NEW now \in Nat
    PROVE  ExhaustedUntil(a.quota, now) > now <=> \E t \in SpentUntil(a) : now < t
  <1>. DEFINE x == a.quota.primary.reset
              y == a.quota.secondary.reset
              resets == {w.reset : w \in {v \in {a.quota.primary, a.quota.secondary} :
                                             v.used >= 100 /\ v.reset > now}}
  <1>1. x \in Int /\ y \in Int
    BY DEF HostAccount, Signals, Budget
  <1>2. resets = {t \in SpentUntil(a) : t > now} /\ resets \subseteq {x, y}
    BY DEF SpentUntil
  <1>3. ExhaustedUntil(a.quota, now) =
          IF resets = {} THEN Never ELSE CHOOSE t \in resets : \A u \in resets : u <= t
    BY DEF ExhaustedUntil
  <1>4. ~(Never > now)
    BY DEF Never, Absent
  <1>. HIDE DEF x, y, resets
  <1>5. CASE resets = {}
    BY <1>2, <1>3, <1>4, <1>5
  <1>6. CASE resets # {}
    <2>1. ExhaustedUntil(a.quota, now) \in resets
      BY <1>1, <1>2, <1>3, <1>6, LastReset
    <2>. QED  BY <1>2, <2>1
  <1>. QED  BY <1>5, <1>6

\* An account is out of quota exactly until the last of its deadlines.
LEMMA OutOfQuotaMeans ==
    ASSUME NEW a \in HostAccount, NEW now \in Nat
    PROVE  OutOfQuota(a, now) <=> \E t \in QuotaUntil(a) : now < t
  BY ExhaustedMeans DEF OutOfQuota, QuotaUntil

\* An account that is out of quota is probed again when its deadlines have passed, and
\* time alone blocks none.
THEOREM QuotaEndsInTime ==
    ASSUME NEW a \in HostAccount, NEW now \in Nat
    PROVE  TimeHeals(a, now)
  <1>. SUFFICES ASSUME NEW later \in now..now + 10
                PROVE  /\ Judge(a, TRUE, now) = "quota" =>
                            (Blocked(a, TRUE, later) <=> \E t \in QuotaUntil(a) : later < t)
                       /\ Blocked(a, TRUE, later) => Blocked(a, TRUE, now)
                       /\ Judge(a, TRUE, now) \in {"ok", "stale"} =>
                            Judge(a, TRUE, later) = Judge(a, TRUE, now)
    BY DEF TimeHeals, QuotaUntil, SpentUntil
  <1>1. later \in Nat /\ now <= later
    OBVIOUS
  <1>2. QuotaUntil(a) \subseteq Int
    BY DEF QuotaUntil, SpentUntil, HostAccount, Signals, Budget
  <1>3. /\ OutOfQuota(a, now) <=> \E t \in QuotaUntil(a) : now < t
        /\ OutOfQuota(a, later) <=> \E t \in QuotaUntil(a) : later < t
    BY <1>1, OutOfQuotaMeans
  <1>4. OutOfQuota(a, later) => OutOfQuota(a, now)
    BY <1>1, <1>2, <1>3
  <1>5. CoolingDown(a, later) => CoolingDown(a, now)
    <2>1. a.retry \in Int
      BY DEF HostAccount
    <2>. QED  BY <1>1, <2>1 DEF CoolingDown
  <1>6. a.status \in {"active", "disabled", "pending", "refreshing", "error"}
    BY DEF HostAccount, Statuses
  <1>7. Flagged(a) \/ ~CoolingDown(a, now)
    BY DEF CoolingDown
  <1>8. /\ Judge(a, TRUE, now) = "quota" =>
             (Blocked(a, TRUE, later) <=> OutOfQuota(a, later))
        /\ Blocked(a, TRUE, later) => Blocked(a, TRUE, now)
        /\ Judge(a, TRUE, now) \in {"ok", "stale"} =>
             Judge(a, TRUE, later) = Judge(a, TRUE, now)
    BY <1>4, <1>5, <1>6, <1>7 DEF Judge, Blocked, blockedKinds
  <1>. QED  BY <1>3, <1>8
\* What is made of the headers of a response is as they are: each field has its type.
LEMMA ParsedType ==
    ASSUME NEW h \in Signals
    PROVE  ParseSignals(h) \in Signals
  <1>1. ASSUME NEW x \in Int PROVE Percent(x) \in Int /\ Timestamp(x) \in Int
    <2>1. (x + 5) \div 10 \in Int /\ x \div 1000 \in Int
      OBVIOUS
    <2>. QED  BY <2>1 DEF Percent, Timestamp, Absent
  <1>2. ASSUME NEW w \in Budget PROVE [used |-> Percent(w.used), reset |-> Timestamp(w.reset)] \in Budget
    BY <1>1 DEF Budget
  <1>3. h.primary \in Budget /\ h.secondary \in Budget /\ h.plan \in STRING /\ h.credits \in BOOLEAN
    BY DEF Signals
  <1>. QED  BY <1>2, <1>3 DEF ParseSignals, Signals

\* Recording signals leaves an account an account.
LEMMA RecordedType ==
    ASSUME NEW a \in HostAccount, NEW s \in Signals
    PROVE  RecordSignals(a, s) \in HostAccount
  BY DEF RecordSignals, HostAccount, Signals

\* Whatever the host says of an account and upstream beside its last response, it
\* is out of quota until its deadlines, and time alone blocks no account
\* (TimeOnlyHeals).
THEOREM OnlyTimeIsNeeded ==
    ASSUME input.rule = "verdict" => input \in VerdictInputs
    PROVE  TimeOnlyHeals
  <1>. SUFFICES ASSUME input.rule = "verdict", input \in VerdictInputs
                PROVE  TimeHeals(RecordSignals(input.account, ParseSignals(input.header)), input.now)
    BY DEF TimeOnlyHeals
  <1>1. input.account \in HostAccount /\ input.header \in Signals /\ input.now \in Nat
    BY DEF VerdictInputs
  <1>2. RecordSignals(input.account, ParseSignals(input.header)) \in HostAccount
    BY <1>1, ParsedType, RecordedType
  <1>. QED  BY <1>1, <1>2, QuotaEndsInTime
=============================================================================
