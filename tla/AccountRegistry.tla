--------------------------- MODULE AccountRegistry ---------------------------
(***************************************************************************)
(* The account registry (internal/accounts/registry.go), its toggle table  *)
(* (internal/storage/window_store.go, model_list_store.go), the hook that  *)
(* drops the bindings of a removed account (internal/app/app.go) and       *)
(* DeleteAccount of the binding registry.                                  *)
(*                                                                         *)
(* Syncs run concurrently: the scan loop, the goroutine Start launches and *)
(* the Management API each fetch the host's list without a lock, adopt it  *)
(* under the lock, and drop the accounts that were missing from it one by  *)
(* one, in three steps each.  Accounts do not differ by model here: an     *)
(* account is bound, or armed for probing, or neither.                     *)
(***************************************************************************)
EXTENDS Naturals, FiniteSets

CONSTANTS Accounts,  \* auth indexes
          Switched,  \* those whose probe toggle the operator uses
          Syncs,     \* the concurrent callers of Sync and SyncAccount
          NoAccount

ASSUME SwitchedAssumption == Switched \subseteq Accounts
ASSUME NoAccountAssumption == NoAccount \notin Accounts

VARIABLES host,      \* the accounts CPA lists
          accounts,  \* Registry.byIndex
          toggles,   \* Registry.configs: accounts with probing switched on
          saved,     \* table account_model_config
          bound,     \* accounts that hold a binding
          pending,   \* SetProbeEnabled calls between their two writes
          busy,      \* accounts with a request or a probe in flight
          phase,     \* what each sync is doing
          list,      \* the list it has fetched
          gone,      \* the accounts it has still to drop
          victim,    \* the account it is dropping
          leftover,  \* history: bindings that no drop will reach
          consent    \* history: "asked" once an operator has armed the
                     \* account, "listed" when a list named it since then,
                     \* "none" again when a later list did not

vars == <<host, accounts, toggles, saved, bound, pending, busy, phase,
          list, gone, victim, leftover, consent>>

sync == <<phase, list, gone, victim>>
armed == <<toggles, saved, pending, consent>>
bindings == <<bound, leftover, busy>>

Consents == {"none", "asked", "listed"}

Phases == {"idle", "fetched", "dropping", "erasing", "unbinding", "answering"}

Init ==
    /\ host \in SUBSET Accounts
    /\ accounts = {}
    /\ toggles = {} /\ saved = {} /\ pending = {}
    /\ consent = [a \in Switched |-> "none"]
    /\ bound = {} /\ busy = {} /\ leftover = {}
    /\ phase = [s \in Syncs |-> "idle"]
    /\ list = [s \in Syncs |-> {}]
    /\ gone = [s \in Syncs |-> {}]
    /\ victim = [s \in Syncs |-> NoAccount]

-----------------------------------------------------------------------------
(* A sync *)

\* The host answers, for Sync or for SyncAccount.  When it does not, nothing
\* happens at all.
Fetch(s) ==
    /\ phase[s] = "idle"
    /\ phase' = [phase EXCEPT ![s] = "fetched"]
    /\ list' = [list EXCEPT ![s] = host]
    /\ UNCHANGED <<host, accounts, armed, bindings, gone, victim>>

\* Mutant of Missing: the accounts are taken over but none is found gone.
MissingNone(s) == {}

\* The tracked accounts the list does not name.
Missing(s) == accounts \ list[s]

\* Mutant of Continue: the loop does not end.
ContinueDropping(s, rest) == "dropping"

\* What comes after the current account: the next one, or the answer.
Continue(s, rest) == IF rest # {} THEN "dropping" ELSE "answering"

\* Mutant of View: nothing to drop is taken for nothing to do.
ViewWhenMissing(s) == IF Missing(s) = {} THEN accounts ELSE list[s]

\* What adopt makes of the view.
View(s) == list[s]

Relisted(a, L) ==
    CASE a \in L /\ consent[a] = "asked" -> "listed"
      [] a \notin L /\ consent[a] = "listed" -> "none"
      [] OTHER -> consent[a]

\* The first half of adopt: the list becomes the view.
Adopt(s) ==
    /\ phase[s] = "fetched"
    /\ accounts' = View(s)
    /\ gone' = [gone EXCEPT ![s] = Missing(s)]
    /\ phase' = [phase EXCEPT ![s] = Continue(s, Missing(s))]
    /\ leftover' = leftover \ accounts'
    /\ consent' = [a \in Switched |-> Relisted(a, list[s])]
    /\ UNCHANGED <<host, toggles, saved, pending, bound, busy, list, victim>>

\* dropAccount's critical section forgets the account, tracked again or not.
Forget(s, a) ==
    /\ phase[s] = "dropping" /\ a \in gone[s]
    /\ accounts' = accounts \ {a}
    /\ toggles' = toggles \ {a}
    /\ gone' = [gone EXCEPT ![s] = @ \ {a}]
    /\ victim' = [victim EXCEPT ![s] = a]
    /\ phase' = [phase EXCEPT ![s] = "erasing"]
    /\ UNCHANGED <<host, saved, pending, consent, bindings, list>>

\* DeleteModelList erases the account's rows ...
Erase(s) ==
    /\ phase[s] = "erasing"
    /\ saved' = saved \ {victim[s]}
    /\ phase' = [phase EXCEPT ![s] = "unbinding"]
    /\ UNCHANGED <<host, accounts, toggles, pending, consent, bindings, list, gone, victim>>

\* ... or fails, which is only logged.
EraseFails(s) ==
    /\ phase[s] = "erasing"
    /\ phase' = [phase EXCEPT ![s] = "unbinding"]
    /\ UNCHANGED <<host, accounts, armed, bindings, list, gone, victim>>

NextVictim(s) ==
    /\ victim' = [victim EXCEPT ![s] = NoAccount]
    /\ phase' = [phase EXCEPT ![s] = Continue(s, gone[s])]

\* The removal hook: DeleteAccount drops the bindings ...
Unbind(s) ==
    /\ phase[s] = "unbinding"
    /\ bound' = bound \ {victim[s]}
    /\ leftover' = leftover \ {victim[s]}
    /\ NextVictim(s)
    /\ UNCHANGED <<host, accounts, armed, busy, list, gone>>

\* ... or stops at an error, which is only logged.
UnbindFails(s) ==
    /\ phase[s] = "unbinding"
    /\ leftover' = leftover \cup ((bound \cap {victim[s]}) \ accounts)
    /\ NextVictim(s)
    /\ UNCHANGED <<host, accounts, armed, bound, busy, list, gone>>

\* The accounts SyncAccount reports as listed: those tracked by now.
Reported(s) == accounts

\* Sync returns, or SyncAccount looks up the account it was asked for.
Answer(s) ==
    /\ phase[s] = "answering"
    /\ phase' = [phase EXCEPT ![s] = "idle"]
    /\ list' = [list EXCEPT ![s] = {}]
    /\ UNCHANGED <<host, accounts, armed, bindings, gone, victim>>

-----------------------------------------------------------------------------
(* The operator, probes and traffic, the host, the process *)

With(S, a, on) == IF on THEN S \cup {a} ELSE S \ {a}

\* An operator who arms an account asks for it, tracked or not.
Asked(a, on) ==
    IF ~on THEN consent
    ELSE [consent EXCEPT ![a] = IF a \in accounts THEN "listed" ELSE "asked"]

\* SetProbeEnabled writes the table, whether or not the account is tracked ...
SaveToggle(a, on) ==
    /\ saved' = With(saved, a, on)
    /\ pending' = pending \cup {<<a, on>>}
    /\ consent' = Asked(a, on)
    /\ UNCHANGED <<host, accounts, toggles, bindings, sync>>

\* ... then the memory.
ApplyToggle(a, on) ==
    /\ <<a, on>> \in pending
    /\ pending' = pending \ {<<a, on>>}
    /\ toggles' = With(toggles, a, on)
    /\ consent' = Asked(a, on)
    /\ UNCHANGED <<host, accounts, saved, bindings, sync>>

\* EnabledPairs: a pair of an account that is not tracked is not probed.
Enabled(a) == a \in accounts \cap toggles

\* The host serves a request through the account, or a scan probes it.
StartWork(a) ==
    /\ a \in host \/ Enabled(a)
    /\ busy' = busy \cup {a}
    /\ UNCHANGED <<host, accounts, armed, bound, leftover, sync>>

\* Its response yields a binding.  Nothing asks whether the account is tracked.
Bind(a) ==
    /\ a \in busy
    /\ bound' = bound \cup {a}
    /\ leftover' = leftover \cup ({a} \ accounts)
    /\ busy' = busy \ {a}
    /\ UNCHANGED <<host, accounts, armed, sync>>

\* It yields none.
Miss(a) ==
    /\ a \in busy
    /\ busy' = busy \ {a}
    /\ UNCHANGED <<host, accounts, armed, bound, leftover, sync>>

\* The operator adds or removes the account in CPA.
HostChanges(a) ==
    /\ host' = With(host, a, a \notin host)
    /\ UNCHANGED <<accounts, armed, bindings, sync>>

\* The process stops and comes back: Load restores the toggles, the binding
\* registry its bindings; the account list starts empty.
Restart ==
    /\ accounts' = {}
    /\ toggles' = saved
    /\ pending' = {} /\ busy' = {}
    /\ leftover' = bound
    /\ phase' = [s \in Syncs |-> "idle"]
    /\ list' = [s \in Syncs |-> {}]
    /\ gone' = [s \in Syncs |-> {}]
    /\ victim' = [s \in Syncs |-> NoAccount]
    /\ UNCHANGED <<host, saved, bound, consent>>

SyncStep(s) ==
    \/ Fetch(s) \/ Adopt(s)
    \/ \E a \in Accounts : Forget(s, a)
    \/ Erase(s) \/ EraseFails(s) \/ Unbind(s) \/ UnbindFails(s) \/ Answer(s)

Next ==
    \/ \E s \in Syncs : SyncStep(s)
    \/ \E a \in Switched, on \in BOOLEAN : SaveToggle(a, on) \/ ApplyToggle(a, on)
    \/ \E a \in Accounts : StartWork(a) \/ Bind(a) \/ Miss(a) \/ HostChanges(a)
    \/ Restart

Spec == Init /\ [][Next]_vars

\* The scan loop syncs at its interval whatever the switches say; a sync that
\* has begun runs to its end; the process is not restarted for ever.
FairSpec ==
    /\ Spec
    /\ WF_vars(\E s \in Syncs : Fetch(s))
    /\ \A s \in Syncs : WF_vars(phase[s] # "idle" /\ SyncStep(s))
    /\ <>[][~Restart]_vars

-----------------------------------------------------------------------------
(* Properties *)

\* Every variable has its type, and a sync that is dropping has what to drop.
TypeOK ==
    /\ host \subseteq Accounts /\ accounts \subseteq Accounts
    /\ toggles \subseteq Accounts /\ saved \subseteq Accounts
    /\ consent \in [Switched -> Consents]
    /\ pending \subseteq Accounts \X BOOLEAN
    /\ bound \subseteq Accounts /\ busy \subseteq Accounts
    /\ leftover \subseteq bound \ accounts
    /\ phase \in [Syncs -> Phases]
    /\ list \in [Syncs -> SUBSET Accounts]
    /\ gone \in [Syncs -> SUBSET Accounts]
    /\ victim \in [Syncs -> Accounts \cup {NoAccount}]
    /\ \A s \in Syncs : phase[s] = "dropping" => gone[s] # {}

\* Some sync will drop the account's bindings, or is about to.
BeingDropped(a) == \E s \in Syncs : a \in gone[s] \/ victim[s] = a

\* An account that is no longer tracked keeps a binding only when a response
\* bound it after the account was dropped, when the drop failed, or when the
\* account was dropped by a restart.  No interleaving of syncs with stale lists,
\* drops and returns of an account leaves one behind in any other way.
OrphansAreExplained ==
    \A a \in bound \ accounts : BeingDropped(a) \/ a \in leftover

\* Whatever stale lists and overtaken drops did in between: once the host's
\* list is settled, the tracked accounts settle on it.
ViewConverges ==
    \A H \in SUBSET Accounts : <>[](host = H) => <>[](accounts = H)

\* app.go:166-168: "An account CPA no longer lists must not keep a binding".
\* With no sync under way and the view up to date, none does.
GoneLeavesNoBinding ==
    (\A s \in Syncs : phase[s] = "idle") /\ accounts = host /\ host # {} =>
        bound \subseteq host

\* model_list_store.go:84-86: a toggle left behind "would silently re-arm
\* probing if an account with the same auth index ever came back".  An account
\* that was listed with its toggle on and then missing from an adopted list is
\* not probed again before an operator has asked for it again.
GoneLeavesNoToggle ==
    \A a \in Switched : Enabled(a) /\ ~BeingDropped(a) => consent[a] # "none"

\* registry.go:601: SetProbeEnabled "flips the probe toggle and persists it".
\* With no call and no sync under way, what scans see is what a restart restores.
ToggleIsPersisted ==
    (pending = {} /\ \A s \in Syncs : phase[s] = "idle") => toggles = saved

\* registry.go:262-263: SyncAccount's "second return value is false only when
\* CPA answered and the account was not in the answer".
AnswerIsReported ==
    [][\A s \in Syncs :
         Answer(s) => list[s] \subseteq Reported(s)]_vars
=============================================================================
