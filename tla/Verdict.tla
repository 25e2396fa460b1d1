------------------------------- MODULE Verdict -------------------------------
(***************************************************************************)
(* May an account be probed (internal/accounts/verdict.go), from what the  *)
(* host says of it and what upstream said of its budget                    *)
(* (internal/headers/signals.go).                                          *)
(*                                                                         *)
(* A status message is the set of words in it.  A digit on either side of  *)
(* 401 or 403 makes it another word.  Times are in millions of seconds, so *)
(* that an epoch in milliseconds is told from one in seconds as in the     *)
(* code.  Absent stands for a header that is not there or makes no sense,  *)
(* Never for a time that is not given.                                     *)
(***************************************************************************)
EXTENDS RuleInput, Integers, FiniteSets

Absent == -1
Never == Absent

Statuses == {"active", "disabled", "pending", "refreshing", "error"}

authFailureCodes == {"401", "403"}
authFailureMarkers == {"unauthorized", "forbidden", "invalid_token", "invalid token",
                       "invalid_grant", "revoked", "deactivated", "account deleted",
                       "token has expired", "expired token"}
quotaMarkers == {"usage limit", "usage_limit", "quota", "rate limit", "limit reached"}

blockedKinds == {"deleted", "disabled", "auth", "pending", "refreshing", "quota"}
Kinds == blockedKinds \cup {"ok", "cooldown", "stale"}

AuthFailure(message) == message \cap (authFailureCodes \cup authFailureMarkers) # {}

-----------------------------------------------------------------------------
(* What upstream says of an account beside each of its responses *)

\* A percentage is sent in tenths, and rounded.
Percent(raw) ==
    LET v == (raw + 5) \div 10
    IN  IF raw = Absent THEN Absent ELSE IF v < 0 THEN 0 ELSE IF v > 100 THEN 100 ELSE v

Timestamp(raw) == IF raw > 1000000 THEN raw \div 1000 ELSE raw

ParseSignals(h) ==
    LET budget(w) == [used |-> Percent(w.used), reset |-> Timestamp(w.reset)]
    IN  [plan |-> h.plan, credits |-> h.credits,
         primary |-> budget(h.primary), secondary |-> budget(h.secondary)]

NoSignals == [plan |-> "", credits |-> FALSE,
              primary |-> [used |-> Absent, reset |-> Never],
              secondary |-> [used |-> Absent, reset |-> Never]]

Empty(s) == s.plan = "" /\ ~s.credits /\ s.primary.used = Absent /\ s.secondary.used = Absent

\* Signals replace the former ones as a whole, but a plan that is not named stays.
RecordSignals(a, s) ==
    IF Empty(s) THEN a
    ELSE [a EXCEPT !.quota = s, !.plan = IF s.plan = "" THEN @ ELSE s.plan]

\* The result of a probe takes the fields of its attempt one by one, and leaves
\* the signals out.
ProbeResult(attempt) == [attempt EXCEPT !.signals = NoSignals]

\* The last of the resets to come of the windows that are spent.
ExhaustedUntil(quota, now) ==
    LET resets == {w.reset : w \in {v \in {quota.primary, quota.secondary} :
                                       v.used >= 100 /\ v.reset > now}}
    IN  IF resets = {} THEN Never ELSE CHOOSE t \in resets : \A u \in resets : u <= t

-----------------------------------------------------------------------------
(* The verdict *)

Flagged(a) == a.unavailable \/ a.status = "error"

CoolingDown(a, now) == Flagged(a) /\ (a.retry = Never \/ now < a.retry)

\* Mutant of OutOfQuota: the recovery time is compared the wrong way round.
OutOfQuotaSwapped(a, now) ==
    \/ a.retry < now /\ a.message \cap quotaMarkers # {}
    \/ ExhaustedUntil(a.quota, now) > now

OutOfQuota(a, now) ==
    \/ now < a.retry /\ a.message \cap quotaMarkers # {}
    \/ ExhaustedUntil(a.quota, now) > now

\* The first that applies.
Judge(a, known, now) ==
    IF ~known THEN "deleted"
    ELSE IF a.disabled \/ a.status = "disabled" THEN "disabled"
    ELSE IF a.status \in {"pending", "refreshing"} THEN a.status
    ELSE IF AuthFailure(a.message) THEN "auth"
    ELSE IF OutOfQuota(a, now) THEN "quota"
    ELSE IF CoolingDown(a, now) THEN "cooldown"
    ELSE IF Flagged(a) THEN "stale"
    ELSE "ok"

Blocked(a, known, now) == Judge(a, known, now) \in blockedKinds

-----------------------------------------------------------------------------
(* Properties *)

\* verdict.go:156: an account that is out of quota is not probed, and nothing but
\* time is needed for that to end: it is probed again as soon as the last of the
\* deadlines that it was given has passed.  verdict.go:187: nor does time alone
\* ever block an account that may be probed, or turn a leftover into a fault.
TimeHeals(a, now) ==
    LET deadlines == {w.reset : w \in {v \in {a.quota.primary, a.quota.secondary} : v.used >= 100}}
                       \cup (IF a.message \cap quotaMarkers = {} THEN {} ELSE {a.retry})
    IN  \A later \in now..now + 10 :
        /\ Judge(a, TRUE, now) = "quota" =>
              (Blocked(a, TRUE, later) <=> \E t \in deadlines : later < t)
        /\ Blocked(a, TRUE, later) => Blocked(a, TRUE, now)
        /\ Judge(a, TRUE, now) \in {"ok", "stale"} => Judge(a, TRUE, later) = Judge(a, TRUE, now)

\* signals.go:144: only a window at 100 % says "not until this resets".  An
\* account whose last response leaves it some of its budget is probed.
OnlySpentIsBlocked(a, h, now) ==
    Judge(RecordSignals(a, ParseSignals(h)), TRUE, now) = "quota" =>
        \/ now < a.retry /\ a.message \cap quotaMarkers # {}
        \/ Empty(ParseSignals(h))
        \/ \E w \in {h.primary, h.secondary} : w.used >= 1000

\* scheduler.go:388: what upstream says beside the answer to a probe counts as
\* what it says beside any other response.
ProbesAreHeard(a, h) ==
    LET attempt == [signals |-> ParseSignals(h)]
    IN  RecordSignals(a, ProbeResult(attempt).signals) = RecordSignals(a, attempt.signals)
\* What is asked of an account: what the host and upstream can say of it.
Budget == [used : Int, reset : Int]
Signals == [plan : STRING, credits : BOOLEAN, primary : Budget, secondary : Budget]
HostAccount ==
    [disabled : BOOLEAN, status : Statuses, unavailable : BOOLEAN, message : SUBSET STRING,
     retry : Int, plan : STRING, quota : Signals]
VerdictInputs == [rule : {"verdict"}, account : HostAccount, header : Signals, now : Nat]

\* Out of quota ends with its deadlines, and time alone blocks no account,
\* whatever its last response said (verdict.go:156).
TimeOnlyHeals ==
    input.rule = "verdict" =>
        TimeHeals(RecordSignals(input.account, ParseSignals(input.header)), input.now)

\* Some budget is enough (signals.go:100).
SomeBudgetIsEnough ==
    input.rule = "verdict" => OnlySpentIsBlocked(input.account, input.header, input.now)

\* The answers to probes tell as much as other responses (executor.go:308).
ProbesTell == input.rule = "verdict" => ProbesAreHeard(input.account, input.header)
=============================================================================
