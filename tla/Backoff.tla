------------------------------- MODULE Backoff -------------------------------
(***************************************************************************)
(* How long the probe scheduler and the proxy pool wait                    *)
(* (internal/probe/backoff.go), beside the age at which a binding is due   *)
(* and dead (internal/states/registry.go).  Times are seconds.             *)
(***************************************************************************)
EXTENDS RuleInput, Integers, Sequences

Minute == 60

Outcomes == {"SUCCESS_TARGET", "SUCCESS_NON_TARGET", "SUCCESS_STALE",
             "PROBE_NO_PROXY_AVAILABLE", "PROBE_TIMEOUT_ALL_PROXIES", "NETWORK_ERROR",
             "RATE_LIMIT", "AUTH_ERROR", "MODEL_UNSUPPORTED", "UPSTREAM_ERROR", "ABORTED"}

\* What no other proxy can change ends a walk; what is the proxy's fault benches it.
Terminal == {"AUTH_ERROR", "MODEL_UNSUPPORTED", "ABORTED", "RATE_LIMIT"}
ProxyFault == {"NETWORK_ERROR"}

NonTargetMinDelay == 2 * Minute
NonTargetMaxDelay == 5 * Minute
NonTargetEscalateAfter == 3
NonTargetDelayCapDefault == 30 * Minute
DefaultRetryAfter == 10 * Minute

Lesser(x, y) == IF x < y THEN x ELSE y

\* How many outcomes at the end of a pair's probes were of the wrong shape.
recordStreak(streak, o) == IF o = "SUCCESS_NON_TARGET" THEN streak + 1 ELSE 0
Streak(outcomes) ==
    LET after[n \in Nat] == IF n = 0 THEN 0 ELSE recordStreak(after[n - 1], outcomes[n])
    IN  after[Len(outcomes)]

\* A Retry-After header is a number of seconds or a date; what is neither, or
\* lies in the past, is as good as none.
RetryAfter(raw, now) ==
    LET d == IF raw.form = "date" THEN raw.n - now ELSE raw.n
    IN  IF raw.form \in {"seconds", "date"} /\ d > 0 THEN d ELSE 0

\* A delay after n doublings, none of which goes beyond the cap.
Doubled(delay, cap) ==
    LET d[n \in Nat] == IF n = 0 THEN delay ELSE Lesser(2 * d[n - 1], cap) IN d

\* Mutant of NonTargetDelay: the cap is checked before the doubling.
NonTargetDelayLateCap(b) ==
    IF b.streak <= NonTargetEscalateAfter THEN NonTargetMinDelay + b.jitter
    ELSE 2 * Doubled(NonTargetMinDelay + b.jitter, b.cap)[b.streak - NonTargetEscalateAfter - 1]

\* The base delay carries the jitter; past the threshold each answer of the run
\* doubles it, up to the cap.
NonTargetDelay(b) ==
    LET cap == IF b.cap <= 0 THEN NonTargetDelayCapDefault ELSE b.cap
        base == NonTargetMinDelay + b.jitter
    IN  IF b.streak <= NonTargetEscalateAfter THEN base
        ELSE Doubled(base, cap)[b.streak - NonTargetEscalateAfter]

Threshold(ttl, pct) == (ttl * (100 - pct)) \div 100

Fixed == [PROBE_NO_PROXY_AVAILABLE |-> 5 * Minute, PROBE_TIMEOUT_ALL_PROXIES |-> 5 * Minute,
          NETWORK_ERROR |-> 2 * Minute, UPSTREAM_ERROR |-> 2 * Minute,
          AUTH_ERROR |-> 30 * Minute, MODEL_UNSUPPORTED |-> 30 * Minute, ABORTED |-> 5 * Minute]

\* Mutant of NextDelay: a binding is probed again when it has expired.
NextDelayFromExpiry(b, o) == IF o = "SUCCESS_TARGET" THEN b.ttl + 1 ELSE 5 * Minute

NextDelay(b, o) ==
    CASE o = "SUCCESS_TARGET" -> Threshold(b.ttl, IF b.pct < 0 THEN 0 ELSE b.pct)
      [] o \in {"SUCCESS_NON_TARGET", "SUCCESS_STALE"} -> NonTargetDelay(b)
      [] o = "RATE_LIMIT" -> IF b.retryAfter > 0 THEN b.retryAfter ELSE DefaultRetryAfter
      [] OTHER -> Fixed[o]

\* 1, 2, 4 ... 64 minutes, and then the cap.
ProxyCooldown(n) == IF n <= 0 THEN Minute ELSE Doubled(Minute, 64 * Minute)[n - 1]

ProxyCooldownReachedCap(n) == ProxyCooldown(n) >= 64 * Minute

\* Policy.Expiry, from the time a value was bound: its clock starts when the
\* value was minted, age seconds before.
ExpiresAt(b, age) == b.ttl - age
RefreshAfter(b, age) == Threshold(b.ttl, b.pct) - age

-----------------------------------------------------------------------------
(* Properties *)

\* backoff.go:150: scanning and probing are different cadences.  Whatever the
\* settings and the run, a pair is not probed again within two minutes of an
\* answer that was no use, and within the cap it is probed again; a longer run
\* never waits less.  scheduler.go:545: only an unbroken stretch of wrong shapes
\* makes it wait more.  backoff.go:213: the bench of a node that keeps failing
\* doubles up to an hour and four minutes; this top is reached first at the
\* seventh failure, where the caller starts the count anew.
WaitIsBounded(b, outcomes) ==
    /\ NextDelay(b, "RATE_LIMIT") > 0
    /\ NextDelay(b, "SUCCESS_NON_TARGET") > NonTargetMinDelay + b.jitter =>
         /\ Len(outcomes) > NonTargetEscalateAfter
         /\ \A i \in 0..NonTargetEscalateAfter : outcomes[Len(outcomes) - i] = "SUCCESS_NON_TARGET"
    /\ ProxyCooldown(b.streak) \in Minute..64 * Minute
    /\ ProxyCooldown(b.streak + 1) \in {ProxyCooldown(b.streak), 2 * ProxyCooldown(b.streak)}
    /\ ProxyCooldownReachedCap(b.streak) <=> b.streak >= 7
    /\ \A o \in Outcomes \ {"SUCCESS_TARGET", "RATE_LIMIT"} :
           LET d == NextDelay(b, o)
           IN  /\ d >= 2 * Minute
               /\ o \in {"SUCCESS_NON_TARGET", "SUCCESS_STALE"} =>
                    /\ d <= IF b.cap <= 0 THEN NonTargetDelayCapDefault ELSE b.cap
                    /\ d <= NextDelay([b EXCEPT !.streak = @ + 1], o)

\* backoff.go:155: the pair is probed again as its binding enters the refresh
\* window: when it is due, and before it is dead.
ReprobedInTime(b, age) ==
    LET d == NextDelay(b, "SUCCESS_TARGET")
    IN  RefreshAfter(b, age) <= d /\ d <= ExpiresAt(b, age)

\* So it is, as long as the value was no older, when it was bound, than the
\* refresh window is long.
ReprobedInTimeIfYoung(b, age) ==
    age <= b.ttl - Threshold(b.ttl, b.pct) => ReprobedInTime(b, age)
-----------------------------------------------------------------------------
(* What is asked of a policy: the settings within their bounds, a jitter     *)
(* below its span, a run of outcomes and the age of a value at its binding.  *)

Caps == {c \in Int : c <= 0 \/ c >= NonTargetMaxDelay}
Waiting == [ttl : Nat, pct : 0..90, cap : Caps, jitter : 0..NonTargetMaxDelay - NonTargetMinDelay - 1,
            streak : Nat, retryAfter : Nat, run : Seq(Outcomes)]
BackoffInputs == {i \in [rule : {"backoff"}, b : Waiting, age : Nat] : i.b.streak = Streak(i.b.run)}

\* No answer is followed too soon by another probe, nor too late; benches double
\* up to an hour and four minutes (backoff.go:150).
WaitsAreBounded == input.rule = "backoff" => WaitIsBounded(input.b, input.b.run)

\* A young value is probed for again inside its refresh window (backoff.go:155).
YoungAreReprobed == input.rule = "backoff" => ReprobedInTimeIfYoung(input.b, input.age)

\* Every value is (backoff.go:155).
AllAreReprobed == input.rule = "backoff" => ReprobedInTime(input.b, input.age)
=============================================================================
