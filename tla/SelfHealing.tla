----------------------------- MODULE SelfHealing -----------------------------
(***************************************************************************)
(* The life of intercepted requests: injection (intercept/request.go), the *)
(* correlation records (intercept/correlation.go), capture and             *)
(* reconciliation of responses and the self-healing rules                  *)
(* (intercept/response.go), with a probe of each pair running beside them  *)
(* (probe/scheduler.go, runProbe and ProbeNow).                            *)
(*                                                                         *)
(* The bindings are the atomic map that StateRegistry implements.  The     *)
(* host calls the handlers of one request one after the other; those of    *)
(* different requests interleave, and a handler that decides first and     *)
(* writes the bindings later takes a step for each.                        *)
(***************************************************************************)
EXTENDS Integers, FiniteSets

CONSTANTS Pairs,     \* the (authIndex, model) keys
          Requests,  \* request ids, each used once
          Values,    \* turn-state values
          Targets,   \* the values of the shape the account's plan expects
          Limit,     \* consecutive5xxLimit
          NoValue, NoPair, NoRecord

ASSUME TargetsAssumption == Targets \subseteq Values
ASSUME LimitAssumption == Limit \in Nat \ {0}
ASSUME NoValueAssumption == NoValue \notin Values
ASSUME NoPairAssumption == NoPair \notin Pairs

VARIABLES binding,   \* the registry's value per pair
          status,    \* its lifecycle status: fresh, refresh_due, expired
          corr,      \* CorrelationManager.m
          aged,      \* requests whose record is older than the correlation TTL
          strikes,   \* Collector.serverErrors
          stage,     \* how far each request's handlers have come
          pair,      \* the pair the host selected for the request
          sent,      \* the value the plugin wrote into the request
          due,       \* pairs whose next_probe_at has arrived
          probe,     \* what the probe of each pair is doing
          enabled,   \* the master switch
          run,       \* history: 5xx in a row of requests that carried the binding
          unhealed,  \* history: pairs whose invalidation failed
          stale,     \* history: pairs discarded as stale and not bound since
          failures   \* history: requests that carried a value and ended in a 5xx
                     \* with no answer seen, since their pair was captured or healed

vars == <<binding, status, corr, aged, strikes, stage, pair, sent, due, probe,
          enabled, run, unhealed, stale, failures>>

traffic == <<corr, aged, strikes, stage, pair, sent>>
held == <<binding, status>>
history == <<run, unhealed, stale, failures>>
probing == <<due, probe>>

Stages == {"new", "sent", "answered", "discarding", "notifying", "healing", "closed"}
Record == [pair : Pairs \cup {NoPair}, value : Values \cup {NoValue}]

ASSUME NoRecordAssumption == NoRecord \notin Record

-----------------------------------------------------------------------------
Init ==
    /\ binding = [p \in Pairs |-> NoValue]
    /\ status = [p \in Pairs |-> "fresh"]
    /\ corr = [r \in Requests |-> NoRecord]
    /\ aged = {}
    /\ strikes = [p \in Pairs |-> 0]
    /\ stage = [r \in Requests |-> "new"]
    /\ pair = [r \in Requests |-> NoPair]
    /\ sent = [r \in Requests |-> NoValue]
    /\ due = Pairs
    /\ probe = [p \in Pairs |-> "idle"]
    /\ enabled = TRUE
    /\ run = [p \in Pairs |-> 0]
    /\ unhealed = {}
    /\ stale = {}
    /\ failures = {}

\* The value a request for p is given: the bound one while it is usable.
InjectedValue(p) ==
    IF enabled /\ p # NoPair /\ status[p] # "expired" THEN binding[p] ELSE NoValue

\* Record, followed by MarkInjected when a value was written.
Recorded(p) == [pair |-> p, value |-> InjectedValue(p)]

\* CorrelationManager.Sweep: records past their TTL are dropped.
Swept == [q \in Requests |-> IF q \in aged THEN NoRecord ELSE corr[q]]

\* The after-auth hook.  The host may not know the account, or the account may
\* hold nothing usable; either way the request is recorded.
Inject(r, p) ==
    /\ stage[r] = "new"
    /\ corr' = [Swept EXCEPT ![r] = Recorded(p)]
    /\ aged' = {}
    /\ pair' = [pair EXCEPT ![r] = p]
    /\ sent' = [sent EXCEPT ![r] = InjectedValue(p)]
    /\ stage' = [stage EXCEPT ![r] = "sent"]
    /\ UNCHANGED <<held, strikes, probing, enabled, history>>

-----------------------------------------------------------------------------
(* Responses *)

\* The account of a response: the one on the payload, else the recorded one.
ResponsePair(r, published) ==
    IF published THEN pair[r] ELSE IF corr[r] # NoRecord THEN corr[r].pair ELSE NoPair

Carried(r) == IF corr[r] # NoRecord THEN corr[r].value ELSE NoValue

\* Registry.Bind from traffic or from a probe.
Store(p, v) ==
    /\ binding' = [binding EXCEPT ![p] = v]
    /\ status' = [status EXCEPT ![p] = "fresh"]
    /\ stale' = stale \ {p}

\* resetServerErrors
ResetStrikes(p) ==
    /\ strikes' = [strikes EXCEPT ![p] = 0]
    /\ unhealed' = unhealed \ {p}

\* Mutant of AcceptState: any value will do.
AcceptAnyState(v) == v \in Values

\* The shape test: only a value of the shape the plan expects is ever bound.
AcceptState(v) == v \in Targets

\* Mutant of Consumed: the header hook looks the record up and leaves it.
Peeked(r) == corr

\* CorrelationManager.Complete: the header hook takes the record away.
Consumed(r) == [corr EXCEPT ![r] = NoRecord]

\* What happened to p before now is no longer held against its binding.
Forgiven(p) == failures \ {q \in failures : pair[q] = p}

\* A value of the expected shape is bound, unless the capture switch is off or
\* the value is past its own life (ErrStateExpired).
Capture(r, v, published) ==
    LET p == ResponsePair(r, published) IN
    /\ stage[r] = "sent" /\ enabled /\ p # NoPair /\ AcceptState(v)
    /\ Store(p, v)
    /\ ResetStrikes(p)
    /\ run' = [run EXCEPT ![p] = IF binding[p] = v THEN @ ELSE 0]
    /\ failures' = Forgiven(p)
    /\ corr' = Consumed(r)
    /\ stage' = [stage EXCEPT ![r] = "answered"]
    /\ UNCHANGED <<aged, pair, sent, probing, enabled>>

\* A value of another shape, different from the one the request carried, while
\* a binding is held: the binding is going to be discarded.
FindStale(r, v, published) ==
    LET p == ResponsePair(r, published) IN
    /\ stage[r] = "sent" /\ enabled /\ p # NoPair
    /\ ~AcceptState(v) /\ v # Carried(r)
    /\ binding[p] # NoValue
    /\ corr' = Consumed(r)
    /\ stage' = [stage EXCEPT ![r] = "discarding"]
    /\ UNCHANGED <<held, aged, strikes, pair, sent, probing, enabled, history>>

\* Every other response: no account, no state, a switch that is off, a value
\* past its life, the carried value in a wrong shape, nothing to discard, or a
\* store error.  The record is consumed all the same.
Ignore(r) ==
    /\ stage[r] = "sent"
    /\ corr' = Consumed(r)
    /\ stage' = [stage EXCEPT ![r] = "answered"]
    /\ UNCHANGED <<held, aged, strikes, pair, sent, probing, enabled, history>>

\* Registry.Invalidate, whatever value the pair holds by now.
Invalidate(p) ==
    /\ binding' = [binding EXCEPT ![p] = NoValue]
    /\ status' = [status EXCEPT ![p] = "fresh"]

\* discardStale drops the binding ...
Discard(r) ==
    /\ stage[r] = "discarding"
    /\ Invalidate(pair[r])
    /\ stale' = stale \cup {pair[r]}
    /\ run' = [run EXCEPT ![pair[r]] = 0]
    /\ stage' = [stage EXCEPT ![r] = "notifying"]
    /\ UNCHANGED <<corr, aged, strikes, pair, sent, probing, enabled, unhealed, failures>>

\* ... or cannot, and gives up ...
DiscardFails(r) ==
    /\ stage[r] = "discarding"
    /\ stage' = [stage EXCEPT ![r] = "answered"]
    /\ UNCHANGED <<held, corr, aged, strikes, pair, sent, probing, enabled, history>>

\* ... and tells the scheduler, which clears the pair's backoff (ProbeNow).
Notify(r) ==
    /\ stage[r] = "notifying"
    /\ due' = due \cup {pair[r]}
    /\ stage' = [stage EXCEPT ![r] = "answered"]
    /\ UNCHANGED <<held, corr, aged, strikes, pair, sent, probe, enabled, history>>

-----------------------------------------------------------------------------
(* Completions *)

\* Mutant of Blames: a record is enough, whether or not it says "injected".
BlamesAnyRecord(r) == corr[r] # NoRecord /\ corr[r].pair # NoPair

\* The request is known to have carried a value the plugin wrote.
Blames(r) == corr[r] # NoRecord /\ corr[r].value # NoValue

\* What really happened to the requests that carried the current binding.
CountRun(r, failed) ==
    LET p == pair[r] IN
    run' = IF p # NoPair /\ enabled /\ sent[r] # NoValue /\ sent[r] = binding[p]
           THEN [run EXCEPT ![p] = IF failed THEN IF @ < Limit THEN @ + 1 ELSE @ ELSE 0]
           ELSE run

\* The request succeeded, was cancelled or was rejected.
CompleteOther(r) ==
    /\ stage[r] \in {"sent", "answered"}
    /\ corr' = IF enabled /\ Blames(r) THEN [corr EXCEPT ![r] = NoRecord] ELSE corr
    /\ stage' = [stage EXCEPT ![r] = "closed"]
    /\ CountRun(r, FALSE)
    /\ UNCHANGED <<held, aged, strikes, pair, sent, probing, enabled, unhealed, stale,
                   failures>>

\* The request failed with a status that gives no reason.  A 400 is always one
\* of these: the adapter hands ObserveCompletion no body to look into.
CompleteUnexplained(r) ==
    /\ stage[r] \in {"sent", "answered"}
    /\ stage' = [stage EXCEPT ![r] = "closed"]
    /\ UNCHANGED <<held, corr, aged, strikes, pair, sent, probing, enabled, history>>

\* Mutant of RunReached: a run heals only at the moment it passes the limit.
RunReachedOnce(n) == n = Limit + 1

\* The threshold of a run of 5xx.
RunReached(n) == n >= Limit

\* The request failed with a 5xx: a strike, and at the limit the decision to
\* invalidate.
CompleteServerError(r) ==
    /\ stage[r] \in {"sent", "answered"}
    /\ CountRun(r, TRUE)
    /\ failures' = IF enabled /\ stage[r] = "sent" /\ sent[r] # NoValue
                   THEN failures \cup {r} ELSE failures
    /\ IF enabled /\ Blames(r)
       THEN LET p == corr[r].pair IN
            /\ strikes' = [strikes EXCEPT ![p] = @ + 1]
            /\ stage' = [stage EXCEPT ![r] = IF RunReached(strikes[p] + 1) THEN "healing" ELSE "closed"]
       ELSE /\ stage' = [stage EXCEPT ![r] = "closed"]
            /\ UNCHANGED strikes
    /\ UNCHANGED <<held, corr, aged, pair, sent, probing, enabled, unhealed, stale>>

\* The decision is carried out.  Nothing tells the scheduler.
Heal(r) ==
    /\ stage[r] = "healing"
    /\ Invalidate(pair[r])
    /\ ResetStrikes(pair[r])
    /\ run' = [run EXCEPT ![pair[r]] = 0]
    /\ failures' = Forgiven(pair[r])
    /\ corr' = [corr EXCEPT ![r] = NoRecord]
    /\ stage' = [stage EXCEPT ![r] = "closed"]
    /\ UNCHANGED <<aged, pair, sent, probing, enabled, stale>>

HealFails(r) ==
    /\ stage[r] = "healing"
    /\ unhealed' = unhealed \cup {pair[r]}
    /\ stage' = [stage EXCEPT ![r] = "closed"]
    /\ UNCHANGED <<held, corr, aged, strikes, pair, sent, probing, enabled, run, stale,
                   failures>>

-----------------------------------------------------------------------------
(* The probe of a pair, the clock and the operator *)

\* StatusFresh: the pairs a scan passes over.
Fresh == {p \in Pairs : binding[p] # NoValue /\ status[p] = "fresh"}

\* A scan starts the probe of a due pair whose binding is not fresh.  The scan
\* looked at the switch when it began, so it may be off by now.
ProbeStart(p) ==
    /\ p \in due /\ probe[p] = "idle"
    /\ p \notin Fresh
    /\ probe' = [probe EXCEPT ![p] = "asking"]
    /\ UNCHANGED <<held, traffic, due, enabled, history>>

\* runProbe's re-check after the answer: the result is dropped ...
ProbeDropped(p) ==
    /\ probe[p] = "asking" /\ ~enabled
    /\ probe' = [probe EXCEPT ![p] = "idle"]
    /\ UNCHANGED <<held, traffic, due, enabled, history>>

\* ... or it is a value to bind, or a miss.
ProbeAnswers(p) ==
    /\ probe[p] = "asking" /\ enabled
    /\ \E next \in {"binding", "scheduling"} : probe' = [probe EXCEPT ![p] = next]
    /\ UNCHANGED <<held, traffic, due, enabled, history>>

\* doBind, whatever has become of the switch ...
ProbeBinds(p, v) ==
    /\ probe[p] = "binding" /\ AcceptState(v)
    /\ Store(p, v)
    /\ run' = [run EXCEPT ![p] = IF binding[p] = v THEN @ ELSE 0]
    /\ probe' = [probe EXCEPT ![p] = "scheduling"]
    /\ UNCHANGED <<traffic, due, enabled, unhealed, failures>>

\* ... which the registry may refuse.
ProbeBindFails(p) ==
    /\ probe[p] = "binding"
    /\ probe' = [probe EXCEPT ![p] = "scheduling"]
    /\ UNCHANGED <<held, traffic, due, enabled, history>>

\* The last thing runProbe does: next_probe_at moves into the future.
ProbeSchedules(p) ==
    /\ probe[p] = "scheduling"
    /\ due' = due \ {p}
    /\ probe' = [probe EXCEPT ![p] = "idle"]
    /\ UNCHANGED <<held, traffic, enabled, history>>

\* The backoff of a pair runs out.
BackoffEnds(p) ==
    /\ p \notin due
    /\ due' = due \cup {p}
    /\ UNCHANGED <<held, traffic, probe, enabled, history>>

\* A binding passes its refresh threshold, then its TTL.
Age(p) ==
    /\ binding[p] # NoValue /\ status[p] # "expired"
    /\ status' = [status EXCEPT ![p] = IF @ = "fresh" THEN "refresh_due" ELSE "expired"]
    /\ UNCHANGED <<binding, traffic, probing, enabled, history>>

\* A record passes the correlation TTL.
AgeRecord(r) ==
    /\ corr[r] # NoRecord /\ r \notin aged
    /\ aged' = aged \cup {r}
    /\ UNCHANGED <<held, corr, strikes, stage, pair, sent, probing, enabled, history>>

Toggle ==
    /\ enabled' = ~enabled
    /\ UNCHANGED <<held, traffic, probing, history>>

Next ==
    \/ \E r \in Requests, p \in Pairs \cup {NoPair} : Inject(r, p)
    \/ \E r \in Requests, v \in Values, published \in BOOLEAN :
          Capture(r, v, published) \/ FindStale(r, v, published)
    \/ \E r \in Requests : Ignore(r) \/ Discard(r) \/ DiscardFails(r) \/ Notify(r)
    \/ \E r \in Requests : CompleteOther(r) \/ CompleteUnexplained(r) \/ CompleteServerError(r)
    \/ \E r \in Requests : Heal(r) \/ HealFails(r) \/ AgeRecord(r)
    \/ \E p \in Pairs : ProbeStart(p) \/ ProbeDropped(p) \/ ProbeAnswers(p)
    \/ \E p \in Pairs : ProbeBindFails(p) \/ ProbeSchedules(p)
    \/ \E p \in Pairs, v \in Values : ProbeBinds(p, v)
    \/ \E p \in Pairs : BackoffEnds(p) \/ Age(p)
    \/ Toggle

Spec == Init /\ [][Next]_vars

-----------------------------------------------------------------------------
(* Properties *)

\* Every variable has its type.
TypeOK ==
    /\ binding \in [Pairs -> Targets \cup {NoValue}]
    /\ status \in [Pairs -> {"fresh", "refresh_due", "expired"}]
    /\ corr \in [Requests -> Record \cup {NoRecord}]
    /\ aged \subseteq Requests
    /\ strikes \in [Pairs -> Nat]
    /\ stage \in [Requests -> Stages]
    /\ pair \in [Requests -> Pairs \cup {NoPair}]
    /\ sent \in [Requests -> Values \cup {NoValue}]
    /\ due \subseteq Pairs
    /\ probe \in [Pairs -> {"idle", "asking", "binding", "scheduling"}]
    /\ enabled \in BOOLEAN
    /\ run \in [Pairs -> Nat]
    /\ unhealed \subseteq Pairs
    /\ stale \subseteq Pairs
    /\ failures \subseteq Requests

\* Every strike against a pair is a failed request of its own: one that carried
\* a value the plugin wrote, that ended in a 5xx before any answer was seen, and
\* that did so after the pair was last captured or healed.  Nothing is counted
\* twice, however completions, answers and sweeps interleave.
StrikesAreEarned ==
    \A p \in Pairs : strikes[p] <= Cardinality({r \in failures : pair[r] = p})

\* A binding is invalidated for a failure only by a request that carried a
\* value the plugin wrote; one it left alone is never blamed.
OnlyCarriersHeal ==
    \A r \in Requests : stage[r] = "healing" => pair[r] \in Pairs /\ sent[r] # NoValue

\* A run of server errors that has reached the limit is being acted upon, or
\* the action failed.  No interleaving of completions steps over the limit.
RunsAreActedUpon ==
    \A p \in Pairs :
        strikes[p] >= Limit =>
            p \in unhealed \/ \E r \in Requests : stage[r] = "healing" /\ pair[r] = p

\* response.go:353-354: "the plugin only invalidates state that *this* request
\* actually carried, so an unrelated failure never throws away good state".
HealsOnlyWhatWasCarried ==
    [][\A r \in Requests :
         Heal(r) => binding[pair[r]] \in {sent[r], NoValue}]_vars

\* response.go:35 and 431 call the counter a run of consecutive 5xx: at the
\* decision, the last Limit requests that carried the binding all failed so.
RunIsConsecutive ==
    [][\A r \in Requests :
         stage[r] # "healing" /\ stage'[r] = "healing"
           /\ binding[pair[r]] = sent[r] => run'[pair[r]] >= Limit]_vars

\* README.md:371-373: when requests that carried the binding fail with a run of
\* 5xx, the binding is dropped: with the run complete, its dropping is under way.
RunOf5xxHeals ==
    \A p \in Pairs :
        run[p] >= Limit =>
            p \in unhealed \/ \E r \in Requests : stage[r] = "healing" /\ pair[r] = p

\* README.md:112 has a failed request end in an immediate re-probe (and :373 in
\* a re-probe): once the binding is dropped, the next scan finds the pair due.
HealedIsReprobed ==
    [][\A r \in Requests : Heal(r) => pair[r] \in due']_vars

\* response.go:297-298: discarding a stale binding clears the pair's backoff so
\* that the next scan refills it: until it is bound again, the pair is due, or
\* is being probed, or the news is on its way.
DiscardedIsReprobed ==
    \A p \in stale :
        \/ p \in due
        \/ probe[p] # "idle"
        \/ \E r \in Requests : stage[r] = "notifying" /\ pair[r] = p

\* The probe that runs beside the requests is the one the scheduler promises.
Probes == INSTANCE PairProbe WITH fresh <- Fresh, on <- enabled

\* One probe per pair, started only for a pair that is due and holds nothing
\* fresh; whatever requests do in the meantime, only the probe puts a pair off.
ProbesAsPromised == Probes!Spec
=============================================================================
