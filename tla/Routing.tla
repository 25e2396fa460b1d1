------------------------------- MODULE Routing -------------------------------
(***************************************************************************)
(* The account routing (internal/routing/scheduler.go): concurrent         *)
(* requests, each of which scores the host's candidates, keeps one         *)
(* priority tier of those that hold a state, and picks the least recently  *)
(* used account of it.  Nothing is locked between the reads of the stored  *)
(* cursors and the write of the one picked.                                *)
(*                                                                         *)
(* One model is routed.  What the scoring finds is an input.  A cursor is  *)
(* the text of a wall clock time, and cursors are compared as text.  The   *)
(* texts of different seconds are in the order of the seconds.  Those of   *)
(* one second are not in the order of time, because RFC3339Nano drops      *)
(* trailing zeros: ":00Z" comes after ":00.3Z", and ".1Z" after ".12Z".  A *)
(* text is therefore its place among the texts, which TextOrder gives      *)
(* within a second; 0 is an account never picked.                          *)
(***************************************************************************)
EXTENDS Integers, FiniteSets

CONSTANTS Accounts,    \* the host's accounts; the order of ids breaks ties
          Priority,    \* the priority the host gives each
          Deciders,    \* requests that may be decided at the same time
          Readings,    \* how many times the clock can show within a second
          TextOrder,   \* the place of each one's text among those of its second
          MaxSecond,   \* bound on the seconds that pass
          MaxSetbacks  \* bound on failed reads and writes and on restarts

ASSUME AccountsAssumption == Accounts \subseteq Nat /\ IsFiniteSet(Accounts)
ASSUME PriorityAssumption == Priority \in [Accounts -> Int]
ASSUME DecidersAssumption == IsFiniteSet(Deciders)
ASSUME ReadingsAssumption == Readings \in Nat \ {0}
ASSUME TextOrderAssumption == TextOrder \in [0..Readings - 1 -> 0..Readings - 1]
ASSUME MaxSecondAssumption == MaxSecond \in Nat \ {0}
ASSUME SetbacksAssumption == MaxSetbacks \in Nat

VARIABLES cursor,    \* the stored cursors
          pick,      \* what each request is doing
          clock,     \* the wall clock
          passed,    \* history: how often each account has been passed over,
                     \* although it was in the pool, since it was picked and
                     \* the second of its cursor ended
          setbacks   \* how many setbacks there have been

vars == <<cursor, pick, clock, passed, setbacks>>

Strategies == {"state_first", "respect_cpa_priority"}

\* top: the highest priority in the set that the strategy names; pool: the tier;
\* rest: what of it is still to be read; best and its cursor at: the first one so
\* far, then the one picked with its new cursor.
Steps == {"idle", "reading", "storing"}
Nobody == -1

Idle == [step |-> "idle", top |-> 0, pool |-> {}, rest |-> {}, best |-> Nobody, at |-> 0]

Never == [a \in Accounts |-> 0]

Init ==
    /\ cursor = Never
    /\ pick = [d \in Deciders |-> Idle]
    /\ clock = [second |-> 1, reading |-> 0]
    /\ passed = [a \in Accounts |-> 0]
    /\ setbacks = 0

Setback == setbacks < MaxSetbacks /\ setbacks' = setbacks + 1

-----------------------------------------------------------------------------
(* Times and their texts *)

Moments == [second : 1..MaxSecond, reading : 0..Readings - 1]

Before(t, u) == t.second < u.second \/ (t.second = u.second /\ t.reading < u.reading)

\* The wall clock goes on, at any moment.
TimePasses ==
    /\ clock' \in Moments
    /\ Before(clock, clock')
    /\ UNCHANGED <<cursor, pick, passed, setbacks>>

\* Where the texts of a second begin.
Start(second) == second * Readings

\* Format(time.RFC3339Nano): what a time is as a text.
Text(t) == Start(t.second) + TextOrder[t.reading]

-----------------------------------------------------------------------------
(* Decide *)

TopPriority(items) == CHOOSE p \in {Priority[a] : a \in items} : \A a \in items : Priority[a] <= p

\* Mutant of Tier: every account that holds a state.
TierOfAll(held, top) == held

Tier(held, top) == {a \in held : Priority[a] = top}

\* A codex request for a participating model, up to the pool.  Every candidate is
\* looked up on its own, and the settings are read before and after that:
\* bindings and switches may change in between, so that any subset may be found
\* usable under either strategy.  Without a pool, as without candidates or while
\* routing is switched off, the plugin declines: nothing happens.
Ask(d) ==
    /\ pick[d].step = "idle"
    /\ \E all \in SUBSET Accounts, by \in Strategies : \E held \in (SUBSET all) \ {{}} :
         LET top == TopPriority(IF by = "state_first" THEN held ELSE all)
             pool == Tier(held, top)
         IN  /\ pool # {}
             /\ pick' = [pick EXCEPT ![d] = [Idle EXCEPT !.step = "reading", !.top = top,
                                                         !.pool = pool, !.rest = pool]]
    /\ UNCHANGED <<cursor, clock, passed, setbacks>>

\* Mutant of Better: there is no first one to begin with.
BetterThanAnother(p, t) == t < p.at

\* Mutant of Better: the later text wins.
BetterIfLater(p, t) == p.best = Nobody \/ t > p.at

\* at < bestAt, as texts; an account never used is before any other.
Better(p, t) == p.best = Nobody \/ t < p.at

\* The pool is read one account at a time, in the order of ids, each with the
\* text that the store gives for it.
Seen(d, texts) ==
    LET p == pick[d]
    IN  \E a \in p.rest :
          /\ \A b \in p.rest : a <= b
          /\ pick' = [pick EXCEPT ![d] =
                         IF Better(p, texts[a])
                         THEN [p EXCEPT !.rest = @ \ {a}, !.best = a, !.at = texts[a]]
                         ELSE [p EXCEPT !.rest = @ \ {a}]]

Read(d) ==
    /\ pick[d].step = "reading"
    /\ Seen(d, cursor)
    /\ UNCHANGED <<cursor, clock, passed, setbacks>>

\* A read that fails looks like an account never used.
ReadFails(d) ==
    /\ pick[d].step = "reading" /\ Setback
    /\ Seen(d, Never)
    /\ UNCHANGED <<cursor, clock, passed>>

\* The clock is read for the account picked, before the write.
Stamp(d) ==
    /\ pick[d].step = "reading" /\ pick[d].rest = {}
    /\ pick' = [pick EXCEPT ![d].step = "storing", ![d].at = Text(clock)]
    /\ UNCHANGED <<cursor, clock, passed, setbacks>>

\* The second of a cursor is not over.
Recent(a) == cursor[a] >= Start(clock.second)

Answer(d) ==
    /\ pick' = [pick EXCEPT ![d] = Idle]
    /\ passed' = [a \in Accounts |-> IF a = pick[d].best THEN 0
                                     ELSE IF a \in pick[d].pool /\ ~Recent(a) THEN passed[a] + 1
                                     ELSE passed[a]]
    /\ UNCHANGED clock

\* SetLastUsed; the host gets its answer.
Store(d) ==
    /\ pick[d].step = "storing"
    /\ cursor' = [cursor EXCEPT ![pick[d].best] = pick[d].at]
    /\ Answer(d)
    /\ UNCHANGED setbacks

\* A failed write is logged; the host gets its answer all the same.
StoreFails(d) ==
    /\ pick[d].step = "storing" /\ Setback
    /\ Answer(d)
    /\ UNCHANGED cursor

\* The cursors are stored; requests being decided are lost.
Restart ==
    /\ Setback
    /\ pick' = [d \in Deciders |-> Idle]
    /\ UNCHANGED <<cursor, clock, passed>>

Next ==
    \/ \E d \in Deciders : \/ Ask(d) \/ Read(d) \/ ReadFails(d)
                           \/ Stamp(d) \/ Store(d) \/ StoreFails(d)
    \/ TimePasses
    \/ Restart

Spec == Init /\ [][Next]_vars

-----------------------------------------------------------------------------
(* Properties *)

Picks == [step : Steps, top : Int, pool : SUBSET Accounts, rest : SUBSET Accounts,
          best : Accounts \cup {Nobody}, at : Nat]

\* Every variable has its type; a pool is what is picked from, never empty.
TypeOK ==
    /\ cursor \in [Accounts -> Nat]
    /\ pick \in [Deciders -> Picks]
    /\ \A d \in Deciders :
         pick[d].step = "storing" => pick[d].best \in pick[d].pool
    /\ clock \in Moments
    /\ passed \in [Accounts -> Nat]
    /\ setbacks \in 0..MaxSetbacks

\* scheduler.go:130: the rotation never lets a low-priority account outrank a
\* high-priority one, of those that hold a state or, respecting the host's
\* priorities, of all; whatever changes between the reads.
NoOutranking ==
    \A d \in Deciders : pick[d].step = "storing" => Priority[pick[d].best] >= pick[d].top

\* How often an account may be passed over: once by every request for every
\* other account of its priority, again for every request that stores an old
\* text over a newer one, and once more for each failure.
Patience(a) ==
    LET n == Cardinality({b \in Accounts : Priority[b] = Priority[a]})
        m == Cardinality(Deciders)
    IN  (n - 1) * m + m * m + setbacks

\* scheduler.go:230: traffic spreads across the accounts.  However the requests
\* interleave and whatever the order of texts within a second, an account in the
\* pool is picked before it has been passed over more often than that, counted
\* from the end of the second in which it was picked.
Rotates == \A a \in Accounts : passed[a] <= Patience(a)

\* scheduler.go:228: the least recently used account is picked.  The order of
\* the cursors is then the order of time.
TextsFollowTime ==
    \A t, u \in Moments :
        Before(t, u) =>
            Text(t) < Text(u)
=============================================================================
