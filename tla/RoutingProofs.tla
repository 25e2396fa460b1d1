---------------------------- MODULE RoutingProofs ----------------------------
(***************************************************************************)
(* What holds of the account routing for any number of accounts and of     *)
(* requests: the types, that no pick is outranked, and that accounts take  *)
(* turns.                                                                  *)
(***************************************************************************)
EXTENDS Routing, FiniteSetTheorems, TLAPS

\* A request keeps to its tier: what it has read or picked is in its pool, and
\* only a request that has read nothing yet has nobody to pick.
PickOK(p) ==
    /\ p \in Picks
    /\ p.rest \subseteq p.pool
    /\ \A a \in p.pool : Priority[a] = p.top
    /\ p.best = Nobody \/ p.best \in p.pool
    /\ p.step # "idle" /\ p.best = Nobody => p.rest = p.pool /\ p.pool # {}
    /\ p.step = "storing" => p.best \in p.pool

IInv ==
    /\ cursor \in [Accounts -> Nat]
    /\ pick \in [Deciders -> Picks]
    /\ \A d \in Deciders : PickOK(pick[d])
    /\ clock \in Moments
    /\ passed \in [Accounts -> Nat]
    /\ setbacks \in 0..MaxSetbacks

LEMMA IdleOK == PickOK(Idle)
  BY DEF PickOK, Idle, Picks, Steps, Nobody

LEMMA SetbackType ==
    ASSUME setbacks \in 0..MaxSetbacks, Setback
    PROVE  setbacks' \in 0..MaxSetbacks
  BY SetbacksAssumption DEF Setback

\* A text is one of its second, and a later second begins no earlier.
LEMMA TextOfNow ==
    ASSUME IInv
    PROVE  /\ Start(clock.second) \in Nat /\ Text(clock) \in Nat
           /\ Text(clock) >= Start(clock.second)
  <1>1. clock.second \in Nat /\ TextOrder[clock.reading] \in Nat
    BY TextOrderAssumption DEF IInv, Moments
  <1>2. Start(clock.second) \in Nat
    BY <1>1, ReadingsAssumption DEF Start
  <1>. HIDE DEF IInv
  <1>. QED  BY <1>1, <1>2 DEF Text

LEMMA SecondsInOrder ==
    ASSUME NEW s \in Nat, NEW t \in Nat, s <= t
    PROVE  Start(s) \in Nat /\ Start(t) \in Nat /\ Start(s) <= Start(t)
  BY ReadingsAssumption DEF Start

\* One request changes, and stays as it should be.
LEMMA OneRequest ==
    ASSUME IInv, NEW d \in Deciders, NEW p, PickOK(p), pick' = [pick EXCEPT ![d] = p]
    PROVE  /\ pick' \in [Deciders -> Picks]
           /\ \A e \in Deciders : PickOK(pick'[e])
  BY DEF IInv, PickOK

LEMMA SeenOK ==
    ASSUME IInv, NEW d \in Deciders, pick[d].step = "reading",
           NEW times \in [Accounts -> Nat], Seen(d, times)
    PROVE  /\ pick' \in [Deciders -> Picks]
           /\ \A e \in Deciders : PickOK(pick'[e])
  <1>1. PickOK(pick[d])
    BY DEF IInv
  <1>2. PICK a \in pick[d].rest :
          pick' = [pick EXCEPT ![d] =
                      IF Better(pick[d], times[a])
                      THEN [pick[d] EXCEPT !.rest = @ \ {a}, !.best = a, !.at = times[a]]
                      ELSE [pick[d] EXCEPT !.rest = @ \ {a}]]
    BY DEF Seen
  <1>3. a \in pick[d].pool /\ a \in Accounts /\ a # Nobody
    BY <1>1, AccountsAssumption DEF PickOK, Picks, Nobody
  <1>4. PickOK([pick[d] EXCEPT !.rest = @ \ {a}, !.best = a, !.at = times[a]])
    BY <1>1, <1>3 DEF PickOK, Picks
  <1>5. CASE Better(pick[d], times[a])
    BY <1>2, <1>4, <1>5, OneRequest
  <1>6. CASE ~Better(pick[d], times[a])
    <2>1. pick[d].best # Nobody
      BY <1>6 DEF Better
    <2>2. PickOK([pick[d] EXCEPT !.rest = @ \ {a}])
      BY <1>1, <2>1 DEF PickOK, Picks
    <2>. QED  BY <1>2, <1>6, <2>2, OneRequest
  <1>. QED  BY <1>5, <1>6

LEMMA InitOK == Init => IInv
  <1>. SUFFICES ASSUME Init
                PROVE  IInv
    OBVIOUS
  <1>1. clock \in Moments
    BY ReadingsAssumption, MaxSecondAssumption DEF Init, Moments
  <1>. QED  BY <1>1, IdleOK, SetbacksAssumption DEF Init, IInv, PickOK, Never

LEMMA StepOK == IInv /\ [Next]_vars => IInv'
  <1>. SUFFICES ASSUME IInv, [Next]_vars
                PROVE  IInv'
    OBVIOUS
  <1>. DEFINE Good == /\ pick' \in [Deciders -> Picks]
                      /\ \A e \in Deciders : PickOK(pick'[e])
  <1>1. ASSUME NEW d \in Deciders, Ask(d)
        PROVE  IInv'
    <2>. DEFINE Asked(held, top) ==
                   /\ Tier(held, top) # {}
                   /\ pick' = [pick EXCEPT ![d] = [Idle EXCEPT !.step = "reading", !.top = top,
                                                              !.pool = Tier(held, top),
                                                              !.rest = Tier(held, top)]]
    <2>0. PICK held \in SUBSET Accounts : \E top : Asked(held, top)
      BY <1>1 DEF Ask
    <2>1. PICK top : Asked(held, top)
      BY <2>0
    <2>2. top \in Int
      BY <2>1, PriorityAssumption DEF Tier
    <2>3. PickOK([Idle EXCEPT !.step = "reading", !.top = top, !.pool = Tier(held, top),
                              !.rest = Tier(held, top)])
      BY <2>1, <2>2 DEF PickOK, Picks, Idle, Tier, Steps, Nobody
    <2>. QED  BY <1>1, <2>1, <2>3, OneRequest DEF Ask, IInv
  <1>2. ASSUME NEW d \in Deciders, Read(d)
        PROVE  IInv'
    <2>1. Good
      BY <1>2, SeenOK DEF Read, IInv
    <2>. QED  BY <1>2, <2>1 DEF Read, IInv
  <1>3. ASSUME NEW d \in Deciders, ReadFails(d)
        PROVE  IInv'
    <2>1. Never \in [Accounts -> Nat]
      BY DEF Never
    <2>2. Good
      BY <1>3, <2>1, SeenOK DEF ReadFails
    <2>. QED  BY <1>3, <2>2, SetbackType DEF ReadFails, IInv
  <1>4. ASSUME NEW d \in Deciders, Stamp(d)
        PROVE  IInv'
    <2>1. PickOK(pick[d]) /\ pick[d].step = "reading" /\ pick[d].rest = {}
      BY <1>4 DEF Stamp, IInv
    <2>2. pick' = [pick EXCEPT ![d] = [pick[d] EXCEPT !.step = "storing", !.at = Text(clock)]]
      BY <1>4 DEF Stamp, IInv
    <2>3. Text(clock) \in Nat
      BY TextOfNow
    <2>4. PickOK([pick[d] EXCEPT !.step = "storing", !.at = Text(clock)])
      BY <2>1, <2>3 DEF PickOK, Picks, Steps
    <2>5. Good
      BY <2>2, <2>4, OneRequest
    <2>. QED  BY <1>4, <2>5 DEF Stamp, IInv
  <1>5. ASSUME NEW d \in Deciders, Answer(d)
        PROVE  Good /\ passed' \in [Accounts -> Nat]
    <2>1. Good
      BY <1>5, IdleOK, OneRequest DEF Answer
    <2>2. passed' \in [Accounts -> Nat]
      BY <1>5 DEF Answer, IInv
    <2>. QED  BY <2>1, <2>2
  <1>6. ASSUME NEW d \in Deciders, Store(d)
        PROVE  IInv'
    <2>1. PickOK(pick[d])
      BY DEF IInv
    <2>2. pick[d].best \in Accounts /\ pick[d].at \in Nat
      BY <1>6, <2>1 DEF Store, PickOK, Picks
    <2>3. cursor' \in [Accounts -> Nat]
      BY <1>6, <2>2 DEF Store, IInv
    <2>. QED  BY <1>5, <1>6, <2>3 DEF Store, Answer, IInv
  <1>7. ASSUME NEW d \in Deciders, StoreFails(d)
        PROVE  IInv'
    BY <1>5, <1>7, SetbackType DEF StoreFails, Answer, IInv
  <1>8. CASE Restart
    BY <1>8, IdleOK, SetbackType DEF Restart, IInv, PickOK
  <1>9. CASE UNCHANGED vars
    BY <1>9 DEF vars, IInv
  <1>10. CASE TimePasses
    BY <1>10 DEF TimePasses, IInv
  <1>. QED  BY <1>1, <1>2, <1>3, <1>4, <1>6, <1>7, <1>8, <1>9, <1>10 DEF Next

LEMMA Inductive == Spec => []IInv
  BY InitOK, StepOK, PTL DEF Spec

\* Every variable keeps its type, and no request picks outside its pool.
THEOREM TypeCorrect == Spec => []TypeOK
  <1>1. IInv => TypeOK
    BY DEF IInv, PickOK, TypeOK
  <1>. QED  BY <1>1, Inductive, PTL

\* No account picked is outranked by one that the strategy would have preferred,
\* whatever other requests, failures and restarts do in between.
THEOREM NobodyIsOutranked == Spec => []NoOutranking
  <1>1. IInv => NoOutranking
    BY PriorityAssumption DEF IInv, PickOK, Picks, NoOutranking
  <1>. QED  BY <1>1, Inductive, PTL

-----------------------------------------------------------------------------
(* Turns.  How often may an account a still be passed over before it is    *)
(* picked?  Every account of its priority that is ahead of it, its text    *)
(* being no later, can be picked by each request once before it is stored; *)
(* a request that stores an old text over a newer one puts an account      *)
(* ahead again; and a request may be due to pass it over for reasons of    *)
(* its own.  Once the second of a's cursor is over every new text is later *)
(* than it: from then on no step makes this debt of a larger without a     *)
(* setback, and each passing takes one from it.                            *)

m == Cardinality(Deciders)
Peers(a) == {b \in Accounts : Priority[b] = Priority[a]}
n(a) == Cardinality(Peers(a))

\* With the cursors c: the accounts ahead of a, the requests that are about to
\* store a text no later than a's, and those that may pass over a although what they
\* have picked, or may yet pick, is not ahead of it.
Ahead(c, a) == {b \in Peers(a) \ {a} : c[b] <= c[a]}

Lags(c, a, p) == p.step = "storing" /\ p.best \in Peers(a) \ {a} /\ p.at <= c[a]

Due(c, a, p) ==
    /\ a \in p.pool /\ p.best # Nobody
    /\ \/ /\ p.step = "storing" /\ p.best # a
          /\ p.at > c[a] /\ c[p.best] > c[a]
       \/ /\ p.step = "reading" /\ a \in p.rest
          /\ p.at <= c[a] /\ c[p.best] > c[a]
       \/ /\ p.step = "reading" /\ a \notin p.rest
          /\ p.at > c[a] \/ c[p.best] > c[a]

Laggards(c, q, a) == {d \in Deciders : Lags(c, a, q[d])}
Debtors(c, q, a) == {d \in Deciders : Due(c, a, q[d])}

\* While everybody is ahead of a, a laggard can put nobody ahead of it again.
Owed(e, u, s, peers) == m * e + u + m * s + (IF e = peers - 1 THEN 0 ELSE s)

Debt(c, q, a) ==
    Owed(Cardinality(Ahead(c, a)), Cardinality(Debtors(c, q, a)),
         Cardinality(Laggards(c, q, a)), n(a))

Credit(a) == (n(a) - 1) * m + m * m

\* While the second of its cursor lasts, nothing is counted.
TurnOf(a) ==
    IF Recent(a) THEN passed[a] = 0
    ELSE passed[a] + Debt(cursor, pick, a) <= Credit(a) + setbacks

Turns == \A a \in Accounts : TurnOf(a)

\* The sizes that the debt is counted with.
LEMMA Sizes ==
    ASSUME NEW a \in Accounts, NEW c, NEW q
    PROVE  /\ m \in Nat /\ n(a) \in Nat \ {0}
           /\ IsFiniteSet(Ahead(c, a)) /\ IsFiniteSet(Debtors(c, q, a))
           /\ IsFiniteSet(Laggards(c, q, a))
           /\ Cardinality(Ahead(c, a)) \in Nat /\ Cardinality(Ahead(c, a)) <= n(a) - 1
           /\ Cardinality(Debtors(c, q, a)) \in Nat /\ Cardinality(Laggards(c, q, a)) \in Nat
           /\ Credit(a) \in Int
  <1>1. m \in Nat
    BY DecidersAssumption, FS_CardinalityType DEF m
  <1>2. IsFiniteSet(Peers(a)) /\ a \in Peers(a)
    BY AccountsAssumption, FS_Subset DEF Peers
  <1>3. n(a) \in Nat \ {0}
    BY <1>2, FS_CardinalityType, FS_EmptySet DEF n
  <1>4. IsFiniteSet(Peers(a) \ {a}) /\ Cardinality(Peers(a) \ {a}) = n(a) - 1
    BY <1>2, FS_RemoveElement DEF n
  <1>5. IsFiniteSet(Ahead(c, a)) /\ Cardinality(Ahead(c, a)) <= n(a) - 1
    BY <1>4, FS_Subset DEF Ahead
  <1>6. IsFiniteSet(Debtors(c, q, a)) /\ Cardinality(Debtors(c, q, a)) <= m
    BY DecidersAssumption, FS_Subset DEF Debtors, m
  <1>7. IsFiniteSet(Laggards(c, q, a)) /\ Cardinality(Laggards(c, q, a)) <= m
    BY DecidersAssumption, FS_Subset DEF Laggards, m
  <1>. QED
    BY <1>1, <1>3, <1>5, <1>6, <1>7, FS_CardinalityType DEF Credit

\* The debt as a number.
LEMMA OwedType ==
    ASSUME m \in Nat, NEW e \in Nat, NEW u \in Nat, NEW s \in Nat, NEW peers \in Nat
    PROVE  Owed(e, u, s, peers) \in Nat
  BY DEF Owed

LEMMA OwedLess ==
    ASSUME m \in Nat, NEW e \in Nat, NEW u \in Nat, NEW s \in Nat, NEW peers \in Nat,
           NEW v \in Nat, NEW t \in Nat, t <= s, NEW k \in Int, v + k <= u
    PROVE  Owed(e, v, t, peers) + k <= Owed(e, u, s, peers)
  <1>1. m * t <= m * s
    OBVIOUS
  <1>. QED  BY <1>1 DEF Owed

\* Whoever stores a new time is no longer ahead.
LEMMA OwedAfterNew ==
    ASSUME m \in Nat, NEW e \in Nat \ {0}, NEW u \in Nat, NEW s \in Nat, NEW peers \in Nat,
           e <= peers - 1, NEW v \in Nat, NEW t \in Nat, t <= s, v + t <= m - 1
    PROVE  Owed(e - 1, v, t, peers) + 1 <= Owed(e, u, s, peers)
  <1>1. m * t <= m * s /\ m * (e - 1) = m * e - m
    OBVIOUS
  <1>2. m * t \in Nat /\ m * s \in Nat /\ m * e \in Nat
    OBVIOUS
  <1>. QED  BY <1>1, <1>2 DEF Owed

\* Whoever stores an old time may be ahead again.
LEMMA OwedAfterOld ==
    ASSUME m \in Nat \ {0}, NEW e \in Nat, NEW u \in Nat, NEW s \in Nat \ {0}, NEW peers \in Nat,
           NEW v \in Nat, v <= u, NEW f \in {e, e + 1}, f <= peers - 1
    PROVE  Owed(f, v, s - 1, peers) + 1 <= Owed(e, u, s, peers)
  <1>1. m * (s - 1) = m * s - m /\ m * (e + 1) = m * e + m
    OBVIOUS
  <1>2. m * s \in Nat /\ m * e \in Nat
    OBVIOUS
  <1>. QED  BY <1>1, <1>2 DEF Owed

\* No request is both: the debt is covered.
LEMMA OwedAtMost ==
    ASSUME m \in Nat, NEW e \in Nat, NEW u \in Nat, NEW s \in Nat, NEW peers \in Nat \ {0},
           e <= peers - 1, u + s <= m
    PROVE  Owed(e, u, s, peers) <= (peers - 1) * m + m * m
  <1>1. m * s + u <= m * m
    <2>1. s <= m - u /\ m - u \in Nat
      OBVIOUS
    <2>2. m * s <= m * (m - u)
      BY <2>1
    <2>3. m * (m - u) = m * m - m * u
      OBVIOUS
    <2>4. u <= m * u
      OBVIOUS
    <2>. QED  BY <2>2, <2>3, <2>4
  <1>2. CASE e = peers - 1
    BY <1>1, <1>2 DEF Owed
  <1>3. CASE e <= peers - 2
    <2>1. m * e <= m * (peers - 2)
      BY <1>3
    <2>2. m * (peers - 2) = (peers - 1) * m - m
      OBVIOUS
    <2>3. m * e \in Int /\ m * s \in Int /\ m * m \in Int /\ (peers - 1) * m \in Int
      OBVIOUS
    <2>. QED  BY <1>1, <1>3, <2>1, <2>2, <2>3 DEF Owed
  <1>. QED  BY <1>2, <1>3

LEMMA DebtType ==
    ASSUME NEW a \in Accounts, NEW c, NEW q
    PROVE  Debt(c, q, a) \in Nat
  <1>1. /\ m \in Nat /\ n(a) \in Nat
        /\ Cardinality(Ahead(c, a)) \in Nat /\ Cardinality(Debtors(c, q, a)) \in Nat
        /\ Cardinality(Laggards(c, q, a)) \in Nat
    BY Sizes
  <1>. QED  BY <1>1, OwedType DEF Debt

\* How the debt changes: it never grows, but by what a request newly owes ...
LEMMA DebtLess ==
    ASSUME NEW a \in Accounts, NEW c, NEW d, NEW q, NEW r,
           Cardinality(Ahead(d, a)) = Cardinality(Ahead(c, a)),
           Laggards(d, r, a) \subseteq Laggards(c, q, a),
           NEW k \in Int,
           Cardinality(Debtors(d, r, a)) + k <= Cardinality(Debtors(c, q, a))
    PROVE  Debt(d, r, a) + k <= Debt(c, q, a)
  <1>1. Cardinality(Laggards(d, r, a)) <= Cardinality(Laggards(c, q, a))
    BY Sizes, FS_Subset
  <1>2. /\ m \in Nat /\ n(a) \in Nat /\ Cardinality(Ahead(c, a)) \in Nat
        /\ Cardinality(Debtors(c, q, a)) \in Nat /\ Cardinality(Laggards(c, q, a)) \in Nat
        /\ Cardinality(Debtors(d, r, a)) \in Nat /\ Cardinality(Laggards(d, r, a)) \in Nat
    BY Sizes
  <1>. QED  BY <1>1, <1>2, OwedLess DEF Debt

LEMMA DebtSame ==
    ASSUME NEW a \in Accounts, NEW c, NEW d, NEW q, NEW r,
           Cardinality(Ahead(d, a)) = Cardinality(Ahead(c, a)),
           Laggards(d, r, a) \subseteq Laggards(c, q, a),
           Debtors(d, r, a) \subseteq Debtors(c, q, a)
    PROVE  Debt(d, r, a) <= Debt(c, q, a)
  <1>1. Cardinality(Debtors(d, r, a)) + 0 <= Cardinality(Debtors(c, q, a))
    BY Sizes, FS_Subset
  <1>2. Debt(d, r, a) + 0 <= Debt(c, q, a)
    BY <1>1, DebtLess
  <1>3. Debt(d, r, a) \in Nat
    BY DebtType
  <1>. QED  BY <1>2, <1>3

\* A request cannot be both ...
LEMMA NoneIsBoth ==
    ASSUME NEW a \in Accounts, NEW c \in [Accounts -> Nat], NEW q,
           \A e \in Deciders : q[e] \in Picks
    PROVE  Cardinality(Debtors(c, q, a) \cup Laggards(c, q, a)) =
               Cardinality(Debtors(c, q, a)) + Cardinality(Laggards(c, q, a))
  <1>. DEFINE U == Debtors(c, q, a)
              L == Laggards(c, q, a)
  <1>1. U \cap L = {}
    <2>1. ASSUME NEW e \in Deciders, Due(c, a, q[e]), Lags(c, a, q[e])
          PROVE  FALSE
      <3>1. c[a] \in Nat /\ q[e].at \in Nat
        BY DEF Picks
      <3>. QED  BY <2>1, <3>1 DEF Due, Lags
    <2>. QED  BY <2>1 DEF Debtors, Laggards
  <1>. HIDE DEF U, L
  <1>2. IsFiniteSet(U) /\ IsFiniteSet(L) /\ Cardinality(U) \in Nat /\ Cardinality(L) \in Nat
    BY Sizes DEF U, L
  <1>3. Cardinality(U \cap L) = 0
    BY <1>1, FS_EmptySet
  <1>4. Cardinality(U \cup L) = Cardinality(U) + Cardinality(L) - Cardinality(U \cap L)
    BY <1>2, FS_Union
  <1>5. Cardinality(U \cup L) = Cardinality(U) + Cardinality(L)
    BY <1>2, <1>3, <1>4
  <1>. QED  BY <1>5 DEF U, L

\* ... and one that is idle is neither.
LEMMA OneIsIdle ==
    ASSUME NEW a \in Accounts, NEW c \in [Accounts -> Nat], NEW q, NEW d \in Deciders,
           q[d] = Idle, \A e \in Deciders : q[e] \in Picks
    PROVE  Cardinality(Debtors(c, q, a)) + Cardinality(Laggards(c, q, a)) <= m - 1
  <1>1. Debtors(c, q, a) \cup Laggards(c, q, a) \subseteq Deciders \ {d}
    BY DEF Debtors, Laggards, Due, Lags, Idle
  <1>2. IsFiniteSet(Deciders \ {d}) /\ Cardinality(Deciders \ {d}) = m - 1
    BY DecidersAssumption, FS_RemoveElement DEF m
  <1>3. Cardinality(Debtors(c, q, a) \cup Laggards(c, q, a)) <= m - 1
    BY <1>1, <1>2, FS_Subset
  <1>. QED  BY <1>3, NoneIsBoth

LEMMA DebtIsCovered ==
    ASSUME NEW a \in Accounts, NEW c \in [Accounts -> Nat], NEW q,
           \A e \in Deciders : q[e] \in Picks
    PROVE  Debt(c, q, a) <= Credit(a)
  <1>1. Debtors(c, q, a) \cup Laggards(c, q, a) \subseteq Deciders
    BY DEF Debtors, Laggards
  <1>2. Cardinality(Debtors(c, q, a) \cup Laggards(c, q, a)) <= m
    BY <1>1, DecidersAssumption, FS_Subset DEF m
  <1>3. Cardinality(Debtors(c, q, a)) + Cardinality(Laggards(c, q, a)) <= m
    BY <1>2, NoneIsBoth
  <1>. QED  BY <1>3, Sizes, OwedAtMost DEF Debt, Credit

-----------------------------------------------------------------------------
(* The debt of an account, step by step *)

\* A request that reads one more account owes nothing new.
LEMMA ReadOwesNothing ==
    ASSUME IInv, NEW d \in Deciders, Read(d), NEW a \in Accounts
    PROVE  Debt(cursor', pick', a) <= Debt(cursor, pick, a)
  <1>. DEFINE p == pick[d]
  <1>1. p.step = "reading" /\ PickOK(p) /\ cursor' = cursor /\ cursor \in [Accounts -> Nat]
    BY DEF Read, IInv
  <1>2. PICK x \in p.rest :
          pick' = [pick EXCEPT ![d] =
                      IF Better(p, cursor[x])
                      THEN [p EXCEPT !.rest = @ \ {x}, !.best = x, !.at = cursor[x]]
                      ELSE [p EXCEPT !.rest = @ \ {x}]]
    BY DEF Read, Seen
  <1>. DEFINE r == pick'[d]
  <1>3. /\ p \in Picks /\ p.rest \subseteq p.pool /\ p.at \in Nat
        /\ x \in Accounts /\ x # Nobody /\ cursor[x] \in Nat /\ cursor[a] \in Nat
        /\ p.best # Nobody => p.best \in Accounts /\ cursor[p.best] \in Nat
        /\ p.best = Nobody => p.rest = p.pool
    <2>1. /\ p \in Picks /\ p.rest \subseteq p.pool /\ p.at \in Nat /\ p.pool \subseteq Accounts
          /\ p.best # Nobody => p.best \in Accounts
          /\ p.best = Nobody => p.rest = p.pool
      BY <1>1 DEF PickOK, Picks
    <2>2. x \in Accounts /\ x \in Nat
      BY <2>1, AccountsAssumption
    <2>3. x # Nobody
      BY <2>2 DEF Nobody
    <2>4. \A y \in Accounts : cursor[y] \in Nat
      BY <1>1
    <2>. HIDE DEF p
    <2>. QED  BY <2>1, <2>2, <2>3, <2>4
  <1>4. \A e \in Deciders : e # d => pick'[e] = pick[e]
    BY <1>2 DEF IInv
  <1>5. r.step = "reading" /\ r.pool = p.pool /\ r.rest = p.rest \ {x}
    BY <1>1, <1>2, <1>3 DEF IInv, Picks
  <1>6. ASSUME Due(cursor, a, r)
        PROVE  Due(cursor, a, p)
    <2>1. CASE Better(p, cursor[x])
      <3>1. r.best = x /\ r.at = cursor[x]
        BY <1>2, <1>3, <2>1 DEF IInv, Picks
      <3>2. x # a /\ a \notin p.rest /\ cursor[x] > cursor[a]
        BY <1>3, <1>5, <1>6, <3>1 DEF Due
      <3>3. p.best # Nobody /\ cursor[x] < p.at
        BY <1>3, <1>5, <1>6, <2>1, <3>2 DEF Due, Better
      <3>. QED  BY <1>1, <1>3, <1>5, <1>6, <3>2, <3>3 DEF Due
    <2>2. CASE ~Better(p, cursor[x])
      <3>1. r.best = p.best /\ r.at = p.at
        BY <1>2, <1>3, <2>2 DEF IInv, Picks
      <3>2. p.best # Nobody /\ p.at <= cursor[x]
        BY <1>3, <2>2 DEF Better
      <3>3. CASE x = a
        BY <1>1, <1>3, <1>5, <1>6, <3>1, <3>2, <3>3 DEF Due
      <3>4. CASE x # a
        BY <1>1, <1>3, <1>5, <1>6, <3>1, <3>2, <3>4 DEF Due
      <3>. QED  BY <3>3, <3>4
    <2>. QED  BY <2>1, <2>2
  <1>7. ~Lags(cursor, a, r)
    BY <1>5 DEF Lags
  <1>. HIDE DEF p, r
  <1>8. Debtors(cursor', pick', a) \subseteq Debtors(cursor, pick, a)
    BY <1>1, <1>4, <1>6 DEF Debtors, p, r
  <1>9. Laggards(cursor', pick', a) \subseteq Laggards(cursor, pick, a)
    BY <1>1, <1>4, <1>7 DEF Laggards, p, r
  <1>. QED  BY <1>1, <1>8, <1>9, DebtSame

\* One request changes in a way that says nothing of its debt: it may owe one
\* more, but it is no laggard.
LEMMA OneMoreDebt ==
    ASSUME IInv, NEW d \in Deciders, NEW a \in Accounts, cursor' = cursor,
           \A e \in Deciders : e # d => pick'[e] = pick[e],
           pick'[d].step # "storing"
    PROVE  Debt(cursor', pick', a) <= Debt(cursor, pick, a) + 1
  <1>1. Laggards(cursor', pick', a) \subseteq Laggards(cursor, pick, a)
    BY DEF Laggards, Lags
  <1>2. Debtors(cursor', pick', a) \subseteq Debtors(cursor, pick, a) \cup {d}
    BY DEF Debtors
  <1>3. /\ IsFiniteSet(Debtors(cursor, pick, a) \cup {d})
        /\ Cardinality(Debtors(cursor, pick, a) \cup {d}) <= Cardinality(Debtors(cursor, pick, a)) + 1
    <2>. DEFINE U == Debtors(cursor, pick, a)
    <2>1. IsFiniteSet(U) /\ Cardinality(U) \in Nat
      BY Sizes
    <2>. HIDE DEF U
    <2>2. /\ IsFiniteSet(U \cup {d})
          /\ Cardinality(U \cup {d}) = IF d \in U THEN Cardinality(U) ELSE Cardinality(U) + 1
      BY <2>1, FS_AddElement
    <2>3. Cardinality(U \cup {d}) <= Cardinality(U) + 1
      BY <2>1, <2>2
    <2>. QED  BY <2>2, <2>3 DEF U
  <1>4. Cardinality(Debtors(cursor', pick', a)) <= Cardinality(Debtors(cursor, pick, a) \cup {d})
    BY <1>2, <1>3, FS_Subset
  <1>5. /\ Cardinality(Debtors(cursor', pick', a)) \in Nat /\ Cardinality(Debtors(cursor, pick, a)) \in Nat
        /\ Cardinality(Debtors(cursor, pick, a) \cup {d}) \in Nat
    BY <1>3, Sizes, FS_CardinalityType
  <1>6. Cardinality(Debtors(cursor', pick', a)) + (-1) <= Cardinality(Debtors(cursor, pick, a))
    BY <1>3, <1>4, <1>5
  <1>7. Debt(cursor', pick', a) + (-1) <= Debt(cursor, pick, a)
    BY <1>1, <1>6, DebtLess
  <1>. QED  BY <1>7, DebtType

\* A request that is idle, or has not read anything, owes nothing.
LEMMA FreshOwesNothing ==
    ASSUME IInv, NEW d \in Deciders, NEW a \in Accounts, cursor' = cursor,
           \A e \in Deciders : e # d => pick'[e] = pick[e],
           pick'[d].step # "storing", pick'[d].best = Nobody
    PROVE  Debt(cursor', pick', a) <= Debt(cursor, pick, a)
  <1>1. Laggards(cursor', pick', a) \subseteq Laggards(cursor, pick, a)
    BY DEF Laggards, Lags
  <1>2. Debtors(cursor', pick', a) \subseteq Debtors(cursor, pick, a)
    BY DEF Debtors, Due
  <1>. QED  BY <1>1, <1>2, DebtSame

\* A new text is later than that of an account whose second is over.
LEMMA StampOwesNothing ==
    ASSUME IInv, NEW d \in Deciders, Stamp(d), NEW a \in Accounts, ~Recent(a)
    PROVE  Debt(cursor', pick', a) <= Debt(cursor, pick, a)
  <1>1. cursor' = cursor /\ \A x \in Accounts : cursor[x] \in Nat
    BY DEF Stamp, IInv
  <1>2. /\ pick[d].step = "reading" /\ pick[d].rest = {}
        /\ pick'[d].step = "storing" /\ pick'[d].pool = pick[d].pool
        /\ pick'[d].best = pick[d].best /\ pick'[d].at = Text(clock)
    BY DEF Stamp, IInv, Picks
  <1>3. \A e \in Deciders : e # d => pick'[e] = pick[e]
    BY DEF Stamp, IInv
  <1>4. cursor[a] < Text(clock) /\ Text(clock) \in Nat
    BY <1>1, TextOfNow DEF Recent
  <1>5. ~Lags(cursor', a, pick'[d])
    BY <1>1, <1>2, <1>4 DEF Lags
  <1>6. Due(cursor', a, pick'[d]) => Due(cursor, a, pick[d])
    BY <1>1, <1>2 DEF Due
  <1>7. Laggards(cursor', pick', a) \subseteq Laggards(cursor, pick, a)
    BY <1>1, <1>3, <1>5 DEF Laggards
  <1>8. Debtors(cursor', pick', a) \subseteq Debtors(cursor, pick, a)
    BY <1>1, <1>3, <1>6 DEF Debtors
  <1>. QED  BY <1>1, <1>7, <1>8, DebtSame

\* The account picked has its turn: its count begins anew, and what it is owed
\* is covered by the others.
LEMMA PickedIsCovered ==
    ASSUME IInv, IInv', NEW d \in Deciders, Answer(d), NEW a \in Accounts, a = pick[d].best
    PROVE  passed'[a] = 0 /\ Debt(cursor', pick', a) <= Credit(a)
  <1>1. passed'[a] = 0
    BY DEF Answer, IInv
  <1>2. cursor' \in [Accounts -> Nat] /\ \A e \in Deciders : pick'[e] \in Picks
    BY DEF IInv
  <1>. QED  BY <1>1, <1>2, DebtIsCovered

\* What an answer says of the account a.
LEMMA AnswerPasses ==
    ASSUME IInv, NEW d \in Deciders, Answer(d), pick[d].step = "storing", NEW a \in Accounts,
           a # pick[d].best
    PROVE  /\ pick[d].best \in Accounts /\ pick[d].at \in Nat
           /\ pick'[d] = Idle /\ \A e \in Deciders : e # d => pick'[e] = pick[e]
           /\ passed'[a] <= passed[a] + 1
           /\ a \notin pick[d].pool => passed'[a] = passed[a]
           /\ Recent(a) => passed'[a] = passed[a]
           /\ a \in pick[d].pool => pick[d].best \in Peers(a)
           /\ passed[a] \in Nat /\ passed'[a] \in Nat
  BY DEF Answer, IInv, PickOK, Picks, Peers, Idle

LEMMA StoreTurns ==
    ASSUME IInv, IInv', NEW d \in Deciders, Store(d), NEW a \in Accounts, a # pick[d].best
    PROVE  passed'[a] + Debt(cursor', pick', a) <= passed[a] + Debt(cursor, pick, a)
  <1>. DEFINE b == pick[d].best
              t == pick[d].at
  <1>1. /\ Answer(d) /\ pick[d].step = "storing" /\ cursor' = [cursor EXCEPT ![b] = t]
        /\ b \in Accounts /\ t \in Nat
        /\ pick'[d] = Idle /\ \A e \in Deciders : e # d => pick'[e] = pick[e]
        /\ passed'[a] <= passed[a] + 1
        /\ a \notin pick[d].pool => passed'[a] = passed[a]
        /\ a \in pick[d].pool => b \in Peers(a)
        /\ passed[a] \in Nat /\ passed'[a] \in Nat
    BY AnswerPasses DEF Store
  <1>2. /\ cursor'[b] = t /\ \A x \in Accounts : x # b => cursor'[x] = cursor[x]
        /\ cursor'[a] = cursor[a]
        /\ \A x \in Accounts : cursor[x] \in Nat /\ cursor'[x] \in Nat
    BY <1>1 DEF IInv
  <1>3. \A e \in Deciders : pick[e] \in Picks /\ PickOK(pick[e])
    BY DEF IInv
  <1>4. ~Due(cursor', a, pick'[d]) /\ ~Lags(cursor', a, pick'[d])
    BY <1>1 DEF Due, Lags, Idle
  <1>5. Laggards(cursor', pick', a) = Laggards(cursor, pick, a) \ {d}
    BY <1>1, <1>2, <1>4 DEF Laggards, Lags
  <1>6. /\ Debt(cursor', pick', a) \in Nat /\ Debt(cursor, pick, a) \in Nat
        /\ m \in Nat \ {0} /\ n(a) \in Nat \ {0}
        /\ Cardinality(Ahead(cursor, a)) \in Nat /\ Cardinality(Ahead(cursor, a)) <= n(a) - 1
        /\ Cardinality(Ahead(cursor', a)) <= n(a) - 1
        /\ IsFiniteSet(Ahead(cursor, a)) /\ IsFiniteSet(Laggards(cursor, pick, a))
        /\ IsFiniteSet(Debtors(cursor, pick, a))
        /\ Cardinality(Debtors(cursor, pick, a)) \in Nat
        /\ Cardinality(Debtors(cursor', pick', a)) \in Nat
        /\ Cardinality(Laggards(cursor, pick, a)) \in Nat
        /\ Cardinality(Laggards(cursor', pick', a)) \in Nat
    <2>1. m # 0
      BY DecidersAssumption, FS_EmptySet DEF m
    <2>. QED  BY <2>1, Sizes, DebtType
  <1>7. \A e \in Deciders : a \in pick[e].pool /\ pick[e].best # Nobody =>
                              pick[e].best \in Peers(a)
    BY <1>3 DEF PickOK, Picks, Peers
  <1>. HIDE DEF b, t
  <1>8. CASE b \notin Peers(a)
    <2>1. Ahead(cursor', a) = Ahead(cursor, a)
      BY <1>2, <1>8 DEF Ahead, Peers
    <2>2. Debtors(cursor', pick', a) \subseteq Debtors(cursor, pick, a)
      BY <1>1, <1>2, <1>4, <1>7, <1>8 DEF Debtors, Due, Peers
    <2>3. Debt(cursor', pick', a) <= Debt(cursor, pick, a)
      BY <1>5, <2>1, <2>2, DebtSame
    <2>4. passed'[a] = passed[a]
      BY <1>1, <1>8
    <2>. QED  BY <1>1, <1>6, <2>3, <2>4
  <1>9. CASE b \in Peers(a) /\ t <= cursor[a]
    <2>1. d \in Laggards(cursor, pick, a)
      BY <1>1, <1>9 DEF Laggards, Lags, b, t
    <2>2. Cardinality(Laggards(cursor', pick', a)) = Cardinality(Laggards(cursor, pick, a)) - 1
      BY <1>5, <1>6, <2>1, FS_RemoveElement
    <2>3. Ahead(cursor', a) = Ahead(cursor, a) \cup {b}
      BY <1>1, <1>2, <1>9 DEF Ahead, Peers, b
    <2>4. Cardinality(Ahead(cursor', a)) \in {Cardinality(Ahead(cursor, a)), Cardinality(Ahead(cursor, a)) + 1}
      BY <1>6, <2>3, FS_AddElement
    <2>5. Debtors(cursor', pick', a) \subseteq Debtors(cursor, pick, a)
      BY <1>1, <1>2, <1>4, <1>7, <1>9 DEF Debtors, Due, Peers
    <2>6. Cardinality(Debtors(cursor', pick', a)) <= Cardinality(Debtors(cursor, pick, a))
      BY <1>6, <2>5, FS_Subset
    <2>7. Cardinality(Laggards(cursor, pick, a)) \in Nat \ {0}
      BY <1>6, <2>1, FS_EmptySet
    <2>8. Debt(cursor', pick', a) + 1 <= Debt(cursor, pick, a)
      BY <1>6, <2>2, <2>4, <2>6, <2>7, OwedAfterOld DEF Debt
    <2>. QED  BY <1>1, <1>6, <2>8
  <1>10. CASE b \in Peers(a) /\ t > cursor[a] /\ cursor[b] <= cursor[a]
    <2>1. Ahead(cursor', a) = Ahead(cursor, a) \ {b} /\ b \in Ahead(cursor, a)
      BY <1>1, <1>2, <1>10 DEF Ahead, Peers, b
    <2>2. Cardinality(Ahead(cursor', a)) = Cardinality(Ahead(cursor, a)) - 1
      BY <1>6, <2>1, FS_RemoveElement
    <2>3. Cardinality(Ahead(cursor, a)) \in Nat \ {0}
      BY <1>6, <2>1, FS_EmptySet
    <2>4. Cardinality(Debtors(cursor', pick', a)) + Cardinality(Laggards(cursor', pick', a)) <= m - 1
      <3>1. cursor' \in [Accounts -> Nat] /\ \A e \in Deciders : pick'[e] \in Picks
        BY DEF IInv
      <3>. QED  BY <1>1, <3>1, OneIsIdle
    <2>5. Cardinality(Laggards(cursor', pick', a)) <= Cardinality(Laggards(cursor, pick, a))
      BY <1>5, <1>6, FS_Subset
    <2>6. Debt(cursor', pick', a) + 1 <= Debt(cursor, pick, a)
      BY <1>6, <2>2, <2>3, <2>4, <2>5, OwedAfterNew DEF Debt
    <2>. QED  BY <1>1, <1>6, <2>6
  <1>11. CASE b \in Peers(a) /\ t > cursor[a] /\ cursor[b] > cursor[a]
    <2>1. Ahead(cursor', a) = Ahead(cursor, a)
      BY <1>1, <1>2, <1>11 DEF Ahead, Peers, b
    <2>2. Debtors(cursor', pick', a) \subseteq Debtors(cursor, pick, a) \ {d}
      BY <1>1, <1>2, <1>4, <1>7, <1>11 DEF Debtors, Due, Peers
    <2>3. CASE a \in pick[d].pool
      <3>1. d \in Debtors(cursor, pick, a)
        <4>1. b # Nobody
          BY <1>1, AccountsAssumption DEF Nobody
        <4>. QED  BY <1>1, <1>11, <2>3, <4>1 DEF Debtors, Due, b, t
      <3>2. /\ IsFiniteSet(Debtors(cursor, pick, a) \ {d})
            /\ Cardinality(Debtors(cursor, pick, a) \ {d}) = Cardinality(Debtors(cursor, pick, a)) - 1
        BY <1>6, <3>1, FS_RemoveElement
      <3>3. Cardinality(Debtors(cursor', pick', a)) <= Cardinality(Debtors(cursor, pick, a)) - 1
        BY <2>2, <3>2, FS_Subset
      <3>4. Cardinality(Debtors(cursor', pick', a)) + 1 <= Cardinality(Debtors(cursor, pick, a))
        BY <1>6, <3>3
      <3>5. Debt(cursor', pick', a) + 1 <= Debt(cursor, pick, a)
        BY <1>5, <2>1, <3>4, DebtLess
      <3>. QED  BY <1>1, <1>6, <3>5
    <2>4. CASE a \notin pick[d].pool
      <3>1. Debt(cursor', pick', a) <= Debt(cursor, pick, a)
        BY <1>5, <2>1, <2>2, DebtSame
      <3>. QED  BY <1>1, <1>6, <2>4, <3>1
    <2>. QED  BY <2>3, <2>4
  <1>. QED  BY <1>1, <1>2, <1>8, <1>9, <1>10, <1>11

LEMMA TurnsAtFirst == IInv /\ Init => Turns
  <1>. SUFFICES ASSUME IInv, Init, NEW a \in Accounts
                PROVE  TurnOf(a)
    BY DEF Turns
  <1>1. passed[a] = 0 /\ setbacks = 0
    BY DEF Init
  <1>2. Debt(cursor, pick, a) <= Credit(a)
    BY DebtIsCovered DEF IInv
  <1>. QED  BY <1>1, <1>2, DebtType, Sizes DEF TurnOf

\* The numbers that are compared.
LEMMA TurnsTypes ==
    ASSUME IInv, NEW a \in Accounts
    PROVE  /\ passed[a] \in Nat /\ setbacks \in Nat
           /\ Debt(cursor, pick, a) \in Nat /\ Credit(a) \in Int
  <1>1. passed[a] \in Nat /\ setbacks \in Nat
    BY SetbacksAssumption DEF IInv
  <1>2. Credit(a) \in Int
    BY Sizes
  <1>. QED  BY <1>1, <1>2, DebtType

\* No request takes more from the debt of an account than it gives, once the
\* second of the account's cursor is over and unless it picks the account.
LEMMA TurnsCount ==
    ASSUME IInv, IInv', NEW a \in Accounts, ~Recent(a), TurnOf(a),
           \/ \E d \in Deciders : \/ Ask(d) \/ Read(d) \/ ReadFails(d) \/ Stamp(d)
                                  \/ (Store(d) \/ StoreFails(d)) /\ a # pick[d].best
           \/ Restart
           \/ UNCHANGED vars
    PROVE  passed'[a] + Debt(cursor', pick', a) <= Credit(a) + setbacks'
  <1>. DEFINE before == Debt(cursor, pick, a)
              after == Debt(cursor', pick', a)
  <1>1. /\ passed[a] + before <= Credit(a) + setbacks
        /\ before \in Nat /\ after \in Nat /\ Credit(a) \in Int
        /\ passed[a] \in Nat /\ passed'[a] \in Nat /\ setbacks \in Nat /\ setbacks' \in Nat
    <2>1. passed'[a] \in Nat /\ setbacks' \in Nat
      BY SetbacksAssumption DEF IInv
    <2>2. after \in Nat
      BY DebtType
    <2>3. passed[a] + before <= Credit(a) + setbacks
      BY DEF TurnOf
    <2>. QED  BY <2>1, <2>2, <2>3, TurnsTypes
  <1>2. Setback => setbacks' = setbacks + 1
    BY DEF Setback
  <1>3. ASSUME NEW d \in Deciders, Ask(d)
        PROVE  after <= before /\ UNCHANGED <<passed, setbacks>>
    <2>1. /\ cursor' = cursor /\ UNCHANGED <<passed, setbacks>>
          /\ \A e \in Deciders : e # d => pick'[e] = pick[e]
          /\ pick'[d].step # "storing" /\ pick'[d].best = Nobody
      <3>1. PICK held, top : pick' = [pick EXCEPT ![d] =
                [Idle EXCEPT !.step = "reading", !.top = top, !.pool = Tier(held, top),
                             !.rest = Tier(held, top)]]
        BY <1>3 DEF Ask
      <3>. QED  BY <1>3, <3>1 DEF Ask, IInv, Idle
    <2>. QED  BY <2>1, FreshOwesNothing
  <1>4. ASSUME NEW d \in Deciders, Read(d)
        PROVE  after <= before /\ UNCHANGED <<passed, setbacks>>
    BY <1>4, ReadOwesNothing DEF Read
  <1>5. ASSUME NEW d \in Deciders, ReadFails(d)
        PROVE  after <= before + 1 /\ UNCHANGED passed /\ setbacks' = setbacks + 1
    <2>1. /\ cursor' = cursor /\ UNCHANGED passed /\ setbacks' = setbacks + 1
          /\ \A e \in Deciders : e # d => pick'[e] = pick[e]
          /\ pick'[d].step # "storing"
      <3>1. pick[d].step = "reading" /\ pick[d] \in Picks
        BY <1>5 DEF ReadFails, IInv
      <3>2. \E p \in Picks : pick' = [pick EXCEPT ![d] = p] /\ p.step = "reading"
        <4>1. PICK x \in pick[d].rest :
                pick' = [pick EXCEPT ![d] =
                            IF Better(pick[d], Never[x])
                            THEN [pick[d] EXCEPT !.rest = @ \ {x}, !.best = x, !.at = Never[x]]
                            ELSE [pick[d] EXCEPT !.rest = @ \ {x}]]
          BY <1>5 DEF ReadFails, Seen
        <4>2. x \in Accounts /\ Never[x] \in Nat
          BY <3>1 DEF Picks, Never
        <4>3. /\ [pick[d] EXCEPT !.rest = @ \ {x}, !.best = x, !.at = Never[x]] \in Picks
              /\ [pick[d] EXCEPT !.rest = @ \ {x}] \in Picks
          BY <3>1, <4>2 DEF Picks
        <4>4. /\ [pick[d] EXCEPT !.rest = @ \ {x}, !.best = x, !.at = Never[x]].step = "reading"
              /\ [pick[d] EXCEPT !.rest = @ \ {x}].step = "reading"
          BY <3>1 DEF Picks
        <4>5. CASE Better(pick[d], Never[x])
          BY <4>1, <4>3, <4>4, <4>5
        <4>6. CASE ~Better(pick[d], Never[x])
          BY <4>1, <4>3, <4>4, <4>6
        <4>. QED  BY <4>5, <4>6
      <3>3. cursor' = cursor /\ UNCHANGED passed /\ setbacks' = setbacks + 1
        BY <1>2, <1>5 DEF ReadFails
      <3>. QED  BY <3>2, <3>3 DEF IInv
    <2>. QED  BY <2>1, OneMoreDebt
  <1>6. ASSUME NEW d \in Deciders, Stamp(d)
        PROVE  after <= before /\ UNCHANGED <<passed, setbacks>>
    BY <1>6, StampOwesNothing DEF Stamp
  <1>8. ASSUME NEW d \in Deciders, Store(d), a # pick[d].best
        PROVE  passed'[a] + after <= passed[a] + before /\ UNCHANGED setbacks
    BY <1>8, StoreTurns DEF Store
  <1>9. ASSUME NEW d \in Deciders, StoreFails(d), a # pick[d].best
        PROVE  /\ passed'[a] <= passed[a] + 1 /\ after <= before
               /\ setbacks' = setbacks + 1
    <2>1. /\ cursor' = cursor /\ setbacks' = setbacks + 1 /\ passed'[a] <= passed[a] + 1
          /\ pick'[d] = Idle /\ \A e \in Deciders : e # d => pick'[e] = pick[e]
      BY <1>2, <1>9, AnswerPasses DEF StoreFails
    <2>2. pick'[d].step # "storing" /\ pick'[d].best = Nobody
      BY <2>1 DEF Idle
    <2>. QED  BY <2>1, <2>2, FreshOwesNothing
  <1>10. ASSUME Restart
         PROVE  passed'[a] + after <= Credit(a) + setbacks'
    <2>1. /\ cursor' = cursor /\ UNCHANGED passed /\ setbacks' = setbacks + 1
          /\ \A e \in Deciders : pick'[e] = Idle
      BY <1>2, <1>10 DEF Restart
    <2>2. Debtors(cursor', pick', a) = {} /\ Laggards(cursor', pick', a) = {}
      BY <2>1 DEF Debtors, Laggards, Due, Lags, Idle
    <2>3. after <= before
      BY <2>1, <2>2, DebtSame
    <2>. HIDE DEF before, after
    <2>. QED  BY <1>1, <2>1, <2>3
  <1>11. ASSUME UNCHANGED vars
         PROVE  passed'[a] + after <= Credit(a) + setbacks'
    <2>1. after = before /\ passed' = passed /\ setbacks' = setbacks
      BY <1>11 DEF vars
    <2>. HIDE DEF before, after
    <2>. QED  BY <1>1, <2>1
  <1>. HIDE DEF before, after
  <1>12. ASSUME NEW d \in Deciders, Store(d) \/ StoreFails(d), a # pick[d].best
         PROVE  passed'[a] + after <= Credit(a) + setbacks'
    <2>1. CASE Store(d)
      <3>1. passed'[a] + after <= passed[a] + before /\ setbacks' = setbacks
        BY <1>8, <1>12, <2>1
      <3>. QED  BY <1>1, <3>1
    <2>2. CASE StoreFails(d)
      <3>1. passed'[a] <= passed[a] + 1 /\ after <= before /\ setbacks' = setbacks + 1
        BY <1>9, <1>12, <2>2
      <3>. QED  BY <1>1, <3>1
    <2>. QED  BY <1>12, <2>1, <2>2
  <1>13. ASSUME NEW d \in Deciders, Ask(d) \/ Read(d) \/ Stamp(d)
         PROVE  passed'[a] + after <= Credit(a) + setbacks'
    <2>1. after <= before /\ passed' = passed /\ setbacks' = setbacks
      BY <1>3, <1>4, <1>6, <1>13
    <2>2. passed[a] + after <= Credit(a) + setbacks
      BY <1>1, <2>1
    <2>. QED  BY <2>1, <2>2
  <1>14. ASSUME NEW d \in Deciders, ReadFails(d)
         PROVE  passed'[a] + after <= Credit(a) + setbacks'
    <2>1. after <= before + 1 /\ passed' = passed /\ setbacks' = setbacks + 1
      BY <1>5, <1>14
    <2>2. passed[a] + after <= Credit(a) + (setbacks + 1)
      BY <1>1, <2>1
    <2>. QED  BY <2>1, <2>2
  <1>15. passed'[a] + after <= Credit(a) + setbacks'
    BY <1>10, <1>11, <1>12, <1>13, <1>14
  <1>. QED  BY <1>15 DEF after

\* The end of a second puts off nobody: what an account is owed then is covered.
LEMMA TimeTurns ==
    ASSUME IInv, IInv', TimePasses, NEW a \in Accounts, TurnOf(a)
    PROVE  TurnOf(a)'
  <1>. DEFINE debt == Debt(cursor, pick, a)
  <1>1. cursor' = cursor /\ pick' = pick /\ passed' = passed /\ setbacks' = setbacks
    BY DEF TimePasses
  <1>2. Debt(cursor', pick', a) = debt
    BY <1>1
  <1>3. /\ debt <= Credit(a) /\ debt \in Nat /\ Credit(a) \in Int /\ setbacks \in Nat
        /\ passed[a] \in Nat
    BY DebtIsCovered, TurnsTypes DEF IInv
  <1>4. Recent(a)' => Recent(a)
    <2>1. clock.second \in Nat /\ clock'.second \in Nat /\ clock.second <= clock'.second
      BY DEF TimePasses, Before, IInv, Moments
    <2>2. Start(clock.second) \in Nat /\ Start(clock'.second) \in Nat
          /\ Start(clock.second) <= Start(clock'.second)
      BY <2>1, SecondsInOrder
    <2>3. cursor[a] \in Nat
      BY DEF IInv
    <2>. QED  BY <1>1, <2>2, <2>3 DEF Recent
  <1>5. CASE Recent(a)'
    BY <1>1, <1>4, <1>5 DEF TurnOf
  <1>6. CASE ~Recent(a)'
    <2>1. passed[a] + debt <= Credit(a) + setbacks
      <3>1. CASE Recent(a)
        <4>1. passed[a] = 0
          BY <3>1 DEF TurnOf
        <4>. HIDE DEF debt
        <4>. QED  BY <1>3, <4>1
      <3>2. CASE ~Recent(a)
        BY <3>2 DEF TurnOf
      <3>. QED  BY <3>1, <3>2
    <2>2. passed'[a] + Debt(cursor', pick', a) <= Credit(a) + setbacks'
      BY <1>1, <1>2, <2>1
    <2>. QED  BY <1>6, <2>2 DEF TurnOf, Debt, Debtors, Laggards, Ahead
  <1>. QED  BY <1>5, <1>6

\* No step disturbs anybody's turn.
LEMMA TurnsStay ==
    ASSUME IInv, IInv', Turns, [Next]_vars
    PROVE  Turns'
  <1>. SUFFICES ASSUME NEW a \in Accounts
                PROVE  TurnOf(a)'
    BY DEF Turns
  <1>1. TurnOf(a)
    BY DEF Turns
  <1>. DEFINE counted == passed'[a] + Debt(cursor', pick', a) <= Credit(a) + setbacks'
  <1>2. CASE TimePasses
    BY <1>1, <1>2, TimeTurns
  <1>3. ASSUME NEW d \in Deciders, Store(d) \/ StoreFails(d), a = pick[d].best
        PROVE  TurnOf(a)'
    <2>1. passed'[a] = 0 /\ Debt(cursor', pick', a) <= Credit(a)
      BY <1>3, PickedIsCovered DEF Store, StoreFails
    <2>2. counted
      <3>1. Debt(cursor', pick', a) \in Nat /\ Credit(a) \in Int /\ setbacks' \in Nat
        BY DebtType, Sizes, SetbacksAssumption DEF IInv
      <3>. QED  BY <2>1, <3>1
    <2>. QED  BY <2>1, <2>2 DEF TurnOf, Debt, Debtors, Laggards, Ahead
  <1>. DEFINE Other == \/ \E d \in Deciders : \/ Ask(d) \/ Read(d) \/ ReadFails(d) \/ Stamp(d)
                                              \/ (Store(d) \/ StoreFails(d)) /\ a # pick[d].best
                       \/ Restart
                       \/ UNCHANGED vars
  <1>4. CASE Other
    <2>1. cursor'[a] = cursor[a] /\ clock' = clock
      BY <1>4 DEF Ask, Read, ReadFails, Stamp, Store, StoreFails, Answer, Restart, vars, IInv
    <2>2. CASE Recent(a)
      <3>1. passed[a] = 0
        BY <1>1, <2>2 DEF TurnOf
      <3>2. passed'[a] = passed[a]
        BY <1>4, <2>2 DEF Ask, Read, ReadFails, Stamp, Store, StoreFails, Answer, Restart, vars, IInv
      <3>. QED  BY <2>1, <2>2, <3>1, <3>2 DEF TurnOf, Recent
    <2>3. CASE ~Recent(a)
      <3>1. counted
        BY <1>1, <1>4, <2>3, TurnsCount
      <3>. QED  BY <2>1, <2>3, <3>1 DEF TurnOf, Recent, Debt, Debtors, Laggards, Ahead
    <2>. QED  BY <2>2, <2>3
  <1>5. TimePasses \/ (\E d \in Deciders : (Store(d) \/ StoreFails(d)) /\ a = pick[d].best) \/ Other
    <2>1. CASE UNCHANGED vars \/ Restart \/ TimePasses
      BY <2>1
    <2>2. ASSUME NEW d \in Deciders,
                 Ask(d) \/ Read(d) \/ ReadFails(d) \/ Stamp(d) \/ Store(d) \/ StoreFails(d)
          PROVE  Other \/ ((Store(d) \/ StoreFails(d)) /\ a = pick[d].best)
      <3>1. CASE Ask(d) \/ Read(d) \/ ReadFails(d) \/ Stamp(d)
        BY <3>1
      <3>2. CASE (Store(d) \/ StoreFails(d)) /\ a # pick[d].best
        BY <3>2
      <3>. HIDE DEF Other
      <3>. QED  BY <2>2, <3>1, <3>2
    <2>. HIDE DEF Other
    <2>. QED  BY <2>1, <2>2 DEF Next
  <1>. HIDE DEF Other
  <1>. QED  BY <1>2, <1>3, <1>4, <1>5

\* Traffic spreads: however many requests interleave, whatever reads and writes
\* fail, however often the plugin restarts and however texts are ordered within a
\* second, an account in the pool is picked before it has been passed over more
\* often than Patience since the second of its cursor ended.
THEOREM AccountsTakeTurns == Spec => []Rotates
  <1>1. IInv /\ Turns => Rotates
    <2>. SUFFICES ASSUME IInv, Turns, NEW a \in Accounts
                  PROVE  passed[a] <= Patience(a)
      BY DEF Rotates
    <2>1. Patience(a) = Credit(a) + setbacks
      BY DEF Patience, Credit, n, m, Peers
    <2>2. /\ Debt(cursor, pick, a) \in Nat /\ passed[a] \in Nat /\ setbacks \in Nat
          /\ Credit(a) \in Int /\ Debt(cursor, pick, a) <= Credit(a)
      BY TurnsTypes, DebtIsCovered DEF IInv
    <2>3. Recent(a) => passed[a] = 0
      BY DEF Turns, TurnOf
    <2>4. ~Recent(a) => passed[a] + Debt(cursor, pick, a) <= Credit(a) + setbacks
      BY DEF Turns, TurnOf
    <2>. QED  BY <2>1, <2>2, <2>3, <2>4
  <1>2. IInv /\ IInv' /\ Turns /\ [Next]_vars => Turns'
    BY TurnsStay
  <1>. QED  BY <1>1, <1>2, InitOK, TurnsAtFirst, Inductive, PTL DEF Spec
=============================================================================
