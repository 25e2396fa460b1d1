--------------------------- MODULE CallHistoryProofs ---------------------------
(***************************************************************************)
(* What holds of the call history for any number of requests, of retries   *)
(* and of setbacks, and for queues and batches of any size: the types, and *)
(* that every call is in exactly one place.                                *)
(***************************************************************************)
EXTENDS CallHistory, FiniteSetTheorems, SequenceTheorems, TLAPS

-----------------------------------------------------------------------------
(* Sequences in which nothing is named twice *)

LEMMA AppendInjectiveNew ==
    ASSUME NEW T, NEW s \in Seq(T), NEW c \in T, IsInjective(s), c \notin ToSet(s)
    PROVE  /\ Append(s, c) \in Seq(T)
           /\ IsInjective(Append(s, c))
           /\ ToSet(Append(s, c)) = ToSet(s) \cup {c}
  BY DEF IsInjective, ToSet

LEMMA HeadTailInjective ==
    ASSUME NEW T, NEW s \in Seq(T), s # <<>>, IsInjective(s)
    PROVE  /\ Head(s) \in ToSet(s) /\ Head(s) \in T
           /\ Tail(s) \in Seq(T) /\ Len(Tail(s)) = Len(s) - 1
           /\ IsInjective(Tail(s))
           /\ ToSet(Tail(s)) = ToSet(s) \ {Head(s)}
  <1>1. Len(s) \in Nat \ {0} /\ DOMAIN s = 1..Len(s)
    BY EmptySeq
  <1>2. Head(s) = s[1]
    BY <1>1
  <1>3. /\ Tail(s) \in Seq(T) /\ Len(Tail(s)) = Len(s) - 1
        /\ \A i \in 1..Len(Tail(s)) : Tail(s)[i] = s[i + 1]
    BY HeadTailProperties
  <1>4. DOMAIN Tail(s) = 1..(Len(s) - 1)
    BY <1>3
  <1>5. Head(s) \in ToSet(s) /\ Head(s) \in T
    BY <1>1, <1>2 DEF ToSet
  <1>6. IsInjective(Tail(s))
    BY <1>1, <1>3, <1>4 DEF IsInjective
  <1>7. ToSet(Tail(s)) \subseteq ToSet(s) \ {Head(s)}
    BY <1>1, <1>2, <1>3, <1>4 DEF IsInjective, ToSet
  <1>8. ASSUME NEW i \in DOMAIN s, s[i] # Head(s)
        PROVE  s[i] \in ToSet(Tail(s))
    <2>1. i - 1 \in DOMAIN Tail(s) /\ s[i] = Tail(s)[i - 1]
      BY <1>1, <1>2, <1>3, <1>4, <1>8
    <2>. QED  BY <2>1 DEF ToSet
  <1>9. ToSet(s) \ {Head(s)} \subseteq ToSet(Tail(s))
    BY <1>8 DEF ToSet
  <1>. QED  BY <1>3, <1>5, <1>6, <1>7, <1>9

LEMMA ConcatInjective ==
    ASSUME NEW T, NEW s \in Seq(T), NEW t \in Seq(T),
           IsInjective(s), IsInjective(t), ToSet(s) \cap ToSet(t) = {}
    PROVE  /\ s \o t \in Seq(T)
           /\ IsInjective(s \o t)
           /\ ToSet(s \o t) = ToSet(s) \cup ToSet(t)
  <1>1. /\ s \o t \in Seq(T)
        /\ Len(s \o t) = Len(s) + Len(t)
        /\ \A i \in 1..(Len(s) + Len(t)) :
              (s \o t)[i] = IF i <= Len(s) THEN s[i] ELSE t[i - Len(s)]
    BY ConcatProperties
  <1>2. /\ DOMAIN s = 1..Len(s) /\ DOMAIN t = 1..Len(t)
        /\ DOMAIN (s \o t) = 1..(Len(s) + Len(t))
        /\ Len(s) \in Nat /\ Len(t) \in Nat
    BY <1>1
  <1>3. ASSUME NEW i \in DOMAIN (s \o t)
        PROVE  \/ i \in DOMAIN s /\ (s \o t)[i] = s[i] /\ s[i] \in ToSet(s)
               \/ /\ i > Len(s) /\ i - Len(s) \in DOMAIN t
                  /\ (s \o t)[i] = t[i - Len(s)] /\ t[i - Len(s)] \in ToSet(t)
    BY <1>1, <1>2 DEF ToSet
  <1>4. IsInjective(s \o t)
    BY <1>2, <1>3 DEF IsInjective
  <1>5. ToSet(s \o t) \subseteq ToSet(s) \cup ToSet(t)
    BY <1>3 DEF ToSet
  <1>6. ASSUME NEW i \in DOMAIN s
        PROVE  s[i] \in ToSet(s \o t)
    BY <1>1, <1>2 DEF ToSet
  <1>7. ASSUME NEW i \in DOMAIN t
        PROVE  t[i] \in ToSet(s \o t)
    <2>1. i + Len(s) \in DOMAIN (s \o t) /\ (s \o t)[i + Len(s)] = t[i]
      BY <1>1, <1>2
    <2>. QED  BY <2>1 DEF ToSet
  <1>8. ToSet(s) \cup ToSet(t) \subseteq ToSet(s \o t)
    BY <1>6, <1>7 DEF ToSet
  <1>. QED  BY <1>1, <1>4, <1>5, <1>8

LEMMA ToSetOfSeq ==
    ASSUME NEW T, NEW s \in Seq(T)
    PROVE  ToSet(s) \subseteq T
  BY DEF ToSet

\* Nothing is named twice exactly if there are as many names as places.
LEMMA LengthOfInjective ==
    ASSUME NEW T, NEW s \in Seq(T), IsInjective(s)
    PROVE  IsFiniteSet(ToSet(s)) /\ Len(s) = Cardinality(ToSet(s))
  <1>1. IsFiniteSet(1..Len(s)) /\ Cardinality(1..Len(s)) = Len(s)
    <2>1. Len(s) \in Nat
      OBVIOUS
    <2>. QED  BY <2>1, FS_Interval
  <1>2. s \in [1..Len(s) -> ToSet(s)] /\ s \in Surjection(1..Len(s), ToSet(s))
    BY DEF ToSet, Surjection
  <1>3. s \in Injection(1..Len(s), ToSet(s))
    BY <1>2 DEF Injection, IsInjective
  <1>. QED  BY <1>1, <1>2, <1>3, FS_Surjection

\* Among keeps what it should, and no more often than it was there.
LEMMA AmongOK ==
    ASSUME NEW T, NEW s \in Seq(T), NEW S, IsInjective(s)
    PROVE  /\ Among(s, S) \in Seq(T)
           /\ IsInjective(Among(s, S))
           /\ ToSet(Among(s, S)) = ToSet(s) \cap S
  <1>. DEFINE places == {i \in DOMAIN s : s[i] \in S}
              upTo(i) == {j \in places : j <= i}
              n == Cardinality(places)
              rank == [i \in places |-> Cardinality(upTo(i))]
              nth(k) == CHOOSE i \in places : Cardinality(upTo(i)) = k
  <1>1. places \subseteq 1..Len(s) /\ Len(s) \in Nat /\ DOMAIN s = 1..Len(s)
    OBVIOUS
  <1>2. IsFiniteSet(places) /\ n \in Nat
    <2>1. IsFiniteSet(1..Len(s))
      BY <1>1, FS_Interval
    <2>2. IsFiniteSet(places)
      BY <1>1, <2>1, FS_Subset
    <2>. QED  BY <2>2, FS_CardinalityType
  <1>3. ASSUME NEW i \in places
        PROVE  IsFiniteSet(upTo(i)) /\ Cardinality(upTo(i)) \in 1..n
    <2>1. upTo(i) \subseteq places /\ i \in upTo(i)
      BY <1>1
    <2>2. IsFiniteSet(upTo(i)) /\ Cardinality(upTo(i)) <= n
      BY <1>2, <2>1, FS_Subset
    <2>3. Cardinality(upTo(i)) \in Nat /\ Cardinality(upTo(i)) # 0
      BY <2>1, <2>2, FS_CardinalityType, FS_EmptySet
    <2>. QED  BY <1>2, <2>2, <2>3
  <1>4. ASSUME NEW i \in places, NEW j \in places, i < j
        PROVE  rank[i] # rank[j]
    <2>1. upTo(i) \in SUBSET upTo(j) /\ j \in upTo(j) /\ j \notin upTo(i)
      BY <1>1, <1>4
    <2>. QED  BY <1>3, <2>1, FS_Subset
  <1>5. rank \in [places -> 1..n] /\ IsInjective(rank)
    <2>1. rank \in [places -> 1..n]
      BY <1>3
    <2>2. ASSUME NEW i \in places, NEW j \in places, rank[i] = rank[j]
          PROVE  i = j
      <3>1. i \in Int /\ j \in Int /\ ~(i < j) /\ ~(j < i)
        BY <1>1, <1>4, <2>2
      <3>. QED  BY <3>1
    <2>. HIDE DEF rank, n
    <2>. QED  BY <2>1, <2>2 DEF IsInjective
  <1>6. rank \in Surjection(places, 1..n)
    <2>1. rank \in Injection(places, 1..n)
      BY <1>5 DEF Injection, IsInjective
    <2>2. IsFiniteSet(1..n) /\ Cardinality(1..n) = n
      BY <1>2, FS_Interval
    <2>. QED  BY <2>1, <2>2, FS_Injection
  <1>7. ASSUME NEW k \in 1..n
        PROVE  nth(k) \in places /\ rank[nth(k)] = k
    <2>1. \E i \in places : Cardinality(upTo(i)) = k
      BY <1>6 DEF Surjection
    <2>. QED  BY <2>1
  <1>8. ASSUME NEW i \in places
        PROVE  rank[i] \in 1..n /\ nth(rank[i]) = i
    BY <1>5, <1>7 DEF IsInjective
  <1>. DEFINE r == [k \in 1..n |-> s[nth(k)]]
  <1>9. Among(s, S) = r
    BY DEF Among
  <1>10. r \in Seq(T) /\ DOMAIN r = 1..n
    <2>1. ASSUME NEW k \in 1..n
          PROVE  s[nth(k)] \in T
      <3>1. nth(k) \in 1..Len(s)
        BY <1>1, <1>7
      <3>. HIDE DEF nth
      <3>. QED  BY <3>1
    <2>2. r \in [1..n -> T]
      BY <2>1
    <2>. HIDE DEF r, n
    <2>. QED  BY <1>2, <2>2
  <1>11. ASSUME NEW k \in 1..n, NEW l \in 1..n, r[k] = r[l]
         PROVE  k = l
    <2>1. s[nth(k)] = s[nth(l)]
      BY <1>11
    <2>2. nth(k) = nth(l)
      BY <1>7, <2>1 DEF IsInjective
    <2>. QED  BY <1>7, <2>2
  <1>12. ASSUME NEW x
         PROVE  x \in ToSet(r) <=> x \in ToSet(s) \cap S
    <2>1. x \in ToSet(r) => x \in ToSet(s) \cap S
      BY <1>7, <1>10 DEF ToSet
    <2>2. ASSUME x \in ToSet(s) \cap S
          PROVE  x \in ToSet(r)
      <3>1. PICK i \in places : s[i] = x
        BY <2>2 DEF ToSet
      <3>2. rank[i] \in DOMAIN r /\ r[rank[i]] = x
        BY <1>8, <1>10, <3>1
      <3>. QED  BY <3>2 DEF ToSet
    <2>. QED  BY <2>1, <2>2
  <1>. HIDE DEF r
  <1>13. IsInjective(r)
    BY <1>10, <1>11 DEF IsInjective
  <1>. QED  BY <1>9, <1>10, <1>12, <1>13

LEMMA RemoveFirstOK ==
    ASSUME NEW T, NEW s \in Seq(T), NEW e \in ToSet(s), IsInjective(s)
    PROVE  /\ RemoveFirst(s, e) \in Seq(T)
           /\ IsInjective(RemoveFirst(s, e))
           /\ ToSet(RemoveFirst(s, e)) = ToSet(s) \ {e}
  <1>1. DOMAIN s = 1..Len(s) /\ Len(s) \in Nat /\ \A j \in 1..Len(s) : s[j] \in T
    OBVIOUS
  <1>2. PICK i \in 1..Len(s) : s[i] = e
    BY <1>1 DEF ToSet
  <1>3. {j \in 1..Len(s) : s[j] = e} = {i}
    BY <1>1, <1>2 DEF IsInjective
  <1>4. Min({i}) = i
    BY DEF Min
  <1>. DEFINE front == SubSeq(s, 1, i - 1)
              back == SubSeq(s, i + 1, Len(s))
  <1>5. RemoveFirst(s, e) = front \o back
    BY <1>2, <1>3, <1>4 DEF RemoveFirst, SelectInSeq, RemoveAt
  <1>6. /\ front \in Seq(T) /\ Len(front) = i - 1
        /\ \A j \in 1..(i - 1) : front[j] = s[j]
    <2>1. \A j \in 1..(i - 1) : s[j] \in T
      BY <1>1
    <2>. QED  BY <2>1, SubSeqProperties
  <1>7. /\ back \in Seq(T) /\ Len(back) = Len(s) - i
        /\ \A j \in 1..(Len(s) - i) : back[j] = s[i + j]
    <2>1. \A j \in (i + 1)..Len(s) : s[j] \in T
      BY <1>1
    <2>2. /\ back \in Seq(T)
          /\ Len(back) = IF i + 1 <= Len(s) THEN Len(s) - (i + 1) + 1 ELSE 0
          /\ \A j \in 1..(Len(s) - (i + 1) + 1) : back[j] = s[(i + 1) + j - 1]
      BY <1>1, <2>1, SubSeqProperties
    <2>3. i <= Len(s) /\ i \in Nat
      BY <1>1
    <2>. HIDE DEF back
    <2>4. Len(back) = Len(s) - i
      <3>1. Len(back) = IF i + 1 <= Len(s) THEN Len(s) - (i + 1) + 1 ELSE 0
        BY <2>2
      <3>2. Len(s) \in Nat
        BY <1>1
      <3>. QED  BY <2>3, <3>1, <3>2
    <2>5. ASSUME NEW j \in 1..(Len(s) - i)
          PROVE  back[j] = s[i + j]
      <3>1. j \in 1..(Len(s) - (i + 1) + 1) /\ (i + 1) + j - 1 = i + j
        BY <1>1, <2>3
      <3>. QED  BY <2>2, <3>1
    <2>. QED  BY <2>2, <2>4, <2>5
  <1>8. DOMAIN front = 1..(i - 1) /\ DOMAIN back = 1..(Len(s) - i)
    BY <1>6, <1>7
  <1>. HIDE DEF front, back
  <1>9. \A j \in DOMAIN front : j \in DOMAIN s /\ j # i /\ front[j] = s[j]
    BY <1>1, <1>6, <1>8
  <1>10. \A j \in DOMAIN back : i + j \in DOMAIN s /\ i + j > i /\ back[j] = s[i + j]
    BY <1>1, <1>7, <1>8
  <1>11. IsInjective(front) /\ IsInjective(back)
    BY <1>8, <1>9, <1>10 DEF IsInjective
  <1>12. ToSet(front) \cap ToSet(back) = {}
    <2>1. ASSUME NEW j \in DOMAIN front, NEW k \in DOMAIN back, front[j] = back[k]
          PROVE  FALSE
      <3>1. s[j] = s[i + k] /\ j < i + k /\ j \in DOMAIN s /\ i + k \in DOMAIN s
        BY <1>8, <1>9, <1>10, <2>1
      <3>. QED  BY <1>1, <3>1 DEF IsInjective
    <2>. QED  BY <2>1 DEF ToSet
  <1>13. ToSet(front) \cup ToSet(back) = ToSet(s) \ {e}
    <2>1. ToSet(front) \subseteq ToSet(s) \ {e}
      BY <1>2, <1>9 DEF ToSet, IsInjective
    <2>2. ToSet(back) \subseteq ToSet(s) \ {e}
      BY <1>1, <1>2, <1>8, <1>10 DEF ToSet, IsInjective
    <2>3. ASSUME NEW j \in DOMAIN s, s[j] # e
          PROVE  s[j] \in ToSet(front) \cup ToSet(back)
      <3>1. j # i /\ j \in 1..Len(s)
        BY <1>1, <1>2, <2>3
      <3>2. CASE j < i
        BY <1>8, <1>9, <3>1, <3>2 DEF ToSet
      <3>3. CASE j > i
        <4>1. j - i \in DOMAIN back /\ back[j - i] = s[j]
          BY <1>7, <1>8, <3>1, <3>3
        <4>. QED  BY <4>1 DEF ToSet
      <3>. QED  BY <3>1, <3>2, <3>3
    <2>4. ToSet(s) \ {e} \subseteq ToSet(front) \cup ToSet(back)
      BY <2>3 DEF ToSet
    <2>. QED  BY <2>1, <2>2, <2>4
  <1>. QED  BY <1>5, <1>6, <1>7, <1>11, <1>12, <1>13, ConcatInjective

-----------------------------------------------------------------------------
(* The places of a call *)

Held == {Call(r) : r \in pending}

PlacesOK ==
    /\ \A i \in 1..7 : Places[i] \subseteq Begun
    /\ \A c \in Begun : \E i \in 1..7 : c \in Places[i]
    /\ \A i, j \in 1..7 : i # j => Places[i] \cap Places[j] = {}

\* The invariant: each list names nothing twice, and the places share no call.
IInv ==
    /\ TypeOK
    /\ PlacesOK
    /\ IsInjective(order) /\ ToSet(order) = pending
    /\ IsInjective(swept) /\ IsInjective(queue) /\ IsInjective(batch)

LEMMA PlaceNames ==
    /\ Places[1] = Held /\ Places[2] = leaving /\ Places[3] = ToSet(swept)
    /\ Places[4] = ToSet(queue) /\ Places[5] = ToSet(batch) /\ Places[6] = table
    /\ Places[7] = lost
    /\ DOMAIN Places = 1..7
  BY DEF Places, Held

LEMMA PlaceNamesPrime ==
    /\ Places'[1] = Held' /\ Places'[2] = leaving' /\ Places'[3] = ToSet(swept')
    /\ Places'[4] = ToSet(queue') /\ Places'[5] = ToSet(batch') /\ Places'[6] = table'
    /\ Places'[7] = lost'
  BY DEF Places, Held

\* A step that moves the calls M from one place to another.
Moves(M, i, j) ==
    /\ UNCHANGED begun
    /\ M \subseteq Places[i]
    /\ Places'[i] = Places[i] \ M
    /\ Places'[j] = Places[j] \cup M
    /\ \A k \in 1..7 : k # i /\ k # j => Places'[k] = Places[k]

LEMMA MovesOK ==
    ASSUME PlacesOK, NEW M, NEW i \in 1..7, NEW j \in 1..7, i # j, Moves(M, i, j)
    PROVE  PlacesOK'
  <1>1. Begun' = Begun
    BY DEF Moves, Begun
  <1>2. \A k \in 1..7 : Places'[k] \subseteq Begun
    BY DEF PlacesOK, Moves
  <1>3. ASSUME NEW c \in Begun
        PROVE  \E k \in 1..7 : c \in Places'[k]
    <2>1. PICK k \in 1..7 : c \in Places[k]
      BY DEF PlacesOK
    <2>. QED  BY <2>1 DEF Moves
  <1>4. \A k, l \in 1..7 : k # l => Places'[k] \cap Places'[l] = {}
    <2>. SUFFICES ASSUME NEW k \in 1..7, NEW l \in 1..7, k # l, NEW c,
                         c \in Places'[k], c \in Places'[l]
                  PROVE  FALSE
      OBVIOUS
    <2>. QED  BY DEF PlacesOK, Moves
  <1>. QED  BY <1>1, <1>2, <1>3, <1>4 DEF PlacesOK

LEMMA SamePlaces ==
    ASSUME PlacesOK, UNCHANGED begun, \A k \in 1..7 : Places'[k] = Places[k]
    PROVE  PlacesOK'
  BY DEF PlacesOK, Begun

\* A step that leaves the pending requests as they are.
LEMMA HeldSame ==
    ASSUME UNCHANGED <<begun, pending>>
    PROVE  Held' = Held
  BY DEF Held, Call

LEMMA PendingBegun ==
    ASSUME IInv, NEW r \in pending
    PROVE  /\ r \in Requests
           /\ Call(r) \in Calls /\ Call(r) \in Begun
           /\ begun[r] \in 1..MaxCalls
  <1>1. Call(r) \in Begun
    BY PlaceNames DEF IInv, PlacesOK, Held
  <1>. QED  BY <1>1 DEF IInv, TypeOK, Begun, Calls, Call

\* A request that is taken takes its call with it, and nothing else.
LEMMA TakenOK ==
    ASSUME IInv, NEW S \in SUBSET pending, pending' = pending \ S, UNCHANGED begun
    PROVE  Held' = Held \ {Call(r) : r \in S} /\ {Call(r) : r \in S} \subseteq Held
  BY DEF Held, Call

\* A call that is handed over ends in the queue, or is lost.
LEMMA EnqueueOK ==
    ASSUME IInv, NEW c \in Calls, c \notin ToSet(queue), Enqueue(c)
    PROVE  /\ queue' \in Seq(Calls) /\ Len(queue') <= QueueSize
           /\ IsInjective(queue')
           /\ lost' \subseteq Calls
           /\ \/ ToSet(queue') = ToSet(queue) \cup {c} /\ lost' = lost
              \/ queue' = queue /\ lost' = lost \cup {c}
  <1>1. queue \in Seq(Calls) /\ IsInjective(queue) /\ Len(queue) <= QueueSize /\ lost \subseteq Calls
    BY DEF IInv, TypeOK
  <1>2. CASE Len(queue) < QueueSize
    <2>1. queue' = Append(queue, c) /\ lost' = lost
      BY <1>2 DEF Enqueue
    <2>2. Len(queue') <= QueueSize
      BY <1>1, <1>2, <2>1, SizesAssumption, AppendProperties
    <2>. QED  BY <1>1, <2>1, <2>2, AppendInjectiveNew
  <1>3. CASE ~(Len(queue) < QueueSize)
    BY <1>1, <1>3 DEF Enqueue
  <1>. QED  BY <1>2, <1>3

-----------------------------------------------------------------------------
(* The invariant is inductive *)

LEMMA InitOK == Init => IInv
  <1>. SUFFICES ASSUME Init
                PROVE  IInv
    OBVIOUS
  <1>1. TypeOK
    BY SizesAssumption, BoundsAssumption DEF Init, TypeOK
  <1>2. ToSet(<<>>) = {} /\ IsInjective(<<>>)
    BY DEF ToSet, IsInjective
  <1>3. Begun = {}
    BY DEF Init, Begun, Calls
  <1>4. \A i \in 1..7 : Places[i] = {}
    BY <1>2, PlaceNames DEF Init, Held
  <1>5. PlacesOK
    BY <1>3, <1>4 DEF PlacesOK
  <1>. QED  BY <1>1, <1>2, <1>5 DEF Init, IInv

LEMMA BeginOK ==
    ASSUME IInv, NEW r \in Requests, Begin(r)
    PROVE  IInv'
  <1>. DEFINE new == <<r, begun[r] + 1>>
  <1>1. /\ begun[r] \in 0..MaxCalls /\ begun[r] < MaxCalls /\ MaxCalls \in Nat
        /\ begun' \in [Requests -> 0..MaxCalls]
        /\ begun'[r] = begun[r] + 1
        /\ \A q \in Requests : q # r => begun'[q] = begun[q]
    BY BoundsAssumption DEF IInv, TypeOK, Begin
  <1>2. new \in Calls /\ new \notin Begun /\ Begun' = Begun \cup {new}
    <2>1. new \in Calls /\ new \notin Begun
      BY <1>1 DEF Begun, Calls
    <2>2. ASSUME NEW q \in Requests, NEW k \in 1..MaxCalls
          PROVE  k <= begun'[q] <=> k <= begun[q] \/ <<q, k>> = new
      <3>1. CASE q = r
        BY <1>1, <3>1
      <3>2. CASE q # r
        BY <1>1, <3>2
      <3>. QED  BY <3>1, <3>2
    <2>3. \A c \in Calls : c[2] <= begun'[c[1]] <=> c[2] <= begun[c[1]] \/ c = new
      BY <2>2 DEF Calls
    <2>. QED  BY <2>1, <2>3 DEF Begun
  <1>3. Held' = (Held \ {Call(r)}) \cup {new}
    BY <1>1 DEF Begin, Held, Call, IInv, TypeOK
  <1>4. order' \in Seq(Requests) /\ IsInjective(order') /\ ToSet(order') = pending'
    <2>1. CASE r \in pending
      BY <2>1 DEF Begin, Listed, IInv, TypeOK
    <2>2. CASE r \notin pending
      BY <2>2, AppendInjectiveNew DEF Begin, Listed, IInv, TypeOK
    <2>. QED  BY <2>1, <2>2
  <1>5. lost' \subseteq Calls
    BY PendingBegun DEF Begin, IInv, TypeOK
  <1>6. TypeOK'
    BY <1>1, <1>4, <1>5 DEF Begin, writer, IInv, TypeOK, Calls
  <1>7. \A i \in 2..6 : Places'[i] = Places[i]
    BY PlaceNames, PlaceNamesPrime DEF Begin, writer
  <1>8. Places'[1] = (Places[1] \ {Call(r)}) \cup {new}
    BY <1>3, PlaceNames, PlaceNamesPrime
  <1>9. Places'[7] = IF r \in pending THEN Places[7] \cup {Call(r)} ELSE Places[7]
    BY PlaceNames, PlaceNamesPrime DEF Begin
  <1>10. r \in pending <=> Call(r) \in Places[1]
    BY PlaceNames DEF Held, Call
  <1>11. PlacesOK'
    <2>1. ASSUME NEW i \in 1..7
          PROVE  Places'[i] \subseteq Begun'
      BY <1>2, <1>7, <1>8, <1>9, <1>10 DEF PlacesOK, IInv
    <2>2. ASSUME NEW c \in Begun'
          PROVE  \E i \in 1..7 : c \in Places'[i]
      <3>1. CASE c = new
        BY <1>8, <3>1
      <3>2. CASE c \in Begun
        <4>1. PICK i \in 1..7 : c \in Places[i]
          BY <3>2 DEF PlacesOK, IInv
        <4>2. CASE c \in Places'[i]
          BY <4>2
        <4>3. CASE c \notin Places'[i]
          BY <1>7, <1>8, <1>9, <1>10, <4>1, <4>3
        <4>. QED  BY <4>2, <4>3
      <3>. QED  BY <1>2, <3>1, <3>2
    <2>3. ASSUME NEW i \in 1..7, NEW j \in 1..7, i # j, NEW c,
                 c \in Places'[i], c \in Places'[j]
          PROVE  FALSE
      <3>1. \A k \in 1..7 : new \notin Places[k]
        BY <1>2 DEF PlacesOK, IInv
      <3>2. CASE c = new
        <4>1. new # Call(r)
          BY <1>1 DEF Call
        <4>. QED  BY <1>7, <1>8, <1>9, <2>3, <3>1, <3>2, <4>1
      <3>3. CASE c # new
        BY <1>7, <1>8, <1>9, <1>10, <2>3, <3>3 DEF PlacesOK, IInv
      <3>. QED  BY <3>2, <3>3
    <2>. QED  BY <2>1, <2>2, <2>3 DEF PlacesOK
  <1>. QED  BY <1>4, <1>6, <1>11 DEF IInv, Begin, writer

LEMMA CompleteOK ==
    ASSUME IInv, NEW r \in Requests, Complete(r)
    PROVE  IInv'
  <1>1. CASE enabled /\ r \in pending
    <2>1. Taken(r) /\ leaving' = leaving \cup {Call(r)} /\ UNCHANGED <<begun, swept, queue, writer, lost>>
      BY <1>1 DEF Complete
    <2>2. Held' = Held \ {Call(r)} /\ {Call(r)} \subseteq Held
      <3>1. pending' = pending \ {r} /\ {r} \in SUBSET pending
        BY <1>1, <2>1 DEF Taken
      <3>2. {Call(q) : q \in {r}} = {Call(r)}
        OBVIOUS
      <3>. QED  BY <2>1, <3>1, <3>2, TakenOK
    <2>3. Moves({Call(r)}, 1, 2)
      BY <2>1, <2>2, PlaceNames, PlaceNamesPrime DEF Moves, writer
    <2>4. PlacesOK'
      BY <2>3, MovesOK DEF IInv
    <2>5. order' \in Seq(Requests) /\ IsInjective(order') /\ ToSet(order') = pending'
      BY <1>1, <2>1, RemoveFirstOK DEF Taken, IInv, TypeOK
    <2>6. TypeOK'
      BY <1>1, <2>1, <2>5, PendingBegun DEF Complete, Taken, writer, IInv, TypeOK, Calls
    <2>. QED  BY <2>1, <2>4, <2>5, <2>6 DEF IInv, writer
  <1>2. CASE ~(enabled /\ r \in pending)
    <2>1. UNCHANGED <<begun, pending, order, aged, leaving, swept, queue, batch, table, lost>>
      BY <1>2 DEF Complete, memory, writer
    <2>2. \A k \in 1..7 : Places'[k] = Places[k]
      BY <2>1, HeldSame, PlaceNames, PlaceNamesPrime
    <2>3. PlacesOK'
      BY <2>1, <2>2, SamePlaces DEF IInv
    <2>4. Call(r) \in Calls
      BY BoundsAssumption DEF Complete, Call, Calls, IInv, TypeOK
    <2>5. TypeOK'
      BY <1>2, <2>1, <2>4 DEF Complete, writer, IInv, TypeOK, Calls
    <2>. QED  BY <2>1, <2>3, <2>5 DEF IInv
  <1>. QED  BY <1>1, <1>2

LEMMA HandOverOK ==
    ASSUME IInv, NEW c \in leaving, HandOver(c)
    PROVE  IInv'
  <1>1. c \in Calls /\ c \notin ToSet(queue)
    BY PlaceNames DEF IInv, TypeOK, PlacesOK
  <1>2. /\ leaving' = leaving \ {c} /\ Enqueue(c)
        /\ UNCHANGED <<enabled, begun, pending, order, aged, swept, batch, table, unended,
                       ended, setbacks>>
    BY DEF HandOver, memory, writer
  <1>3. /\ queue' \in Seq(Calls) /\ Len(queue') <= QueueSize /\ IsInjective(queue')
        /\ lost' \subseteq Calls
    BY <1>1, <1>2, EnqueueOK
  <1>4. Moves({c}, 2, 4) \/ Moves({c}, 2, 7)
    BY <1>1, <1>2, EnqueueOK, HeldSame, PlaceNames, PlaceNamesPrime DEF Moves
  <1>5. PlacesOK'
    BY <1>4, MovesOK DEF IInv
  <1>6. TypeOK'
    BY <1>2, <1>3 DEF IInv, TypeOK, Calls
  <1>. QED  BY <1>2, <1>3, <1>5, <1>6 DEF IInv

LEMMA SweepOK ==
    ASSUME IInv, Sweep
    PROVE  IInv'
  <1>1. /\ Stale \in Seq(Requests) /\ IsInjective(Stale) /\ ToSet(Stale) = aged
    <2>1. /\ order \in Seq(Requests) /\ IsInjective(order)
          /\ ToSet(order) = pending /\ aged \subseteq pending
      BY DEF IInv, TypeOK
    <2>2. ToSet(order) \cap aged = aged
      BY <2>1
    <2>3. /\ Among(order, aged) \in Seq(Requests) /\ IsInjective(Among(order, aged))
          /\ ToSet(Among(order, aged)) = ToSet(order) \cap aged
      BY <2>1, AmongOK
    <2>. QED  BY <2>2, <2>3 DEF Stale
  <1>2. /\ swept = <<>> /\ swept' = [i \in DOMAIN Stale |-> Call(Stale[i])]
        /\ pending' = pending \ aged /\ order' = Among(order, pending \ aged) /\ aged' = {}
        /\ UNCHANGED <<enabled, begun, leaving, queue, batch, table, unended, ended, lost, setbacks>>
    BY <1>1 DEF Sweep, writer
  <1>3. /\ DOMAIN Stale = 1..Len(Stale) /\ Len(Stale) \in Nat
        /\ \A i \in DOMAIN Stale : Stale[i] \in aged
    BY <1>1 DEF ToSet
  <1>4. \A i \in DOMAIN Stale : Call(Stale[i]) \in Calls
    BY <1>3, PendingBegun DEF IInv, TypeOK
  <1>5. swept' \in Seq(Calls) /\ DOMAIN swept' = 1..Len(Stale)
    <2>1. swept' \in [1..Len(Stale) -> Calls]
      BY <1>2, <1>3, <1>4
    <2>. QED  BY <1>3, <2>1
  <1>6. IsInjective(swept')
    BY <1>1, <1>2, <1>3, <1>5 DEF IsInjective, Call
  <1>7. ToSet(swept') = {Call(r) : r \in aged}
    <2>1. ToSet(swept') = {Call(Stale[i]) : i \in DOMAIN Stale}
      BY <1>2 DEF ToSet
    <2>2. aged = {Stale[i] : i \in DOMAIN Stale}
      BY <1>1 DEF ToSet
    <2>. QED  BY <2>1, <2>2
  <1>8. Held' = Held \ {Call(r) : r \in aged} /\ {Call(r) : r \in aged} \subseteq Held
    BY <1>2, TakenOK DEF IInv, TypeOK
  <1>9. ToSet(swept) = {}
    BY <1>2 DEF ToSet
  <1>10. Moves({Call(r) : r \in aged}, 1, 3)
    BY <1>2, <1>7, <1>8, <1>9, PlaceNames, PlaceNamesPrime DEF Moves
  <1>11. PlacesOK'
    BY <1>10, MovesOK DEF IInv
  <1>12. order' \in Seq(Requests) /\ IsInjective(order') /\ ToSet(order') = pending'
    BY <1>2, AmongOK DEF IInv, TypeOK
  <1>13. TypeOK'
    BY <1>2, <1>5, <1>12 DEF IInv, TypeOK, Calls
  <1>. QED  BY <1>2, <1>6, <1>11, <1>12, <1>13 DEF IInv

LEMMA HandOverSweptOK ==
    ASSUME IInv, HandOverSwept
    PROVE  IInv'
  <1>. DEFINE c == Head(swept)
  <1>1. /\ swept # <<>> /\ swept' = Tail(swept) /\ Enqueue(c)
        /\ unended' = IF Len(queue) < QueueSize THEN unended \cup {c} ELSE unended
        /\ UNCHANGED <<enabled, begun, pending, order, aged, leaving, batch, table, ended, setbacks>>
    BY DEF HandOverSwept, memory
  <1>2. /\ c \in ToSet(swept) /\ c \in Calls /\ swept' \in Seq(Calls) /\ IsInjective(swept')
        /\ ToSet(swept') = ToSet(swept) \ {c}
    BY <1>1, HeadTailInjective DEF IInv, TypeOK
  <1>. HIDE DEF c
  <1>3. c \notin ToSet(queue)
    BY <1>2, PlaceNames DEF IInv, PlacesOK
  <1>4. /\ queue' \in Seq(Calls) /\ Len(queue') <= QueueSize /\ IsInjective(queue')
        /\ lost' \subseteq Calls
    BY <1>1, <1>2, <1>3, EnqueueOK
  <1>5. Moves({c}, 3, 4) \/ Moves({c}, 3, 7)
    BY <1>1, <1>2, <1>3, EnqueueOK, HeldSame, PlaceNames, PlaceNamesPrime DEF Moves
  <1>6. PlacesOK'
    BY <1>5, MovesOK DEF IInv
  <1>7. TypeOK'
    BY <1>1, <1>2, <1>4 DEF IInv, TypeOK, Calls
  <1>. QED  BY <1>1, <1>2, <1>4, <1>6, <1>7 DEF IInv

LEMMA TakeOK ==
    ASSUME IInv, Take
    PROVE  IInv'
  <1>. DEFINE c == Head(queue)
  <1>1. /\ queue # <<>> /\ Len(batch) < BatchSize
        /\ batch' = Append(batch, c) /\ queue' = Tail(queue)
        /\ UNCHANGED <<enabled, begun, pending, order, aged, leaving, swept, table, unended,
                       ended, lost, setbacks>>
    BY DEF Take, memory
  <1>2. /\ c \in ToSet(queue) /\ c \in Calls /\ queue' \in Seq(Calls) /\ IsInjective(queue')
        /\ ToSet(queue') = ToSet(queue) \ {c} /\ Len(queue') = Len(queue) - 1
    BY <1>1, HeadTailInjective DEF IInv, TypeOK
  <1>. HIDE DEF c
  <1>3. c \notin ToSet(batch)
    BY <1>2, PlaceNames DEF IInv, PlacesOK
  <1>4. batch \in Seq(Calls) /\ IsInjective(batch)
    BY DEF IInv, TypeOK
  <1>5. /\ batch' \in Seq(Calls) /\ IsInjective(batch')
        /\ ToSet(batch') = ToSet(batch) \cup {c}
    BY <1>1, <1>2, <1>3, <1>4, AppendInjectiveNew
  <1>6. Len(batch') <= BatchSize
    BY <1>1, <1>2, <1>4, SizesAssumption, AppendProperties
  <1>7. Len(queue') <= QueueSize
    BY <1>2, SizesAssumption DEF IInv, TypeOK
  <1>8. Moves({c}, 4, 5)
    BY <1>1, <1>2, <1>5, HeldSame, PlaceNames, PlaceNamesPrime DEF Moves
  <1>9. PlacesOK'
    BY <1>8, MovesOK DEF IInv
  <1>10. TypeOK'
    BY <1>1, <1>2, <1>5, <1>6, <1>7 DEF IInv, TypeOK, Calls
  <1>. QED  BY <1>1, <1>2, <1>5, <1>9, <1>10 DEF IInv

\* The batch goes to the table, or is lost.
LEMMA BatchOK ==
    ASSUME IInv, Flush \/ FlushFails
    PROVE  IInv'
  <1>1. /\ batch' = <<>>
        /\ UNCHANGED <<enabled, begun, pending, order, aged, leaving, swept, queue, ended>>
        /\ unended' \subseteq unended /\ setbacks' \in Nat
        /\ \/ table' = table \cup ToSet(batch) /\ lost' = lost
           \/ lost' = lost \cup ToSet(batch) /\ table' = table
    BY DEF Flush, FlushFails, memory, Setback, IInv, TypeOK
  <1>2. ToSet(batch') = {} /\ IsInjective(batch') /\ batch' \in Seq(Calls) /\ Len(batch') = 0
    BY <1>1 DEF ToSet, IsInjective
  <1>3. ToSet(batch) \subseteq Calls
    BY ToSetOfSeq DEF IInv, TypeOK
  <1>4. Moves(ToSet(batch), 5, 6) \/ Moves(ToSet(batch), 5, 7)
    BY <1>1, <1>2, HeldSame, PlaceNames, PlaceNamesPrime DEF Moves
  <1>5. PlacesOK'
    BY <1>4, MovesOK DEF IInv
  <1>6. table' \subseteq Calls /\ lost' \subseteq Calls /\ unended' \subseteq Calls
    BY <1>1, <1>3 DEF IInv, TypeOK
  <1>7. Len(batch') <= BatchSize
    BY <1>2, SizesAssumption
  <1>8. TypeOK'
    BY <1>1, <1>2, <1>6, <1>7 DEF IInv, TypeOK, Calls
  <1>. QED  BY <1>1, <1>2, <1>5, <1>8 DEF IInv

\* Rows are removed.
LEMMA RowsGoneOK ==
    ASSUME IInv, Prune \/ \E a \in {Account[r] : r \in Requests} : DeleteCalls(a)
    PROVE  IInv'
  <1>1. PICK gone \in SUBSET table :
          /\ table' = table \ gone /\ lost' = lost \cup gone /\ unended' = unended \ gone
          /\ UNCHANGED <<enabled, begun, pending, order, aged, leaving, swept, queue, batch, ended>>
          /\ setbacks' \in Nat
    <2>1. CASE Prune
      <3>1. PICK old \in SUBSET table :
              table' = table \ old /\ unended' = unended \ old /\ lost' = lost \cup old
        BY <2>1 DEF Prune
      <3>2. /\ UNCHANGED <<enabled, begun, pending, order, aged, leaving, swept, queue, batch, ended>>
            /\ setbacks' \in Nat
        BY <2>1 DEF Prune, memory, Setback, IInv, TypeOK
      <3>. QED  BY <3>1, <3>2
    <2>2. ASSUME NEW a, DeleteCalls(a)
          PROVE  \E gone \in SUBSET table :
                     /\ table' = table \ gone /\ lost' = lost \cup gone
                     /\ unended' = unended \ gone
                     /\ UNCHANGED <<enabled, begun, pending, order, aged, leaving, swept,
                                    queue, batch, ended>>
                     /\ setbacks' \in Nat
      <3>. DEFINE gone == {c \in table : Account[c[1]] = a}
      <3>1. gone \in SUBSET table
        OBVIOUS
      <3>2. /\ table' = table \ gone /\ lost' = lost \cup gone
            /\ unended' = unended \ gone
            /\ UNCHANGED <<enabled, begun, pending, order, aged, leaving, swept,
                           queue, batch, ended>>
            /\ setbacks' \in Nat
        BY <2>2 DEF DeleteCalls, memory, Setback, IInv, TypeOK
      <3>. HIDE DEF gone
      <3>. QED  BY <3>1, <3>2
    <2>. QED  BY <2>1, <2>2
  <1>2. Moves(gone, 6, 7)
    BY <1>1, HeldSame, PlaceNames, PlaceNamesPrime DEF Moves
  <1>3. PlacesOK'
    BY <1>2, MovesOK DEF IInv
  <1>4. TypeOK'
    BY <1>1 DEF IInv, TypeOK, Calls
  <1>. QED  BY <1>1, <1>3, <1>4 DEF IInv

LEMMA RestartOK ==
    ASSUME IInv, Restart
    PROVE  IInv'
  <1>1. /\ pending' = {} /\ order' = <<>> /\ aged' = {}
        /\ leaving' = {} /\ swept' = <<>> /\ queue' = <<>> /\ batch' = <<>>
        /\ lost' = Begun \ table /\ unended' = unended \cap table
        /\ UNCHANGED <<enabled, begun, table, ended>> /\ setbacks' \in Nat
    BY DEF Restart, Setback, IInv, TypeOK
  <1>2. ToSet(<<>>) = {} /\ IsInjective(<<>>)
    BY DEF ToSet, IsInjective
  <1>3. Begun' = Begun /\ Begun \subseteq Calls /\ table \subseteq Begun
    BY <1>1, PlaceNames DEF Begun, IInv, PlacesOK
  <1>4. /\ \A i \in 1..5 : Places'[i] = {}
        /\ Places'[6] = table /\ Places'[7] = Begun \ table
    BY <1>1, <1>2, PlaceNamesPrime DEF Held
  <1>5. PlacesOK'
    BY <1>3, <1>4 DEF PlacesOK
  <1>6. TypeOK'
    BY <1>1, <1>3, SizesAssumption DEF IInv, TypeOK, Calls
  <1>. QED  BY <1>1, <1>2, <1>5, <1>6 DEF IInv

\* Steps that move no call.
LEMMA NoMoveOK ==
    ASSUME IInv, (\E r \in Requests : Age(r)) \/ Switch \/ UNCHANGED vars
    PROVE  IInv'
  <1>1. /\ UNCHANGED <<begun, pending, order, leaving, swept, queue, batch, table, unended,
                       ended, lost>>
        /\ enabled' \in BOOLEAN /\ setbacks' \in Nat /\ aged' \subseteq pending
    <2>1. ASSUME NEW r \in Requests, Age(r)
          PROVE  /\ UNCHANGED <<enabled, begun, pending, order, leaving, swept, queue, batch,
                                table, unended, ended, lost, setbacks>>
                 /\ aged' \subseteq pending
      BY <2>1 DEF Age, writer, IInv, TypeOK
    <2>2. CASE Switch
      BY <2>2 DEF Switch, memory, writer, Setback, IInv, TypeOK
    <2>3. CASE UNCHANGED vars
      BY <2>3 DEF vars, IInv, TypeOK
    <2>4. enabled \in BOOLEAN /\ setbacks \in Nat
      BY DEF IInv, TypeOK
    <2>. QED  BY <2>1, <2>2, <2>3, <2>4
  <1>2. \A k \in 1..7 : Places'[k] = Places[k]
    BY <1>1, HeldSame, PlaceNames, PlaceNamesPrime
  <1>3. PlacesOK'
    BY <1>1, <1>2, SamePlaces DEF IInv
  <1>4. TypeOK'
    BY <1>1 DEF IInv, TypeOK, Calls
  <1>. QED  BY <1>1, <1>3, <1>4 DEF IInv

LEMMA StepOK == IInv /\ [Next]_vars => IInv'
  BY BeginOK, CompleteOK, HandOverOK, SweepOK, HandOverSweptOK, TakeOK, BatchOK,
     RowsGoneOK, RestartOK, NoMoveOK DEF Next

LEMMA Inductive == Spec => []IInv
  BY InitOK, StepOK, PTL DEF Spec

-----------------------------------------------------------------------------
(* The theorems *)

\* Every variable keeps its type, and neither the queue nor the writer's batch
\* ever grows beyond its size.
THEOREM TypeCorrect == Spec => []TypeOK
  <1>1. IInv => TypeOK
    BY DEF IInv
  <1>. QED  BY <1>1, Inductive, PTL

\* Every call is in one place at a time, and in no place twice, whatever the
\* handlers, the sweep, the writer and the operator do in between, and over
\* restarts.
THEOREM EveryCallIsOnce == Spec => []OncePerCall
  <1>1. IInv => OncePerCall
    <2>. SUFFICES ASSUME IInv
                  PROVE  OncePerCall
      OBVIOUS
    <2>1. UNION {Places[i] : i \in DOMAIN Places} = Begun
      BY PlaceNames DEF IInv, PlacesOK
    <2>2. \A i, j \in DOMAIN Places : i # j => Places[i] \cap Places[j] = {}
      BY PlaceNames DEF IInv, PlacesOK
    <2>3. /\ swept \in Seq(Calls) /\ queue \in Seq(Calls) /\ batch \in Seq(Calls)
          /\ IsInjective(swept) /\ IsInjective(queue) /\ IsInjective(batch)
      BY DEF IInv, TypeOK
    <2>4. /\ ToSet(swept) \cap ToSet(queue) = {} /\ ToSet(swept) \cap ToSet(batch) = {}
          /\ ToSet(queue) \cap ToSet(batch) = {}
      BY PlaceNames DEF IInv, PlacesOK
    <2>5. /\ swept \o queue \in Seq(Calls) /\ IsInjective(swept \o queue)
          /\ ToSet(swept \o queue) = ToSet(swept) \cup ToSet(queue)
      BY <2>3, <2>4, ConcatInjective
    <2>6. IsInjective((swept \o queue) \o batch)
      BY <2>3, <2>4, <2>5, ConcatInjective
    <2>7. ToSet(order) = pending /\ Len(order) = Cardinality(pending)
      BY LengthOfInjective DEF IInv, TypeOK
    <2>. QED  BY <2>1, <2>2, <2>6, <2>7 DEF OncePerCall
  <1>. QED  BY <1>1, Inductive, PTL
=============================================================================
