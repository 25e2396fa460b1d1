--------------------------- MODULE ProbeWalkProofs ---------------------------
(***************************************************************************)
(* What the walks guarantee for any number of accounts, nodes and walks,   *)
(* any ladder and any caps.                                                *)
(*                                                                         *)
(* A failure whose rung has been read is a strike to come: the strikes on  *)
(* file and those to come are bounded together.  For the benches it is     *)
(* enough to know that whoever is about to bench a node has blamed it.     *)
(***************************************************************************)
EXTENDS ProbeWalk, FiniteSetTheorems, SequenceTheorems, TLAPS

WalkOK(r) == r \in Walks /\ (r.at # "idle" => r.queue # <<>>)

-----------------------------------------------------------------------------
LEMMA NodesAreFinite == IsFiniteSet(Nodes) /\ Cardinality(Nodes) \in Nat
  BY NodesAssumption, FS_CardinalityType

LEMMA IdleOK == WalkOK(Idle) /\ Idle.at = "idle"
  <1>1. (CHOOSE a \in Accounts : TRUE) \in Accounts
    BY AccountsAssumption
  <1>2. <<>> \in Seq(Nodes)
    OBVIOUS
  <1>. QED  BY <1>1, <1>2 DEF Idle, WalkOK, Walks, Steps, Status

\* Places are natural numbers.
LEMMA PlacesType ==
    ASSUME NEW f \in [Nodes -> Int]
    PROVE  Places(f) \in [Nodes -> Nat]
  <1>1. SUFFICES ASSUME NEW n \in Nodes
                 PROVE  Cardinality({f[m] : m \in Nodes} \cap 1..f[n]) \in Nat
    BY DEF Places
  <1>2. IsFiniteSet(1..f[n])
    BY FS_Interval
  <1>3. ({f[m] : m \in Nodes} \cap 1..f[n]) \subseteq 1..f[n]
    OBVIOUS
  <1>. QED  BY <1>2, <1>3, FS_Subset, FS_CardinalityType

LEMMA OnwardOK ==
    ASSUME NEW r, WalkOK(r)
    PROVE  WalkOK(Onward(r)) /\ Onward(r).at \in {"idle", "walking"}
  <1>1. CASE Len(r.queue) <= 1
    BY <1>1, IdleOK DEF Onward
  <1>2. CASE ~(Len(r.queue) <= 1)
    <2>1. r.queue \in Seq(Nodes) /\ Len(r.queue) \in Nat /\ Len(r.queue) >= 2
      BY <1>2 DEF WalkOK, Walks
    <2>2. Tail(r.queue) \in Seq(Nodes) /\ Len(Tail(r.queue)) = Len(r.queue) - 1
      BY <2>1, HeadTailProperties
    <2>3. ASSUME NEW t \in Seq(Nodes), Len(t) = Len(r.queue) - 1 PROVE t # <<>>
      <3>1. Len(t) # 0
        BY <2>1, <2>3
      <3>2. Len(<<>>) = 0
        BY EmptySeq
      <3>. QED  BY <3>1, <3>2
    <2>4. Tail(r.queue) # <<>>
      BY <2>2, <2>3
    <2>. QED  BY <1>2, <2>2, <2>4 DEF Onward, WalkOK, Walks, Steps, Status
  <1>. QED  BY <1>1, <1>2

LEMMA HeadOK ==
    ASSUME NEW r, WalkOK(r), r.at # "idle"
    PROVE  Head(r.queue) \in Nodes /\ r.account \in Accounts
  BY DEF WalkOK, Walks

LEMMA CountedOK ==
    ASSUME NEW r, WalkOK(r), r.at # "idle"
    PROVE  /\ WalkOK(Counted(r)) /\ Counted(r).at = r.at
           /\ Counted(r).account = r.account /\ Counted(r).late = r.late
           /\ Head(Counted(r).queue) = Head(r.queue)
  <1>1. Head(r.queue) \in Nodes /\ <<Head(r.queue)>> \in Seq(Nodes)
    BY HeadOK
  <1>2. Head(<<Head(r.queue)>>) = Head(r.queue) /\ <<Head(r.queue)>> # <<>>
    OBVIOUS
  <1>3. r \in Walks /\ r.unusable + 1 \in Nat
    BY DEF WalkOK, Walks
  <1>4. CASE MaxUnusable > 0 /\ r.unusable + 1 >= MaxUnusable
    <2>1. Counted(r) = [r EXCEPT !.queue = <<Head(r.queue)>>]
      BY <1>4 DEF Counted
    <2>. QED  BY <1>1, <1>2, <1>3, <2>1 DEF WalkOK, Walks
  <1>5. CASE ~(MaxUnusable > 0 /\ r.unusable + 1 >= MaxUnusable)
    <2>1. Counted(r) = [r EXCEPT !.unusable = r.unusable + 1]
      BY <1>5 DEF Counted
    <2>. QED  BY <1>3, <2>1 DEF WalkOK, Walks
  <1>. QED  BY <1>4, <1>5

\* The queue a walk starts with lists nodes.
LEMMA QueueType ==
    ASSUME NEW a \in Accounts, NEW q \in AvailableFor(a), q # <<>>,
           NEW cap \in {1, MaxProxies}
    PROVE  /\ (IF cap \in DOMAIN q THEN SubSeq(q, 1, cap) ELSE q) \in Seq(Nodes)
           /\ (IF cap \in DOMAIN q THEN SubSeq(q, 1, cap) ELSE q) # <<>>
  <1> DEFINE usable == {n \in Nodes : Usable(a, n)}
  <1>1. usable \subseteq Nodes /\ Cardinality(usable) \in Nat
    BY NodesAreFinite, FS_Subset, FS_CardinalityType
  <1>2. q \in [1..Cardinality(usable) -> usable]
    BY DEF AvailableFor
  <1>3. q \in Seq(Nodes) /\ DOMAIN q = 1..Len(q)
    <2>1. q \in Seq(usable)
      <3>1. q = [i \in 1..Cardinality(usable) |-> q[i]]
        BY <1>2
      <3>2. \A i \in 1..Cardinality(usable) : q[i] \in usable
        BY <1>2
      <3>. HIDE DEF usable
      <3>3. [i \in 1..Cardinality(usable) |-> q[i]] \in Seq(usable)
        BY <1>1, <3>2
      <3>. QED  BY <3>1, <3>3
    <2>2. \A i \in 1..Len(q) : q[i] \in Nodes
      BY <2>1, ElementOfSeq
    <2>. QED  BY <2>1, <1>1, SeqMonotonic, LenProperties
  <1>4. ASSUME cap \in DOMAIN q
        PROVE  SubSeq(q, 1, cap) \in Seq(Nodes) /\ SubSeq(q, 1, cap) # <<>>
    <2>1. cap \in 1..Len(q)
      BY <1>3, <1>4
    <2>2. SubSeq(q, 1, cap) \in Seq(Nodes) /\ Len(SubSeq(q, 1, cap)) = cap
      BY <1>3, <2>1, SubSeqProperties
    <2>. QED  BY <2>1, <2>2
  <1>. QED  BY <1>3, <1>4

\* What the pool's variables, the ledger's and the walks' keep.
PoolOK == /\ nodes \in [Nodes -> Status] /\ rows \in [Nodes -> Status]
          /\ used \in [Nodes -> Nat]
          /\ edit \in [node : Nodes, to : Status] \cup {NoEdit}
          /\ setbacks \in Nat

LedgerOK == /\ ledger \in [Accounts -> [Nodes -> Entry]]
            /\ saved \in [Accounts -> [Nodes -> Entry]]
            /\ blamed \subseteq Accounts \X Nodes

WalksOK == walk \in [Workers -> Walks] /\ \A w \in Workers : WalkOK(walk[w])

LEMMA TypeParts == TypeOK <=> PoolOK /\ LedgerOK /\ WalksOK
  BY DEF TypeOK, PoolOK, LedgerOK, WalksOK, WalkOK

LEMMA WalkStep ==
    ASSUME WalksOK, NEW w \in Workers, NEW r, WalkOK(r),
           walk' = [walk EXCEPT ![w] = r]
    PROVE  WalksOK'
  BY DEF WalksOK, WalkOK

LEMMA SetbackType == ASSUME PoolOK, Setback PROVE setbacks' \in Nat
  BY DEF PoolOK, Setback

LEMMA EntryOK ==
    /\ Clean \in Entry
    /\ \A e \in Entry, b \in BOOLEAN : [e EXCEPT !.benched = b] \in Entry
  BY DEF Entry, Clean

LEMMA TableStep ==
    ASSUME NEW t \in [Accounts -> [Nodes -> Entry]], NEW a \in Accounts, NEW n \in Nodes,
           NEW e \in Entry
    PROVE  [t EXCEPT ![a][n] = e] \in [Accounts -> [Nodes -> Entry]]
  OBVIOUS

LEMMA TableLapse ==
    ASSUME NEW t \in [Accounts -> [Nodes -> Entry]], NEW a \in Accounts, NEW n \in Nodes
    PROVE  [t EXCEPT ![a][n].benched = FALSE] \in [Accounts -> [Nodes -> Entry]]
  <1>1. [t[a][n] EXCEPT !.benched = FALSE] \in Entry
    BY EntryOK
  <1>. QED  BY <1>1, TableStep

LEMMA RecordedType ==
    ASSUME NEW e \in Entry, NEW rung \in Nat
    PROVE  Recorded(e, rung) \in Entry
  BY DEF Recorded, Entry, Clean

\* What Mark leaves: a walk that is about to save, or one that goes on.
LEMMA MarkOK ==
    ASSUME TypeOK, NEW w \in Workers, NEW r, WalkOK(r), r.at = "asking",
           NEW rung \in Nat, Mark(w, r, rung)
    PROVE  \E s : /\ WalkOK(s) /\ walk' = [walk EXCEPT ![w] = s]
                  /\ \/ s.at \in {"idle", "walking"}
                     \/ s.at = "saving" /\ s.rung = rung /\ s.account = r.account
                        /\ s.queue = r.queue
  <1>1. Head(r.queue) \in Nodes
    BY HeadOK
  <1>2. CASE nodes[Head(r.queue)] # "gone"
    <2> DEFINE s == [r EXCEPT !.at = "saving", !.copy = nodes[Head(r.queue)], !.rung = rung]
    <2>1. WalkOK(s)
      BY <1>1 DEF WalkOK, Walks, Steps, TypeOK
    <2>2. s.at = "saving" /\ s.rung = rung /\ s.account = r.account /\ s.queue = r.queue
      BY DEF WalkOK, Walks
    <2>3. walk' = [walk EXCEPT ![w] = s]
      BY <1>2 DEF Mark
    <2>. QED  BY <2>1, <2>2, <2>3
  <1>3. CASE nodes[Head(r.queue)] = "gone"
    <2>1. walk' = [walk EXCEPT ![w] = IF rung = 0 \/ r.late THEN Idle ELSE Onward(r)]
      BY <1>3 DEF Mark
    <2>. QED  BY <2>1, IdleOK, OnwardOK
  <1>. QED  BY <1>2, <1>3

-----------------------------------------------------------------------------
LEMMA TypeStep == TypeOK /\ [Next]_vars => TypeOK'
  <1> SUFFICES ASSUME TypeOK, PoolOK, LedgerOK, WalksOK, [Next]_vars
               PROVE  PoolOK' /\ LedgerOK' /\ WalksOK'
    BY DEF TypeOK, PoolOK, LedgerOK, WalksOK, WalkOK
  <1> DEFINE Good == PoolOK' /\ LedgerOK' /\ WalksOK'
  <1>1. ASSUME UNCHANGED <<pool, rows, setbacks>> PROVE PoolOK'
    BY <1>1 DEF PoolOK, pool
  <1>2. ASSUME UNCHANGED <<cooldowns, blamed>> PROVE LedgerOK'
    BY <1>2 DEF LedgerOK, cooldowns
  <1>3. ASSUME UNCHANGED walk PROVE WalksOK'
    BY <1>3 DEF WalksOK
  <1>4. ASSUME NEW w \in Workers, Walk(w) PROVE Good
    <2>1. \A at \in Steps, copy \in Status : walk[w].at # "idle" =>
              WalkOK([walk[w] EXCEPT !.at = at, !.copy = copy])
      BY DEF WalksOK, WalkOK, Walks, Steps
    <2>2. CASE TimeOut(w) \/ Terminal(w)
      BY <1>1, <1>2, <2>2, IdleOK, WalkStep DEF TimeOut, Terminal
    <2>3. CASE Stamp(w)
      <3> DEFINE n == Head(walk[w].queue)
      <3>1. n \in Nodes /\ nodes[n] \in Status
        BY <2>3, HeadOK DEF Stamp, WalksOK, PoolOK
      <3>2. WalksOK'
        <4>1. CASE nodes[n] = "gone"
          <5>1. walk' = [walk EXCEPT ![w] = [walk[w] EXCEPT !.at = "asking"]]
            BY <2>3, <4>1 DEF Stamp
          <5>2. WalkOK([walk[w] EXCEPT !.at = "asking"])
            BY <2>3 DEF Stamp, WalksOK, WalkOK, Walks, Steps
          <5>. QED  BY <5>1, <5>2, WalkStep
        <4>2. CASE nodes[n] # "gone"
          <5>1. walk' = [walk EXCEPT ![w] = [walk[w] EXCEPT !.at = "stamping",
                                                             !.copy = nodes[n]]]
            BY <2>3, <4>2 DEF Stamp
          <5>2. WalkOK([walk[w] EXCEPT !.at = "stamping", !.copy = nodes[n]])
            BY <2>1, <2>3, <3>1 DEF Stamp, Steps
          <5>. QED  BY <5>1, <5>2, WalkStep
        <4>. QED  BY <4>1, <4>2
      <3>3. used' \in [Nodes -> Nat]
        <4>1. Last \in Int
          BY NodesAreFinite DEF Last
        <4>2. \A k \in Nodes : [used EXCEPT ![k] = Last] \in [Nodes -> Int]
          BY <4>1 DEF PoolOK
        <4>3. used' = used \/ used' = Places([used EXCEPT ![n] = Last])
          BY <2>3 DEF Stamp
        <4>. QED  BY <3>1, <4>2, <4>3, PlacesType DEF PoolOK
      <3>. QED  BY <1>2, <2>3, <3>2, <3>3 DEF Stamp, PoolOK
    <2>4. CASE SaveStamp(w)
      <3>1. Head(walk[w].queue) \in Nodes /\ walk[w].copy \in Status
        BY <2>4, HeadOK DEF SaveStamp, WalksOK, WalkOK, Walks
      <3>2. walk' = [walk EXCEPT ![w] = [walk[w] EXCEPT !.at = "asking", !.copy = "gone"]]
        BY <2>4 DEF SaveStamp
      <3>3. WalksOK'
        BY <2>1, <2>4, <3>2, WalkStep DEF SaveStamp, Steps, Status
      <3>. QED  BY <1>2, <2>4, <3>1, <3>3 DEF SaveStamp, PoolOK, pool
    <2>5. CASE SaveStampFails(w)
      <3>1. PICK late \in BOOLEAN :
              /\ walk' = [walk EXCEPT ![w] = [walk[w] EXCEPT !.at = "asking", !.copy = "gone",
                                                             !.late = late]]
              /\ IF late THEN UNCHANGED setbacks ELSE Setback
        BY <2>5 DEF SaveStampFails
      <3>2. WalkOK([walk[w] EXCEPT !.at = "asking", !.copy = "gone", !.late = late])
        BY <2>5 DEF SaveStampFails, WalksOK, WalkOK, Walks, Steps, Status
      <3>3. WalksOK'
        BY <3>1, <3>2, WalkStep
      <3>. QED  BY <1>2, <2>5, <3>1, <3>3, SetbackType DEF SaveStampFails, PoolOK, pool
    <2>6. CASE Succeed(w)
      BY <1>1, <1>2, <2>6, MarkOK, WalkStep DEF Succeed, WalksOK
    <2>7. ASSUME NEW r, WalkOK(r), r.at = "asking", CoolDown(w, r),
                 UNCHANGED <<pool, rows, cooldowns, setbacks>>
          PROVE  Good
      <3>1. Head(r.queue) \in Nodes /\ r.account \in Accounts
        BY <2>7, HeadOK
      <3>2. ledger[r.account][Head(r.queue)].strikes + 1 \in Nat
        BY <3>1 DEF LedgerOK, Entry
      <3>3. WalksOK'
        BY <2>7, <3>2, MarkOK, WalkStep DEF CoolDown
      <3>4. LedgerOK'
        BY <2>7, <3>1 DEF LedgerOK, CoolDown, cooldowns
      <3>. QED  BY <1>1, <2>7, <3>3, <3>4
    <2>8. CASE Fault(w)
      BY <2>7, <2>8 DEF Fault, WalksOK
    <2>9. CASE NonTarget(w)
      BY <2>7, <2>9, CountedOK DEF NonTarget, WalksOK
    <2>10. CASE Stale(w) \/ UpstreamError(w)
      <3>1. WalkOK(Onward(walk[w])) /\ WalkOK(Onward(Counted(walk[w])))
        BY <2>10, CountedOK, OnwardOK DEF Stale, UpstreamError, WalksOK
      <3>. QED  BY <1>1, <1>2, <2>10, <3>1, WalkStep DEF Stale, UpstreamError
    <2>11. CASE SaveMark(w)
      <3>1. Head(walk[w].queue) \in Nodes /\ walk[w].copy \in Status
        BY <2>11, HeadOK DEF SaveMark, WalksOK, WalkOK, Walks
      <3>2. walk' = [walk EXCEPT ![w] = [walk[w] EXCEPT !.at = "recording", !.copy = "gone"]]
        BY <2>11 DEF SaveMark
      <3>3. WalksOK'
        BY <2>1, <2>11, <3>2, WalkStep DEF SaveMark, Steps, Status
      <3>. QED  BY <1>2, <2>11, <3>1, <3>3 DEF SaveMark, PoolOK, pool
    <2>12. CASE SaveMarkLate(w)
      BY <1>1, <1>2, <2>12, IdleOK, WalkStep DEF SaveMarkLate
    <2>13. CASE SaveMarkFails(w)
      <3>1. WalksOK'
        BY <2>13, IdleOK, OnwardOK, WalkStep DEF SaveMarkFails, WalksOK
      <3>. QED  BY <1>2, <2>13, <3>1, SetbackType DEF SaveMarkFails, PoolOK, pool
    <2>14. CASE Record(w)
      <3> DEFINE n == Head(walk[w].queue)
                 a == walk[w].account
      <3>1. n \in Nodes /\ a \in Accounts /\ walk[w].rung \in Nat
        BY <2>14, HeadOK DEF Record, WalksOK, WalkOK, Walks
      <3>2. Recorded(ledger[a][n], walk[w].rung) \in Entry
        BY <3>1, RecordedType DEF LedgerOK
      <3>3. LedgerOK'
        <4>1. /\ ledger' = [ledger EXCEPT ![a][n] = Recorded(ledger[a][n], walk[w].rung)]
              /\ \/ saved' = [saved EXCEPT ![a][n] = Recorded(ledger[a][n], walk[w].rung)]
                 \/ saved' = saved
              /\ UNCHANGED blamed
          BY <2>14 DEF Record
        <4>. HIDE DEF a, n
        <4>2. /\ [ledger EXCEPT ![a][n] = Recorded(ledger[a][n], walk[w].rung)]
                   \in [Accounts -> [Nodes -> Entry]]
              /\ [saved EXCEPT ![a][n] = Recorded(ledger[a][n], walk[w].rung)]
                   \in [Accounts -> [Nodes -> Entry]]
          BY <3>1, <3>2, TableStep DEF LedgerOK
        <4>. QED  BY <4>1, <4>2 DEF LedgerOK
      <3>4. WalksOK'
        BY <2>14, IdleOK, OnwardOK, WalkStep DEF Record, WalksOK
      <3>. QED  BY <2>14, <3>3, <3>4, SetbackType DEF Record, PoolOK, pool
    <2>. QED  BY <1>4, <2>2, <2>3, <2>4, <2>5, <2>6, <2>8, <2>9, <2>10, <2>11, <2>12, <2>13,
                 <2>14 DEF Walk, Answer
  <1>5. ASSUME NEW w \in Workers, NEW a \in Accounts, Start(w, a) PROVE Good
    <2>1. PICK q \in AvailableFor(a), cap \in {1, MaxProxies} :
            walk' = IF q = <<>> THEN walk
                    ELSE [walk EXCEPT ![w] =
                            [Idle EXCEPT !.at = "walking", !.account = a,
                              !.queue = IF cap \in DOMAIN q THEN SubSeq(q, 1, cap) ELSE q]]
      BY <1>5 DEF Start
    <2>2. CASE q = <<>>
      BY <1>1, <1>2, <1>3, <1>5, <2>1, <2>2 DEF Start
    <2>3. CASE q # <<>>
      <3> DEFINE s == IF cap \in DOMAIN q THEN SubSeq(q, 1, cap) ELSE q
                 r == [Idle EXCEPT !.at = "walking", !.account = a, !.queue = s]
      <3>1. s \in Seq(Nodes) /\ s # <<>>
        BY <2>3, QueueType
      <3> HIDE DEF s
      <3>2. WalkOK(r)
        BY <3>1, IdleOK DEF WalkOK, Walks, Steps
      <3>3. walk' = [walk EXCEPT ![w] = r]
        BY <2>1, <2>3 DEF s
      <3>. QED  BY <1>1, <1>2, <1>5, <3>2, <3>3, WalkStep DEF Start
    <2>. QED  BY <2>2, <2>3
  <1>6. ASSUME NEW n \in Nodes, NEW to \in Status, Edit(n, to) PROVE Good
    <2>1. used' \in [Nodes -> Nat]
      <3>1. [used EXCEPT ![n] = 0] \in [Nodes -> Int]
        BY DEF PoolOK
      <3>2. \A k \in Int : [[m \in Nodes |-> 2 * used[m]] EXCEPT ![n] = k] \in [Nodes -> Int]
        BY DEF PoolOK
      <3>3. \A k \in {0} \cup {2 * i - 1 : i \in 1..used[n]} : k \in Int
        BY DEF PoolOK
      <3>4. Earlier(n) \subseteq [Nodes -> Nat]
        BY <3>2, <3>3, PlacesType DEF Earlier
      <3>. QED  BY <1>6, <3>1, <3>4, PlacesType DEF Edit
    <2>2. nodes' \in [Nodes -> Status] /\ edit' \in [node : Nodes, to : Status] \cup {NoEdit}
      BY <1>6 DEF Edit, PoolOK
    <2>. QED  BY <1>2, <1>3, <1>6, <2>1, <2>2, SetbackType DEF Edit, PoolOK
  <1>7. CASE SaveEdit
    <2>1. edit.node \in Nodes /\ edit.to \in Status
      BY <1>7 DEF SaveEdit, PoolOK
    <2>. QED  BY <1>2, <1>3, <1>7, <2>1, SetbackType DEF SaveEdit, PoolOK
  <1>8. ASSUME NEW a \in Accounts, NEW n \in Nodes, Lapse(a, n) PROVE Good
    <2>1. LedgerOK'
      BY <1>8, TableLapse DEF Lapse, LedgerOK
    <2>. QED  BY <1>1, <1>3, <1>8, <2>1 DEF Lapse
  <1>9. ASSUME NEW a \in Accounts, NEW n \in Nodes, ResetCooldown(a, n) PROVE Good
    <2>1. LedgerOK'
      <3>1. /\ [ledger EXCEPT ![a][n] = Clean] \in [Accounts -> [Nodes -> Entry]]
            /\ [saved EXCEPT ![a][n] = Clean] \in [Accounts -> [Nodes -> Entry]]
        BY EntryOK, TableStep DEF LedgerOK
      <3>. QED  BY <1>9, <3>1 DEF ResetCooldown, LedgerOK
    <2>. QED  BY <1>3, <1>9, <2>1, SetbackType DEF ResetCooldown, PoolOK, pool
  <1>10. CASE ResetAllCooldowns
    <2>1. LedgerOK'
      BY <1>10, EntryOK DEF ResetAllCooldowns, LedgerOK
    <2>. QED  BY <1>3, <1>10, <2>1, SetbackType DEF ResetAllCooldowns, PoolOK, pool
  <1>11. CASE Restart
    <2>1. used' \in [Nodes -> Nat]
      <3>1. \A f \in [Nodes -> 0..Cardinality(Nodes)] : f \in [Nodes -> Int]
        BY NodesAreFinite
      <3>. QED  BY <1>11, <3>1, PlacesType DEF Restart
    <2>2. LedgerOK'
      <3>1. PICK over \in SUBSET (Accounts \X Nodes) :
              ledger' = [a \in Accounts |-> [n \in Nodes |->
                            [saved[a][n] EXCEPT !.benched = IF <<a, n>> \in over THEN FALSE ELSE @]]]
        BY <1>11 DEF Restart
      <3>2. ASSUME NEW a \in Accounts, NEW n \in Nodes
            PROVE  [saved[a][n] EXCEPT !.benched = IF <<a, n>> \in over THEN FALSE ELSE @]
                      \in Entry
        <4>1. saved[a][n] \in Entry
          BY DEF LedgerOK
        <4>2. saved[a][n].benched \in BOOLEAN
          BY <4>1 DEF Entry
        <4>3. (IF <<a, n>> \in over THEN FALSE ELSE saved[a][n].benched) \in BOOLEAN
          BY <4>2
        <4>. QED  BY <4>1, <4>3, EntryOK
      <3>. QED  BY <1>11, <3>1, <3>2 DEF Restart, LedgerOK
    <2>3. WalksOK'
      BY <1>11, IdleOK DEF Restart, WalksOK, WalkOK
    <2>. QED  BY <1>11, <2>1, <2>2, <2>3, SetbackType DEF Restart, PoolOK
  <1>12. CASE UNCHANGED vars
    BY <1>1, <1>2, <1>3, <1>12 DEF vars, pool, cooldowns
  <1>. QED  BY <1>4, <1>5, <1>6, <1>7, <1>8, <1>9, <1>10, <1>11, <1>12 DEF Next

\* Every variable keeps its type, and no walk runs past the end of its queue.
THEOREM TypeCorrect == Spec => []TypeOK
  <1>1. Init => TypeOK
    <2> SUFFICES ASSUME Init PROVE TypeOK
      OBVIOUS
    <2>1. PoolOK
      BY DEF Init, PoolOK, Status
    <2>2. LedgerOK
      BY DEF Init, LedgerOK, Entry, Clean
    <2>3. WalksOK
      BY IdleOK DEF Init, WalksOK, WalkOK
    <2>. QED  BY <2>1, <2>2, <2>3, TypeParts
  <1>. QED  BY <1>1, TypeStep, PTL DEF Spec

-----------------------------------------------------------------------------
(* Failures that are still to be recorded *)

Owes(r) == r.at \in {"saving", "recording"} /\ r.rung > 0

Same(r, s) == r.account = s.account /\ r.queue = s.queue /\ r.rung = s.rung

\* No walk comes to owe anything it does not owe already.
Fewer == \A v \in Workers : Owes(walk'[v]) => Owes(walk[v]) /\ Same(walk'[v], walk[v])

\* No counter rises and no bench appears.
Falls(t, u) == \A a \in Accounts, n \in Nodes :
                  u[a][n].strikes <= t[a][n].strikes /\ (u[a][n].benched => t[a][n].benched)

LEMMA FewerStep ==
    ASSUME TypeOK, NEW w \in Workers, NEW s, walk' = [walk EXCEPT ![w] = s],
           Owes(s) => Owes(walk[w]) /\ Same(s, walk[w])
    PROVE  Fewer
  BY DEF TypeOK, Fewer, Same

LEMMA QuietStep ==
    ASSUME TypeOK, NEW w \in Workers, NEW s, walk' = [walk EXCEPT ![w] = s],
           s.at \in {"idle", "walking", "stamping", "asking"}
    PROVE  Fewer
  BY FewerStep DEF Owes

LEMMA FallsRefl ==
    ASSUME NEW t \in [Accounts -> [Nodes -> Entry]]
    PROVE  Falls(t, t)
  BY DEF Falls, Entry

LEMMA FallsStep ==
    ASSUME NEW t \in [Accounts -> [Nodes -> Entry]], NEW a \in Accounts, NEW n \in Nodes,
           NEW e \in Entry, e.strikes <= t[a][n].strikes, e.benched => t[a][n].benched
    PROVE  Falls(t, [t EXCEPT ![a][n] = e])
  BY DEF Falls, Entry

LEMMA CleanFalls ==
    ASSUME NEW e \in Entry
    PROVE  Clean.strikes <= e.strikes /\ ~Clean.benched
  BY DEF Clean, Entry

\* Every step but three kinds only takes away.
LEMMA StepShape ==
    ASSUME TypeOK, [Next]_vars
    PROVE  \/ Fewer /\ Falls(ledger, ledger') /\ Falls(saved, saved') /\ UNCHANGED blamed
           \/ \E w \in Workers : Fault(w) \/ NonTarget(w)
           \/ \E w \in Workers : Record(w)
           \/ Restart
  <1> DEFINE Goal == Fewer /\ Falls(ledger, ledger') /\ Falls(saved, saved') /\ UNCHANGED blamed
  <1>a. ledger \in [Accounts -> [Nodes -> Entry]] /\ saved \in [Accounts -> [Nodes -> Entry]]
    BY DEF TypeOK
  <1>b. ASSUME UNCHANGED cooldowns PROVE Falls(ledger, ledger') /\ Falls(saved, saved')
    BY <1>a, <1>b, FallsRefl DEF cooldowns
  <1>c. ASSUME UNCHANGED walk PROVE Fewer
    BY <1>c DEF Fewer, Same
  <1>d. ~Owes(Idle) /\ \A r : r.at \in {"idle", "walking", "stamping", "asking"} => ~Owes(r)
    BY IdleOK DEF Owes
  <1>e. \A w \in Workers : WalkOK(walk[w]) /\ walk[w] \in Walks
    BY DEF TypeOK, WalkOK
  <1>1. ASSUME NEW w \in Workers,
               TimeOut(w) \/ Terminal(w) \/ SaveMarkLate(w) \/ Stale(w) \/ UpstreamError(w)
                 \/ SaveMarkFails(w)
        PROVE  Goal
    <2>1. \E s : walk' = [walk EXCEPT ![w] = s] /\ s.at \in {"idle", "walking"}
      BY <1>1, <1>e, IdleOK, OnwardOK, CountedOK
      DEF TimeOut, Terminal, SaveMarkLate, Stale, UpstreamError, SaveMarkFails
    <2>2. Fewer
      BY <2>1, QuietStep
    <2>3. UNCHANGED cooldowns /\ UNCHANGED blamed
      BY <1>1 DEF TimeOut, Terminal, SaveMarkLate, Stale, UpstreamError, SaveMarkFails
    <2>. QED  BY <1>b, <2>2, <2>3
  <1>2. ASSUME NEW w \in Workers, Stamp(w) \/ SaveStamp(w) \/ SaveStampFails(w) PROVE Goal
    <2>1. \A c, l : /\ [walk[w] EXCEPT !.at = "asking"].at = "asking"
                    /\ [walk[w] EXCEPT !.at = "asking", !.copy = c].at = "asking"
                    /\ [walk[w] EXCEPT !.at = "stamping", !.copy = c].at = "stamping"
                    /\ [walk[w] EXCEPT !.at = "asking", !.copy = c, !.late = l].at = "asking"
      BY <1>e DEF Walks
    <2>2. ASSUME NEW s, walk' = [walk EXCEPT ![w] = s], s.at \in {"stamping", "asking"}
          PROVE  Fewer
      BY <2>2, QuietStep
    <2>3. ASSUME Stamp(w) PROVE Fewer
      <3> DEFINE c == nodes[Head(walk[w].queue)]
      <3>1. \/ walk' = [walk EXCEPT ![w] = [walk[w] EXCEPT !.at = "asking"]]
            \/ walk' = [walk EXCEPT ![w] = [walk[w] EXCEPT !.at = "stamping", !.copy = c]]
        BY <2>3 DEF Stamp
      <3>. HIDE DEF c
      <3>2. CASE walk' = [walk EXCEPT ![w] = [walk[w] EXCEPT !.at = "asking"]]
        BY <2>1, <2>2, <3>2
      <3>3. CASE walk' = [walk EXCEPT ![w] = [walk[w] EXCEPT !.at = "stamping", !.copy = c]]
        BY <2>1, <2>2, <3>3
      <3>. QED  BY <3>1, <3>2, <3>3
    <2>5. ASSUME SaveStamp(w) PROVE Fewer
      <3> DEFINE r == [walk[w] EXCEPT !.at = "asking", !.copy = "gone"]
      <3>1. walk' = [walk EXCEPT ![w] = r]
        BY <2>5 DEF SaveStamp
      <3>2. r.at = "asking"
        BY <2>1
      <3>. HIDE DEF r
      <3>. QED  BY <2>2, <3>1, <3>2
    <2>6. ASSUME SaveStampFails(w) PROVE Fewer
      <3>1. PICK l \in BOOLEAN :
              walk' = [walk EXCEPT ![w] = [walk[w] EXCEPT !.at = "asking", !.copy = "gone", !.late = l]]
        BY <2>6 DEF SaveStampFails
      <3> DEFINE r == [walk[w] EXCEPT !.at = "asking", !.copy = "gone", !.late = l]
      <3>2. walk' = [walk EXCEPT ![w] = r] /\ r.at = "asking"
        BY <2>1, <3>1
      <3>. HIDE DEF r
      <3>. QED  BY <2>2, <3>2
    <2>4. UNCHANGED cooldowns /\ UNCHANGED blamed
      BY <1>2 DEF Stamp, SaveStamp, SaveStampFails
    <2>. QED  BY <1>2, <1>b, <2>3, <2>4, <2>5, <2>6
  <1>3. ASSUME NEW w \in Workers, Succeed(w) PROVE Goal
    <2>1. \E s : walk' = [walk EXCEPT ![w] = s] /\ ~Owes(s)
      BY <1>3, <1>d, <1>e, MarkOK DEF Succeed, Owes
    <2>. QED  BY <1>3, <1>b, <2>1, FewerStep DEF Succeed
  <1>4. ASSUME NEW w \in Workers, SaveMark(w) PROVE Goal
    <2> DEFINE s == [walk[w] EXCEPT !.at = "recording", !.copy = "gone"]
    <2>1. walk' = [walk EXCEPT ![w] = s]
      BY <1>4 DEF SaveMark
    <2>2. Owes(s) => Owes(walk[w]) /\ Same(s, walk[w])
      BY <1>4, <1>e DEF SaveMark, Owes, Same, Walks
    <2>. QED  BY <1>4, <1>b, <2>1, <2>2, FewerStep DEF SaveMark
  <1>5. ASSUME NEW w \in Workers, NEW a \in Accounts, Start(w, a) PROVE Goal
    <2>1. \A q : [Idle EXCEPT !.at = "walking", !.account = a, !.queue = q].at = "walking"
      BY IdleOK DEF WalkOK, Walks
    <2>2. walk' = walk \/ \E s : walk' = [walk EXCEPT ![w] = s] /\ s.at = "walking"
      BY <1>5, <2>1 DEF Start
    <2>3. Fewer
      BY <1>c, <2>2, QuietStep
    <2>. QED  BY <1>5, <1>b, <2>3 DEF Start
  <1>6. ASSUME (\E n \in Nodes, to \in Status : Edit(n, to)) \/ SaveEdit \/ UNCHANGED vars
        PROVE  Goal
    BY <1>6, <1>b, <1>c DEF Edit, SaveEdit, vars, cooldowns
  <1>7. ASSUME NEW a \in Accounts, NEW n \in Nodes, Lapse(a, n) PROVE Goal
    <2>1. \A t \in [Accounts -> [Nodes -> Entry]] :
            Falls(t, [t EXCEPT ![a][n].benched = FALSE])
      <3> TAKE t \in [Accounts -> [Nodes -> Entry]]
      <3>1. [t[a][n] EXCEPT !.benched = FALSE] \in Entry
        BY EntryOK
      <3>2. /\ [t[a][n] EXCEPT !.benched = FALSE].strikes <= t[a][n].strikes
            /\ ~[t[a][n] EXCEPT !.benched = FALSE].benched
        BY DEF Entry
      <3>. QED  BY <3>1, <3>2, FallsStep
    <2>. QED  BY <1>7, <1>a, <1>c, <2>1, FallsRefl DEF Lapse
  <1>8. ASSUME NEW a \in Accounts, NEW n \in Nodes, ResetCooldown(a, n) PROVE Goal
    <2>1. \A t \in [Accounts -> [Nodes -> Entry]] : Falls(t, [t EXCEPT ![a][n] = Clean])
      <3> TAKE t \in [Accounts -> [Nodes -> Entry]]
      <3>1. t[a][n] \in Entry
        OBVIOUS
      <3>2. Clean.strikes <= t[a][n].strikes /\ ~Clean.benched
        BY <3>1, CleanFalls
      <3>. QED  BY <3>2, EntryOK, FallsStep
    <2>. QED  BY <1>8, <1>a, <1>c, <2>1, FallsRefl DEF ResetCooldown
  <1>9. ASSUME ResetAllCooldowns PROVE Goal
    <2>1. \A t \in [Accounts -> [Nodes -> Entry]] :
            Falls(t, [a \in Accounts |-> [n \in Nodes |-> Clean]])
      BY CleanFalls DEF Falls
    <2>. QED  BY <1>9, <1>a, <1>c, <2>1, FallsRefl DEF ResetAllCooldowns
  <1>. QED  BY <1>1, <1>2, <1>3, <1>4, <1>5, <1>6, <1>7, <1>8, <1>9 DEF Next, Walk, Answer

\* A failure is blamed before it is owed.
LEMMA FailureShape ==
    ASSUME TypeOK, NEW w \in Workers, Fault(w) \/ NonTarget(w)
    PROVE  \E s : \E a \in Accounts, n \in Nodes :
              /\ walk' = [walk EXCEPT ![w] = s]
              /\ Owes(s) => /\ s.account = a /\ Head(s.queue) = n
                            /\ s.rung = ledger[a][n].strikes + 1
              /\ blamed' = blamed \cup {<<a, n>>}
              /\ UNCHANGED cooldowns
  <1>1. ASSUME NEW r, WalkOK(r), r.at = "asking", CoolDown(w, r), UNCHANGED cooldowns
        PROVE  \E s : \E a \in Accounts, n \in Nodes :
                  /\ walk' = [walk EXCEPT ![w] = s]
                  /\ Owes(s) => /\ s.account = a /\ Head(s.queue) = n
                                /\ s.rung = ledger[a][n].strikes + 1
                  /\ blamed' = blamed \cup {<<a, n>>}
                  /\ UNCHANGED cooldowns
    <2> DEFINE a == r.account
               n == Head(r.queue)
    <2>1. n \in Nodes /\ a \in Accounts
      BY <1>1, HeadOK
    <2>2. ledger[a][n].strikes + 1 \in Nat
      BY <2>1 DEF TypeOK, Entry
    <2>3. PICK s : /\ walk' = [walk EXCEPT ![w] = s]
                   /\ \/ s.at \in {"idle", "walking"}
                      \/ s.at = "saving" /\ s.rung = ledger[a][n].strikes + 1
                         /\ s.account = a /\ s.queue = r.queue
      BY <1>1, <2>2, MarkOK DEF CoolDown
    <2>4. Owes(s) => s.account = a /\ Head(s.queue) = n /\ s.rung = ledger[a][n].strikes + 1
      BY <2>3 DEF Owes
    <2>5. blamed' = blamed \cup {<<a, n>>}
      BY <1>1 DEF CoolDown
    <2>. HIDE DEF a, n
    <2>. QED  BY <1>1, <2>1, <2>3, <2>4, <2>5
  <1>2. WalkOK(walk[w])
    BY DEF TypeOK, WalkOK
  <1>. QED  BY <1>1, <1>2, CountedOK DEF Fault, NonTarget

\* A restart reads the table back, and no walk survives it.
LEMMA RestartShape ==
    ASSUME TypeOK, Restart
    PROVE  /\ \A a \in Accounts, n \in Nodes :
                /\ ledger'[a][n].strikes = saved[a][n].strikes
                /\ ledger'[a][n].benched => saved[a][n].benched
           /\ \A w \in Workers : ~Owes(walk'[w])
           /\ UNCHANGED <<saved, blamed>>
  <1>1. PICK over \in SUBSET (Accounts \X Nodes) :
          ledger' = [a \in Accounts |-> [n \in Nodes |->
                        [saved[a][n] EXCEPT !.benched = IF <<a, n>> \in over THEN FALSE ELSE @]]]
    BY DEF Restart
  <1>2. ASSUME NEW a \in Accounts, NEW n \in Nodes
        PROVE  /\ ledger'[a][n].strikes = saved[a][n].strikes
               /\ ledger'[a][n].benched => saved[a][n].benched
    <2> DEFINE b == IF <<a, n>> \in over THEN FALSE ELSE saved[a][n].benched
    <2>1. ledger'[a][n] = [saved[a][n] EXCEPT !.benched = b]
      BY <1>1
    <2>2. saved[a][n] \in Entry
      BY DEF TypeOK
    <2>3. b => saved[a][n].benched
      OBVIOUS
    <2>. HIDE DEF b
    <2>4. ledger'[a][n].strikes = saved[a][n].strikes /\ ledger'[a][n].benched = b
      BY <2>1, <2>2 DEF Entry
    <2>. QED  BY <2>3, <2>4
  <1>3. \A w \in Workers : ~Owes(walk'[w])
    BY IdleOK DEF Restart, Owes
  <1>. QED  BY <1>2, <1>3 DEF Restart

-----------------------------------------------------------------------------
(* The ladder *)

Limit == Top - 2 + Cardinality(Workers)

\* The walks about to add a strike for a and n.
Due(a, n) == {w \in Workers : /\ Owes(walk[w]) /\ walk[w].rung < Top
                              /\ walk[w].account = a /\ Head(walk[w].queue) = n}

Ladder == /\ \A a \in Accounts, n \in Nodes :
                ledger[a][n].strikes + Cardinality(Due(a, n)) <= Limit
          /\ \A a \in Accounts, n \in Nodes : saved[a][n].strikes <= Limit

LEMMA SomeWorkers ==
    \A S \in SUBSET Workers : IsFiniteSet(S) /\ Cardinality(S) \in Nat
                              /\ Cardinality(S) <= Cardinality(Workers)
                              /\ Cardinality(Workers) \in Nat
  BY WorkersAssumption, FS_Subset, FS_CardinalityType

LEMMA Smaller ==
    ASSUME NEW S \in SUBSET Workers, NEW T \in SUBSET S
    PROVE  Cardinality(T) <= Cardinality(S)
  BY SomeWorkers, FS_Subset

\* The strikes on file for a node never exceed Top - 2 by more than the number of
\* walks, each of which holds one rung at most that it has still to record.
THEOREM LadderIsBounded == Spec => []StrikesBounded
  <1>1. Init => Ladder
    <2> SUFFICES ASSUME Init, NEW a \in Accounts, NEW n \in Nodes
                 PROVE  /\ ledger[a][n].strikes + Cardinality(Due(a, n)) <= Limit
                        /\ saved[a][n].strikes <= Limit
      BY DEF Ladder
    <2>1. Cardinality(Due(a, n)) \in Nat /\ Cardinality(Due(a, n)) <= Cardinality(Workers)
          /\ Cardinality(Workers) \in Nat
      BY SomeWorkers DEF Due
    <2>2. ledger[a][n].strikes = 0 /\ saved[a][n].strikes = 0
      BY DEF Init, Clean
    <2>. QED  BY <2>1, <2>2, TopAssumption DEF Limit
  <1>2. Ladder /\ TypeOK /\ [Next]_vars => Ladder'
    <2> SUFFICES ASSUME Ladder, TypeOK, [Next]_vars PROVE Ladder'
      OBVIOUS
    <2> USE TopAssumption
    <2>1. \A a, n : /\ Due(a, n) \in SUBSET Workers /\ Due(a, n)' \in SUBSET Workers
                    /\ Cardinality(Due(a, n)) \in Nat /\ Cardinality(Due(a, n)') \in Nat
                    /\ Cardinality(Due(a, n)') <= Cardinality(Workers)
      BY SomeWorkers DEF Due
    <2>2. Cardinality(Workers) \in Nat /\ Limit \in Int
      BY SomeWorkers DEF Limit
    <2>3. \A a \in Accounts, n \in Nodes : ledger[a][n].strikes \in Nat /\ saved[a][n].strikes \in Nat
                                            /\ ledger[a][n] \in Entry
      BY DEF TypeOK, Entry
    <2>4. \A a \in Accounts, n \in Nodes : ledger'[a][n].strikes \in Nat /\ saved'[a][n].strikes \in Nat
      <3>1. TypeOK'
        BY TypeStep
      <3>. QED  BY <3>1 DEF TypeOK, Entry
    <2>5. \A a \in Accounts, n \in Nodes :
            ledger[a][n].strikes + Cardinality(Due(a, n)) <= Limit /\ saved[a][n].strikes <= Limit
      BY DEF Ladder
    <2>6. CASE Fewer /\ Falls(ledger, ledger') /\ Falls(saved, saved')
      <3> SUFFICES ASSUME NEW a \in Accounts, NEW n \in Nodes
                   PROVE  /\ ledger'[a][n].strikes + Cardinality(Due(a, n)') <= Limit
                          /\ saved'[a][n].strikes <= Limit
        BY DEF Ladder, Limit
      <3>1. Due(a, n)' \subseteq Due(a, n)
        BY <2>6 DEF Due, Fewer, Same
      <3>2. Cardinality(Due(a, n)') <= Cardinality(Due(a, n))
        BY <2>1, <3>1, Smaller
      <3>3. ledger'[a][n].strikes <= ledger[a][n].strikes /\ saved'[a][n].strikes <= saved[a][n].strikes
        BY <2>6 DEF Falls
      <3>. QED  BY <2>1, <2>2, <2>3, <2>4, <2>5, <3>2, <3>3
    <2>7. ASSUME NEW w \in Workers, Fault(w) \/ NonTarget(w) PROVE Ladder'
      <3>1. PICK s : \E b \in Accounts, m \in Nodes :
              /\ walk' = [walk EXCEPT ![w] = s]
              /\ Owes(s) => /\ s.account = b /\ Head(s.queue) = m
                            /\ s.rung = ledger[b][m].strikes + 1
              /\ UNCHANGED cooldowns
        BY <2>7, FailureShape DEF cooldowns
      <3>2. \A v \in Workers : walk'[v] = IF v = w THEN s ELSE walk[v]
        BY <3>1 DEF TypeOK
      <3> SUFFICES ASSUME NEW a \in Accounts, NEW n \in Nodes
                   PROVE  /\ ledger'[a][n].strikes + Cardinality(Due(a, n)') <= Limit
                          /\ saved'[a][n].strikes <= Limit
        BY DEF Ladder, Limit
      <3>3. CASE w \in Due(a, n)'
        <4>1. Owes(s) /\ s.rung < Top /\ s.account = a /\ Head(s.queue) = n
          BY <3>2, <3>3 DEF Due
        <4>2. ledger[a][n].strikes + 1 < Top
          BY <3>1, <4>1
        <4>. QED  BY <2>1, <2>2, <2>3, <2>5, <3>1, <4>2 DEF cooldowns, Limit
      <3>4. CASE w \notin Due(a, n)'
        <4>1. Due(a, n)' \subseteq Due(a, n)
          BY <3>2, <3>4 DEF Due
        <4>2. Cardinality(Due(a, n)') <= Cardinality(Due(a, n))
          BY <2>1, <4>1, Smaller
        <4>. QED  BY <2>1, <2>2, <2>3, <2>5, <3>1, <4>2 DEF cooldowns
      <3>. QED  BY <3>3, <3>4
    <2>8. ASSUME NEW w \in Workers, Record(w) PROVE Ladder'
      <3> DEFINE b == walk[w].account
                 m == Head(walk[w].queue)
                 e == Recorded(ledger[b][m], walk[w].rung)
      <3>1. WalkOK(walk[w]) /\ walk[w].at = "recording" /\ walk[w].rung \in Nat
        BY <2>8 DEF Record, TypeOK, WalkOK, Walks
      <3>2. b \in Accounts /\ m \in Nodes
        BY <3>1, HeadOK
      <3>3. /\ ledger' = [ledger EXCEPT ![b][m] = e]
            /\ saved' = [saved EXCEPT ![b][m] = e] \/ saved' = saved
            /\ walk' = [walk EXCEPT ![w] = IF walk[w].rung = 0 THEN Idle ELSE Onward(walk[w])]
        BY <2>8 DEF Record
      <3>4. \A v \in Workers : Owes(walk'[v]) => v # w /\ walk'[v] = walk[v]
        <4>1. (IF walk[w].rung = 0 THEN Idle ELSE Onward(walk[w])).at \in {"idle", "walking"}
          BY <3>1, IdleOK, OnwardOK
        <4>. QED  BY <3>3, <4>1 DEF TypeOK, Owes
      <3>5. \/ e.strikes = 0
            \/ Owes(walk[w]) /\ walk[w].rung < Top /\ e.strikes = ledger[b][m].strikes + 1
        BY <3>1 DEF Recorded, Clean, Owes
      <3>6. /\ \A a \in Accounts, n \in Nodes :
                  ledger'[a][n] = IF a = b /\ n = m THEN e ELSE ledger[a][n]
            /\ \A a \in Accounts, n \in Nodes :
                  saved'[a][n] = saved[a][n] \/ (a = b /\ n = m /\ saved'[a][n] = e)
        <4>. HIDE DEF e, b, m
        <4>. QED  BY <3>2, <3>3 DEF TypeOK
      <3>. HIDE DEF e, b, m
      <3> SUFFICES ASSUME NEW a \in Accounts, NEW n \in Nodes
                   PROVE  /\ ledger'[a][n].strikes + Cardinality(Due(a, n)') <= Limit
                          /\ saved'[a][n].strikes <= Limit
        BY DEF Ladder, Limit
      <3>7. Due(a, n)' \subseteq Due(a, n) \ {w}
        BY <3>4 DEF Due
      <3>8. Cardinality(Due(a, n)') <= Cardinality(Due(a, n))
        BY <2>1, <3>7, Smaller
      <3>9. CASE a = b /\ n = m /\ e.strikes # 0
        <4>1. w \in Due(a, n)
          BY <3>5, <3>9 DEF Due, b, m
        <4>2. Cardinality(Due(a, n) \ {w}) = Cardinality(Due(a, n)) - 1
          BY <2>1, <4>1, SomeWorkers, FS_RemoveElement
        <4>3. Cardinality(Due(a, n)') <= Cardinality(Due(a, n) \ {w})
          <5>1. Due(a, n) \ {w} \in SUBSET Workers
            BY <2>1
          <5>. QED  BY <3>7, <5>1, Smaller
        <4>4. e.strikes = ledger[a][n].strikes + 1
          BY <3>5, <3>9
        <4>5. ledger'[a][n].strikes + Cardinality(Due(a, n)') <= Limit
          BY <2>1, <2>2, <2>3, <2>5, <3>6, <3>9, <4>2, <4>3, <4>4
        <4>6. saved'[a][n].strikes = saved[a][n].strikes \/ saved'[a][n].strikes = ledger[a][n].strikes + 1
          BY <3>6, <4>4
        <4>7. Cardinality(Due(a, n)) >= 1
          BY <2>1, <4>2, <4>3
        <4>. QED  BY <2>1, <2>2, <2>3, <2>5, <4>5, <4>6, <4>7
      <3>10. CASE ~(a = b /\ n = m)
        BY <2>1, <2>2, <2>3, <2>5, <3>6, <3>8, <3>10
      <3>11. CASE a = b /\ n = m /\ e.strikes = 0
        <4>1. ledger'[a][n].strikes = 0 /\ (saved'[a][n].strikes = 0 \/ saved'[a][n] = saved[a][n])
          BY <3>6, <3>11
        <4>. QED  BY <2>1, <2>2, <2>3, <2>5, <3>8, <4>1
      <3>. QED  BY <3>9, <3>10, <3>11
    <2>9. CASE Restart
      <3> SUFFICES ASSUME NEW a \in Accounts, NEW n \in Nodes
                   PROVE  /\ ledger'[a][n].strikes + Cardinality(Due(a, n)') <= Limit
                          /\ saved'[a][n].strikes <= Limit
        BY DEF Ladder, Limit
      <3>1. ledger'[a][n].strikes = saved[a][n].strikes /\ saved' = saved
        BY <2>9, RestartShape
      <3>2. Due(a, n)' = {}
        BY <2>9, RestartShape DEF Due
      <3>3. Cardinality(Due(a, n)') = 0
        BY <3>2, FS_EmptySet
      <3>. QED  BY <2>2, <2>3, <2>5, <3>1, <3>3
    <2>. QED  BY <2>6, <2>7, <2>8, <2>9, StepShape
  <1>3. Ladder /\ TypeOK => StrikesBounded
    <2> SUFFICES ASSUME Ladder, TypeOK, NEW a \in Accounts, NEW n \in Nodes
                 PROVE  ledger[a][n].strikes <= Limit
      BY DEF StrikesBounded, Limit
    <2>1. Cardinality(Due(a, n)) \in Nat /\ Cardinality(Workers) \in Nat
      BY SomeWorkers DEF Due
    <2>2. ledger[a][n].strikes \in Nat /\ ledger[a][n].strikes + Cardinality(Due(a, n)) <= Limit
      BY DEF Ladder, TypeOK, Entry
    <2>. QED  BY <2>1, <2>2, TopAssumption DEF Limit
  <1>. QED  BY <1>1, <1>2, <1>3, TypeCorrect, PTL DEF Spec

-----------------------------------------------------------------------------
(* The benches *)

\* Whoever has benched a node, or is about to, has blamed it.
Earned ==
    /\ \A a \in Accounts, n \in Nodes : ledger[a][n].benched => <<a, n>> \in blamed
    /\ \A a \in Accounts, n \in Nodes : saved[a][n].benched => <<a, n>> \in blamed
    /\ \A w \in Workers : Owes(walk[w]) => <<walk[w].account, Head(walk[w].queue)>> \in blamed

\* No node is taken from an account it has not failed.
THEOREM BenchesHaveACause == Spec => []BenchesAreEarned
  <1>1. Init => Earned
    BY IdleOK DEF Init, Earned, Clean, Owes
  <1>2. Earned /\ TypeOK /\ [Next]_vars => Earned'
    <2> SUFFICES ASSUME Earned, TypeOK, [Next]_vars PROVE Earned'
      OBVIOUS
    <2>1. CASE Fewer /\ Falls(ledger, ledger') /\ Falls(saved, saved') /\ UNCHANGED blamed
      <3>1. \A a \in Accounts, n \in Nodes : (ledger[a][n].benched => <<a, n>> \in blamed)'
        BY <2>1 DEF Earned, Falls
      <3>2. \A a \in Accounts, n \in Nodes : (saved[a][n].benched => <<a, n>> \in blamed)'
        BY <2>1 DEF Earned, Falls
      <3>3. \A w \in Workers :
              (Owes(walk[w]) => <<walk[w].account, Head(walk[w].queue)>> \in blamed)'
        BY <2>1 DEF Earned, Fewer, Same
      <3>. QED  BY <3>1, <3>2, <3>3 DEF Earned
    <2>2. ASSUME NEW w \in Workers, Fault(w) \/ NonTarget(w) PROVE Earned'
      <3>1. PICK s : \E b \in Accounts, m \in Nodes :
              /\ walk' = [walk EXCEPT ![w] = s]
              /\ Owes(s) => s.account = b /\ Head(s.queue) = m
              /\ blamed' = blamed \cup {<<b, m>>}
              /\ UNCHANGED cooldowns
        BY <2>2, FailureShape
      <3>2. \A v \in Workers : walk'[v] = IF v = w THEN s ELSE walk[v]
        BY <3>1 DEF TypeOK
      <3>3. \A v \in Workers :
              (Owes(walk[v]) => <<walk[v].account, Head(walk[v].queue)>> \in blamed)'
        BY <3>1, <3>2 DEF Earned
      <3>. QED  BY <3>1, <3>3 DEF Earned, cooldowns
    <2>3. ASSUME NEW w \in Workers, Record(w) PROVE Earned'
      <3> DEFINE b == walk[w].account
                 m == Head(walk[w].queue)
                 e == Recorded(ledger[b][m], walk[w].rung)
      <3>1. WalkOK(walk[w]) /\ walk[w].at = "recording" /\ walk[w].rung \in Nat
        BY <2>3 DEF Record, TypeOK, WalkOK, Walks
      <3>2. b \in Accounts /\ m \in Nodes
        BY <3>1, HeadOK
      <3>3. /\ ledger' = [ledger EXCEPT ![b][m] = e]
            /\ saved' = [saved EXCEPT ![b][m] = e] \/ saved' = saved
            /\ walk' = [walk EXCEPT ![w] = IF walk[w].rung = 0 THEN Idle ELSE Onward(walk[w])]
            /\ UNCHANGED blamed
        BY <2>3 DEF Record
      <3>4. \A v \in Workers : Owes(walk'[v]) => walk'[v] = walk[v]
        <4>1. (IF walk[w].rung = 0 THEN Idle ELSE Onward(walk[w])).at \in {"idle", "walking"}
          BY <3>1, IdleOK, OnwardOK
        <4>. QED  BY <3>3, <4>1 DEF TypeOK, Owes
      <3>5. e.benched => <<b, m>> \in blamed
        <4>1. e.benched => walk[w].rung # 0
          BY DEF Recorded, Clean
        <4>2. walk[w].rung # 0 => Owes(walk[w])
          BY <3>1 DEF Owes
        <4>. QED  BY <4>1, <4>2 DEF Earned
      <3>6. /\ \A a \in Accounts, n \in Nodes :
                  ledger'[a][n] = ledger[a][n] \/ (a = b /\ n = m /\ ledger'[a][n] = e)
            /\ \A a \in Accounts, n \in Nodes :
                  saved'[a][n] = saved[a][n] \/ (a = b /\ n = m /\ saved'[a][n] = e)
        <4>. HIDE DEF e, b, m
        <4>. QED  BY <3>2, <3>3 DEF TypeOK
      <3>. HIDE DEF e, b, m
      <3>7. \A a \in Accounts, n \in Nodes : (ledger[a][n].benched => <<a, n>> \in blamed)'
        BY <3>3, <3>5, <3>6 DEF Earned
      <3>8. \A a \in Accounts, n \in Nodes : (saved[a][n].benched => <<a, n>> \in blamed)'
        BY <3>3, <3>5, <3>6 DEF Earned
      <3>9. \A v \in Workers :
              (Owes(walk[v]) => <<walk[v].account, Head(walk[v].queue)>> \in blamed)'
        BY <3>3, <3>4 DEF Earned
      <3>. QED  BY <3>7, <3>8, <3>9 DEF Earned
    <2>4. CASE Restart
      BY <2>4, RestartShape DEF Earned
    <2>. QED  BY <2>1, <2>2, <2>3, <2>4, StepShape
  <1>3. Earned => BenchesAreEarned
    BY DEF Earned, BenchesAreEarned
  <1>. QED  BY <1>1, <1>2, <1>3, TypeCorrect, PTL DEF Spec
=============================================================================
