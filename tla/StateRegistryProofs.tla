------------------------- MODULE StateRegistryProofs -------------------------
(***************************************************************************)
(* What StateRegistry guarantees for every set of pairs, values and        *)
(* policies and without a bound on what may fail or when.                  *)
(*                                                                         *)
(* Coherent is not inductive: that a publish makes the snapshot equal to   *)
(* the table needs to know that the operation's own write is still in the  *)
(* table, which is what Written says and what the mutex protects.          *)
(*                                                                         *)
(* Then: the length of a value tells its shape (Envelope).                 *)
(***************************************************************************)
EXTENDS StateRegistry, Envelope, TLAPS

\* What the operation under way has written is still in the table.
Written == op # NoOp /\ op.phase \in {"history", "publish"} => store[op.pair] = op.to

\* The newest row of p, or the row the operation under way is about to add,
\* explains b unless p is known to have lost a row.
Accounted(p, b) == p \notin unaudited /\ tail[p] # NoRow => Explains(tail[p], b)

AuditInv ==
    /\ AuditTrail
    /\ \A p \in torn : p \in unaudited \/ (op # NoOp /\ op.pair = p /\ op.phase = "publish")
    /\ op # NoOp =>
         /\ op.phase = "history" => op.row # NoRow
         /\ op.phase # "publish" /\ op.row # NoRow => Explains(op.row, op.to)
         /\ op.phase = "publish" \/ op.row = NoRow => Accounted(op.pair, op.to)

\* The life of a binding ends within a policy's TTL of its value's issue.
WithinLife(b) ==
    b # NoBinding /\ b.value \in Readable =>
        \E q \in Policies : b.expiresAt <= Issued[b.value] + q.ttl

LifeInv ==
    /\ \A p \in Pairs : WithinLife(store[p]) /\ WithinLife(snap[p])
    /\ op # NoOp => WithinLife(op.to)

CoherentInv == Written /\ Coherent

-----------------------------------------------------------------------------
LEMMA PolicyType == ASSUME policy \in Policies
                    PROVE  policy.ttl \in Nat /\ policy.refresh \in Nat
  BY PoliciesAssumption

LEMMA NewBindingType ==
    ASSUME policy \in Policies, NEW now \in Nat, NEW v \in Values, NEW s \in Sources
    PROVE  /\ NewBinding(v, s, now) \in Binding
           /\ NewBinding(v, s, now).value = v
           /\ NewBinding(v, s, now).expiresAt = Anchor(v, now) + policy.ttl
           /\ Anchor(v, now) \in Nat
  <1>1. Anchor(v, now) \in Nat
    BY IssuedAssumption DEF Anchor
  <1>2. policy.ttl \in Nat /\ policy.refresh \in Nat
    BY PolicyType
  <1>3. Anchor(v, now) + policy.ttl \in Nat /\ Anchor(v, now) + policy.refresh \in Nat
    BY <1>1, <1>2
  <1>. QED  BY <1>1, <1>3 DEF NewBinding, Binding

LEMMA RowType ==
    ASSUME NEW prev \in Binding \cup {NoBinding}, NEW v \in Values
    PROVE  BindRow(prev, v) \in Row \cup {NoRow} /\ DeleteRow(prev) \in Row \cup {NoRow}
  BY DEF BindRow, DeleteRow, Row, Binding

\* A binding made now ends its life within the policy's TTL of the value's issue.
LEMMA NewBindingWithinLife ==
    ASSUME policy \in Policies, NEW now \in Nat, NEW v \in Values, NEW s \in Sources
    PROVE  WithinLife(NewBinding(v, s, now))
  <1>1. v \in Readable => Anchor(v, now) <= Issued[v]
    BY IssuedAssumption DEF Anchor
  <1>2. v \in Readable => Anchor(v, now) + policy.ttl <= Issued[v] + policy.ttl
    BY <1>1, NewBindingType, PolicyType, IssuedAssumption
  <1>. QED  BY <1>2, NewBindingType DEF WithinLife

-----------------------------------------------------------------------------
\* Every variable keeps its type: the registry's tables, snapshot, pending
\* operation and settings are what the code declares them to be.
THEOREM TypeCorrect == Spec => []TypeOK
  <1>1. Init => TypeOK
    BY DEF Init, TypeOK
  <1>2. TypeOK /\ [Next]_vars => TypeOK'
    <2> SUFFICES ASSUME TypeOK, [Next]_vars PROVE TypeOK'
      OBVIOUS
    <2> USE DEF TypeOK
    <2>1. ASSUME NEW p \in Pairs, NEW v \in Values, NEW s \in Sources, BeginBind(p, v, s)
          PROVE  TypeOK'
      <3>1. NewBinding(v, s, clock) \in Binding
        BY NewBindingType
      <3>2. BindRow(snap[p], v) \in Row \cup {NoRow}
        BY RowType
      <3>3. op' \in Op
        BY <2>1, <3>1, <3>2 DEF BeginBind, Enter, Op
      <3>. QED  BY <2>1, <3>3 DEF BeginBind
    <2>2. ASSUME NEW p \in Pairs, BeginDelete(p) PROVE TypeOK'
      <3>1. DeleteRow(snap[p]) \in Row \cup {NoRow}
        BY RowType DEF DeleteRow, Row, Binding
      <3>2. op' \in Op
        BY <2>2, <3>1 DEF BeginDelete, Enter, Op
      <3>. QED  BY <2>2, <3>2 DEF BeginDelete
    <2>3. CASE WriteStore
      BY <2>3 DEF WriteStore, AfterStore, Op
    <2>4. CASE WriteStoreFails
      BY <2>4 DEF WriteStoreFails, StoreFailed
    <2>5. CASE AppendHistory
      <3>1. op.row # NoRow => op.row \in Row
        BY <2>5 DEF AppendHistory, Op
      <3>. QED  BY <2>5, <3>1 DEF AppendHistory, Op
    <2>6. CASE AppendHistoryFails
      BY <2>6 DEF AppendHistoryFails, Op
    <2>7. CASE Publish
      BY <2>7 DEF Publish, Op
    <2>8. ASSUME NEW p \in Pairs, ClearHistory(p) PROVE TypeOK'
      BY <2>8 DEF ClearHistory
    <2>9. CASE Restart
      BY <2>9 DEF Restart, Op
    <2>10. ASSUME NEW q \in Policies, ChangePolicy(q) PROVE TypeOK'
      BY <2>10 DEF ChangePolicy
    <2>11. CASE Tick
      BY <2>11 DEF Tick
    <2>12. CASE UNCHANGED vars
      BY <2>12 DEF vars
    <2>. QED  BY <2>1, <2>2, <2>3, <2>4, <2>5, <2>6, <2>7, <2>8, <2>9, <2>10, <2>11, <2>12 DEF Next
  <1>. QED  BY <1>1, <1>2, PTL DEF Spec
-----------------------------------------------------------------------------
\* The inductive strengthening of Coherent holds in every reachable state.
THEOREM CoherentInvariant == Spec => []CoherentInv
  <1> USE DEF CoherentInv, Written, Coherent, HalfDone
  <1>1. Init => CoherentInv
    BY DEF Init
  <1>2. TypeOK /\ CoherentInv /\ [Next]_vars => CoherentInv'
    <2> SUFFICES ASSUME TypeOK, CoherentInv, [Next]_vars PROVE CoherentInv'
      OBVIOUS
    <2>0. op # NoOp => op \in Op /\ op.pair \in Pairs
      BY DEF TypeOK, Op
    <2>1. ASSUME NEW p \in Pairs, NEW v \in Values, NEW s \in Sources, BeginBind(p, v, s)
          PROVE  CoherentInv'
      BY <2>1 DEF BeginBind, Enter
    <2>2. ASSUME NEW p \in Pairs, BeginDelete(p) PROVE CoherentInv'
      BY <2>2 DEF BeginDelete, Enter
    <2>3. CASE WriteStore
      <3>1. /\ op'.pair = op.pair /\ op'.to = op.to
            /\ op'.phase \in {"history", "publish"}
            /\ op' # NoOp
        BY <2>0, <2>3, NoOpAssumption DEF WriteStore, AfterStore, Op
      <3>2. store' = [store EXCEPT ![op.pair] = op.to] /\ UNCHANGED <<snap, torn>>
        BY <2>3 DEF WriteStore
      <3>. QED  BY <2>0, <2>3, <3>1, <3>2 DEF WriteStore, TypeOK
    <2>4. CASE WriteStoreFails
      BY <2>4 DEF WriteStoreFails, StoreFailed
    <2>5. CASE AppendHistory
      <3>1. /\ op'.pair = op.pair /\ op'.to = op.to
            /\ op'.phase = "publish"
            /\ op' # NoOp
        BY <2>0, <2>5, NoOpAssumption DEF AppendHistory, Op
      <3>. QED  BY <2>0, <2>5, <3>1 DEF AppendHistory
    <2>6. CASE AppendHistoryFails
      BY <2>0, <2>6 DEF AppendHistoryFails
    <2>7. CASE Publish
      <3>1. store[op.pair] = op.to
        BY <2>7 DEF Publish
      <3>2. snap'[op.pair] = store[op.pair]
        BY <2>0, <2>7, <3>1 DEF Publish, TypeOK
      <3>. QED  BY <2>0, <2>7, <3>2 DEF Publish, TypeOK
    <2>8. ASSUME NEW p \in Pairs, ClearHistory(p) PROVE CoherentInv'
      BY <2>8 DEF ClearHistory
    <2>9. CASE Restart
      BY <2>9 DEF Restart
    <2>10. ASSUME NEW q \in Policies, ChangePolicy(q) PROVE CoherentInv'
      BY <2>10 DEF ChangePolicy
    <2>11. CASE Tick
      BY <2>11 DEF Tick
    <2>12. CASE UNCHANGED vars
      BY <2>12 DEF vars
    <2>. QED  BY <2>1, <2>2, <2>3, <2>4, <2>5, <2>6, <2>7, <2>8, <2>9, <2>10, <2>11, <2>12 DEF Next
  <1>. QED  BY TypeCorrect, <1>1, <1>2, PTL DEF Spec

\* Requests are served the binding a restart would restore, except while an
\* operation on that pair is under way or after a failed history insert.
THEOREM ServedIsStored == Spec => []Coherent
  <1>1. CoherentInv => Coherent
    BY DEF CoherentInv
  <1>. QED  BY CoherentInvariant, <1>1, PTL

-----------------------------------------------------------------------------
\* A value of known age is never injected past the life a policy grants it
\* from its issue, whatever is re-observed, crashes or is reconfigured.
THEOREM NoValueOutlivesItsIssue == Spec => []UsableWithinLife
  <1>1. Init => LifeInv
    BY DEF Init, LifeInv, WithinLife
  <1>2. TypeOK /\ LifeInv /\ [Next]_vars => LifeInv'
    <2> SUFFICES ASSUME TypeOK, LifeInv, [Next]_vars PROVE LifeInv'
      OBVIOUS
    <2> USE DEF LifeInv
    <2>0. op # NoOp => op \in Op /\ op.pair \in Pairs
      BY DEF TypeOK, Op
    <2>1. ASSUME NEW p \in Pairs, NEW v \in Values, NEW s \in Sources, BeginBind(p, v, s)
          PROVE  LifeInv'
      <3>1. op'.to = NewBinding(v, s, clock)
        BY <2>1 DEF BeginBind, Enter
      <3>2. WithinLife(op'.to)
        BY <3>1, NewBindingWithinLife DEF TypeOK
      <3>. QED  BY <2>1, <3>2 DEF BeginBind, WithinLife
    <2>2. ASSUME NEW p \in Pairs, BeginDelete(p) PROVE LifeInv'
      BY <2>2 DEF BeginDelete, Enter, WithinLife
    <2>3. CASE WriteStore
      <3>1. op'.to = op.to
        BY <2>0, <2>3 DEF WriteStore, AfterStore, Op
      <3>2. \A p \in Pairs : store'[p] = IF p = op.pair THEN op.to ELSE store[p]
        BY <2>0, <2>3 DEF WriteStore, TypeOK
      <3>. QED  BY <2>0, <2>3, <3>1, <3>2 DEF WriteStore, WithinLife
    <2>4. CASE WriteStoreFails
      BY <2>4 DEF WriteStoreFails, StoreFailed, WithinLife
    <2>5. CASE AppendHistory
      <3>1. op'.to = op.to
        BY <2>0, <2>5 DEF AppendHistory, Op
      <3>. QED  BY <2>5, <3>1 DEF AppendHistory, WithinLife
    <2>6. CASE AppendHistoryFails
      BY <2>6 DEF AppendHistoryFails, WithinLife
    <2>7. CASE Publish
      <3>1. \A p \in Pairs : snap'[p] = IF p = op.pair THEN op.to ELSE snap[p]
        BY <2>0, <2>7 DEF Publish, TypeOK
      <3>. QED  BY <2>7, <3>1 DEF Publish, WithinLife
    <2>8. ASSUME NEW p \in Pairs, ClearHistory(p) PROVE LifeInv'
      BY <2>8 DEF ClearHistory, WithinLife
    <2>9. CASE Restart
      BY <2>9 DEF Restart, WithinLife
    <2>10. ASSUME NEW q \in Policies, ChangePolicy(q) PROVE LifeInv'
      BY <2>10 DEF ChangePolicy, WithinLife
    <2>11. CASE Tick
      BY <2>11 DEF Tick, WithinLife
    <2>12. CASE UNCHANGED vars
      BY <2>12 DEF vars, WithinLife
    <2>. QED  BY <2>1, <2>2, <2>3, <2>4, <2>5, <2>6, <2>7, <2>8, <2>9, <2>10, <2>11, <2>12 DEF Next
  <1>3. TypeOK /\ LifeInv => UsableWithinLife
    <2> SUFFICES ASSUME TypeOK, LifeInv,
                        NEW p \in Pairs, Usable(p), snap[p].value \in Readable
                 PROVE  \E q \in Policies : clock < Issued[snap[p].value] + q.ttl
      BY DEF UsableWithinLife
    <2>1. snap[p] # NoBinding /\ ~(clock >= snap[p].expiresAt)
      BY DEF Usable, StatusOf
    <2>2. snap[p] \in Binding
      BY <2>1 DEF TypeOK
    <2>3. PICK q \in Policies : snap[p].expiresAt <= Issued[snap[p].value] + q.ttl
      BY <2>1 DEF LifeInv, WithinLife
    <2>4. snap[p].expiresAt \in Nat /\ q.ttl \in Nat /\ Issued[snap[p].value] \in Nat
      BY <2>2, IssuedAssumption, PoliciesAssumption DEF Binding
    <2>5. clock < snap[p].expiresAt
      BY <2>1, <2>4 DEF TypeOK
    <2>6. clock < Issued[snap[p].value] + q.ttl
      BY <2>3, <2>4, <2>5 DEF TypeOK
    <2>. QED  BY <2>6
  <1>. QED  BY TypeCorrect, <1>1, <1>2, <1>3, PTL DEF Spec

-----------------------------------------------------------------------------
\* A bind that appends no row sees the value the table holds already.
LEMMA BindRowExplains ==
    ASSUME NEW prev \in Binding \cup {NoBinding}, NEW v \in Values, NEW s \in Sources,
           NEW now \in Nat, policy \in Policies
    PROVE  LET r == BindRow(prev, v)  b == NewBinding(v, s, now) IN
           /\ r # NoRow => Explains(r, b)
           /\ r = NoRow => prev # NoBinding /\ prev.value = v
  <1>1. NewBinding(v, s, now) # NoBinding /\ NewBinding(v, s, now).value = v
    BY NewBindingType, NoBindingAssumption
  <1>2. [action |-> "bound", value |-> v] \in Row /\ [action |-> "replaced", value |-> v] \in Row
    BY DEF Row
  <1>. QED  BY <1>1, <1>2, NoRowAssumption DEF BindRow, Explains

LEMMA DeleteRowExplains ==
    ASSUME NEW prev \in Binding \cup {NoBinding}
    PROVE  /\ DeleteRow(prev) # NoRow => Explains(DeleteRow(prev), NoBinding)
           /\ DeleteRow(prev) = NoRow => prev = NoBinding
  <1>1. prev # NoBinding => [action |-> "deleted", value |-> prev.value] \in Row
    BY DEF Row, Binding
  <1>. QED  BY <1>1, NoRowAssumption DEF DeleteRow, Explains

\* The newest history row explains the table, whatever fails and whenever the
\* process restarts, except for pairs known to have lost a row.
THEOREM HistoryExplainsTable == Spec => []AuditTrail
  <1> USE DEF AuditInv, AuditTrail, Accounted, HalfDone
  <1>1. Init => AuditInv
    BY DEF Init
  <1>2. TypeOK /\ CoherentInv /\ AuditInv /\ [Next]_vars => AuditInv'
    <2> SUFFICES ASSUME TypeOK, CoherentInv, AuditInv, [Next]_vars PROVE AuditInv'
      OBVIOUS
    <2>0. op # NoOp => op \in Op /\ op.pair \in Pairs
      BY DEF TypeOK, Op
    <2>a. ASSUME op = NoOp, NEW p \in Pairs, p \notin unaudited
          PROVE  snap[p] = store[p] /\ (tail[p] # NoRow => Explains(tail[p], store[p]))
      BY <2>a DEF CoherentInv, Coherent
    <2>1. ASSUME NEW p \in Pairs, NEW v \in Values, NEW s \in Sources, BeginBind(p, v, s)
          PROVE  AuditInv'
      <3>1. /\ op'.phase = "store" /\ op'.pair = p
            /\ op'.to = NewBinding(v, s, clock) /\ op'.row = BindRow(snap[p], v)
            /\ op = NoOp
            /\ UNCHANGED <<store, tail, snap, torn, unaudited>>
        BY <2>1 DEF BeginBind, Enter
      <3>2. op'.row # NoRow => Explains(op'.row, op'.to)
        BY <3>1, BindRowExplains DEF TypeOK
      <3>3. op'.row = NoRow => snap[p] # NoBinding /\ snap[p].value = v
        BY <3>1, BindRowExplains DEF TypeOK
      <3>4. op'.to # NoBinding /\ op'.to.value = v
        BY <3>1, NewBindingType, NoBindingAssumption DEF TypeOK
      <3>5. op'.row = NoRow => Accounted(p, op'.to)
        BY <2>a, <3>1, <3>3, <3>4 DEF Explains
      <3>6. (op'.phase = "publish" \/ op'.row = NoRow => Accounted(op.pair, op.to)')
        BY <3>1, <3>5
      <3>7. AuditTrail'
        BY <3>1
      <3>8. \A q \in torn' : q \in unaudited'
        BY <3>1
      <3>. QED  BY <3>1, <3>2, <3>6, <3>7, <3>8
    <2>2. ASSUME NEW p \in Pairs, BeginDelete(p) PROVE AuditInv'
      <3>1. /\ op'.phase = "store" /\ op'.pair = p
            /\ op'.to = NoBinding /\ op'.row = DeleteRow(snap[p])
            /\ op = NoOp
            /\ UNCHANGED <<store, tail, snap, torn, unaudited>>
        BY <2>2 DEF BeginDelete, Enter
      <3>2. op'.row # NoRow => Explains(op'.row, op'.to)
        BY <3>1, DeleteRowExplains DEF TypeOK
      <3>3. op'.row = NoRow => snap[p] = NoBinding
        BY <3>1, DeleteRowExplains DEF TypeOK
      <3>5. op'.row = NoRow => Accounted(p, op'.to)
        BY <2>a, <3>1, <3>3
      <3>6. (op'.phase = "publish" \/ op'.row = NoRow => Accounted(op.pair, op.to)')
        BY <3>1, <3>5
      <3>7. AuditTrail'
        BY <3>1
      <3>8. \A q \in torn' : q \in unaudited'
        BY <3>1
      <3>. QED  BY <3>1, <3>2, <3>6, <3>7, <3>8
    <2>3. CASE WriteStore
      <3>1. /\ op'.pair = op.pair /\ op'.to = op.to /\ op'.row = op.row /\ op' # NoOp
            /\ op'.phase = IF op.row = NoRow THEN "publish" ELSE "history"
            /\ op # NoOp /\ op.phase = "store"
        BY <2>0, <2>3, NoOpAssumption DEF WriteStore, AfterStore, Op
      <3>2. \A p \in Pairs : store'[p] = IF p = op.pair THEN op.to ELSE store[p]
        BY <2>0, <3>1, <2>3 DEF WriteStore, TypeOK
      <3>. QED  BY <2>0, <2>3, <3>1, <3>2 DEF WriteStore
    <2>4. CASE WriteStoreFails
      BY <2>4 DEF WriteStoreFails, StoreFailed
    <2>5. CASE AppendHistory
      <3>1. /\ op'.pair = op.pair /\ op'.to = op.to /\ op'.row = op.row /\ op' # NoOp
            /\ op'.phase = "publish"
            /\ op # NoOp /\ op.phase = "history"
        BY <2>0, <2>5, NoOpAssumption DEF AppendHistory, Op
      <3>2. \A p \in Pairs : tail'[p] = IF p = op.pair THEN op.row ELSE tail[p]
        BY <2>0, <3>1, <2>5 DEF AppendHistory, TypeOK
      <3>3. op.row # NoRow /\ Explains(op.row, op.to)
        BY <3>1
      <3>4. UNCHANGED <<store, torn>> /\ unaudited' = unaudited \ {op.pair}
        BY <2>5 DEF AppendHistory
      <3>. QED  BY <2>0, <3>1, <3>2, <3>3, <3>4
    <2>6. CASE AppendHistoryFails
      BY <2>0, <2>6 DEF AppendHistoryFails
    <2>7. CASE Publish
      <3>1. store[op.pair] = op.to
        BY <2>7 DEF Publish, CoherentInv, Written
      <3>. QED  BY <2>0, <2>7, <3>1 DEF Publish
    <2>8. ASSUME NEW p \in Pairs, ClearHistory(p) PROVE AuditInv'
      <3>1. \A q \in Pairs : tail'[q] = IF q = p THEN NoRow ELSE tail[q]
        BY <2>8 DEF ClearHistory, TypeOK
      <3>. QED  BY <2>0, <2>8, <3>1 DEF ClearHistory
    <2>9. CASE Restart
      <3>1. op # NoOp /\ op.phase = "publish" => store[op.pair] = op.to
        BY DEF CoherentInv, Written
      <3>2. op # NoOp => op.phase \in {"store", "history", "publish"}
        BY <2>0 DEF Op
      <3>. QED  BY <2>0, <2>9, <3>1, <3>2 DEF Restart
    <2>10. ASSUME NEW q \in Policies, ChangePolicy(q) PROVE AuditInv'
      BY <2>10 DEF ChangePolicy
    <2>11. CASE Tick
      BY <2>11 DEF Tick
    <2>12. CASE UNCHANGED vars
      BY <2>12 DEF vars
    <2>. QED  BY <2>1, <2>2, <2>3, <2>4, <2>5, <2>6, <2>7, <2>8, <2>9, <2>10, <2>11, <2>12 DEF Next
  <1>. QED  BY TypeCorrect, CoherentInvariant, <1>1, <1>2, PTL DEF Spec

-----------------------------------------------------------------------------
\* The registry implements the write-ahead map: readers see durable bindings
\* only, one pair at a time, and a restart serves the table.
THEOREM Refinement == Spec => ImplementsMap
  <1> USE DEF Map!Slots
  <1>1. Init => Map!Init
    BY DEF Init, Map!Init
  <1>2. TypeOK /\ TypeOK' /\ CoherentInv /\ [Next]_vars => [Map!Next]_<<store, snap>>
    <2> SUFFICES ASSUME TypeOK, TypeOK', CoherentInv, [Next]_vars
                 PROVE  [Map!Next]_<<store, snap>>
      OBVIOUS
    <2>0. op # NoOp => op.pair \in Pairs
      BY DEF TypeOK, Op
    <2>1. CASE WriteStore
      <3>1. Map!Persist(op.pair)
        BY <2>0, <2>1 DEF WriteStore, Map!Persist, TypeOK
      <3>. QED  BY <2>0, <2>1, <3>1 DEF WriteStore, Map!Next
    <2>2. CASE Publish
      <3>1. store[op.pair] = op.to
        BY <2>2 DEF Publish, CoherentInv, Written
      <3>2. Map!Serve(op.pair)
        BY <2>2, <3>1 DEF Publish, Map!Serve
      <3>. QED  BY <2>0, <2>2, <3>2 DEF Publish, Map!Next
    <2>3. CASE Restart
      BY <2>3 DEF Restart, Map!Recover, Map!Next
    <2>4. ASSUME NEW p \in Pairs, NEW v \in Values, NEW s \in Sources, BeginBind(p, v, s)
          PROVE  UNCHANGED <<store, snap>>
      BY <2>4 DEF BeginBind
    <2>5. ASSUME NEW p \in Pairs, BeginDelete(p) PROVE UNCHANGED <<store, snap>>
      BY <2>5 DEF BeginDelete
    <2>6. CASE WriteStoreFails \/ AppendHistory \/ AppendHistoryFails \/ Tick \/ UNCHANGED vars
      BY <2>6 DEF WriteStoreFails, AppendHistory, AppendHistoryFails, Tick, vars
    <2>7. ASSUME NEW p \in Pairs, ClearHistory(p) PROVE UNCHANGED <<store, snap>>
      BY <2>7 DEF ClearHistory
    <2>8. ASSUME NEW q \in Policies, ChangePolicy(q) PROVE UNCHANGED <<store, snap>>
      BY <2>8 DEF ChangePolicy
    <2>. QED  BY <2>1, <2>2, <2>3, <2>4, <2>5, <2>6, <2>7, <2>8 DEF Next
  <1>3. Spec => []CoherentInv
    BY CoherentInvariant
  <1>. QED  BY TypeCorrect, <1>1, <1>2, <1>3, PTL DEF Spec, ImplementsMap, Map!Spec, Map!mapVars

-----------------------------------------------------------------------------
(* The shape of a state, for every value and every length *)

\* A longer state has a longer text.
LEMMA LongerIsLonger ==
    ASSUME NEW b \in Nat, NEW c \in Nat, b < c
    PROVE  PaddedLength(57 + 16 * b) < PaddedLength(57 + 16 * c)
  <1>1. \A x \in Nat : PaddedLength(x) = ((x + 2) \div 3) * 4
    BY DEF PaddedLength
  <1>2. \A x, y \in Nat : x + 16 <= y => ((x + 2) \div 3) < ((y + 2) \div 3)
    OBVIOUS
  <1>3. (57 + 16 * b) + 16 <= 57 + 16 * c
    OBVIOUS
  <1>. DEFINE x == 57 + 16 * b
              y == 57 + 16 * c
  <1>4. x \in Nat /\ y \in Nat /\ x + 16 <= y
    BY <1>3
  <1>. HIDE DEF x, y
  <1>5. (x + 2) \div 3 < (y + 2) \div 3 /\ (x + 2) \div 3 \in Int /\ (y + 2) \div 3 \in Int
    BY <1>2, <1>4
  <1>6. PaddedLength(x) < PaddedLength(y)
    BY <1>1, <1>4, <1>5
  <1>. QED  BY <1>6 DEF x, y

LEMMA LengthOfBlocks ==
    ASSUME NEW b \in Nat \ {0}
    PROVE  EncodedLength(b) = PaddedLength(57 + 16 * b)
  BY DEF EncodedLength, Overhead, BlockSize

\* Lengths tell the shapes apart.
LEMMA LengthsDiffer ==
    ASSUME NEW b \in Nat \ {0}, NEW c \in Nat \ {0}, EncodedLength(b) = EncodedLength(c)
    PROVE  b = c
  <1>1. \A x, y \in Nat \ {0} : x < y => EncodedLength(x) < EncodedLength(y)
    BY LongerIsLonger, LengthOfBlocks
  <1>2. \A x \in Nat \ {0} : EncodedLength(x) \in Int
    BY DEF EncodedLength, PaddedLength, Overhead, BlockSize
  <1>. QED  BY <1>1, <1>2

\* What is expected of an account is one shape, said twice.
LEMMA Expected ==
    ASSUME NEW plan, NEW length \in Nat,
           ExpectationFor(plan, length).length \in {EncodedLength(b) : b \in 1..32}
    PROVE  LET want == ExpectationFor(plan, length)
           IN  want.blocks \in 1..32 /\ want.length = EncodedLength(want.blocks)
  <1>1. CASE plan # ""
    <2>1. PlanBlocks(plan) \in 1..32
      BY DEF PlanBlocks
    <2>2. ExpectationFor(plan, length) =
            [blocks |-> PlanBlocks(plan), length |-> EncodedLength(PlanBlocks(plan))]
      BY <1>1 DEF ExpectationFor
    <2>. QED  BY <2>1, <2>2
  <1>2. CASE plan = ""
    <2>. DEFINE found == {b \in 1..32 : EncodedLength(b) = length}
    <2>1. ExpectationFor(plan, length) = [blocks |-> BlocksForLength(length), length |-> length]
      BY <1>2 DEF ExpectationFor
    <2>2. PICK b \in found : TRUE
      BY <2>1
    <2>3. found = {b}
      BY <2>2, LengthsDiffer
    <2>4. BlocksForLength(length) = b
      <3>1. b \in Int /\ {c \in 1..32 : EncodedLength(c) = length} = {b}
        BY <2>3
      <3>2. \A c \in {b} : c = b /\ b <= c
        BY <3>1
      <3>. QED  BY <3>1, <3>2 DEF BlocksForLength
    <2>. QED  BY <2>1, <2>2, <2>4
  <1>. QED  BY <1>1, <1>2

\* What can be read has a number of blocks, and as upstream writes it the length
\* that belongs to it.
LEMMA ReadableShape ==
    ASSUME NEW v \in StoredValue, ParseEnvelope(v) # Unreadable
    PROVE  /\ ParseEnvelope(v) \in Nat \ {0}
           /\ v.bytes = 57 + 16 * ParseEnvelope(v)
           /\ v.bytes > 0
  <1>1. v.bytes \in Nat
    BY DEF StoredValue
  <1>2. v.bytes >= 57 + 16 /\ (v.bytes - 57) % 16 = 0 /\ ParseEnvelope(v) = (v.bytes - 57) \div 16
    BY <1>1 DEF ParseEnvelope, Unreadable, Overhead, BlockSize
  <1>. DEFINE k == v.bytes - 57
  <1>3. k \in Nat /\ k >= 16 /\ k % 16 = 0
    BY <1>1, <1>2
  <1>. HIDE DEF k
  <1>4. k = 16 * (k \div 16) /\ k \div 16 \in Nat \ {0}
    BY <1>3
  <1>5. v.bytes - 57 = 16 * ((v.bytes - 57) \div 16) /\ (v.bytes - 57) \div 16 \in Nat \ {0}
    BY <1>4 DEF k
  <1>. QED  BY <1>1, <1>2, <1>5

\* A value as upstream writes it is accepted by its shape exactly if it is by its length.
THEOREM ShapeAgreesWithLength ==
    ASSUME NEW v \in StoredValue, NEW plan, NEW length \in Nat
    PROVE  ShapeIsLength(v, plan, length)
  <1>. DEFINE want == ExpectationFor(plan, length)
              other == [v EXCEPT !.sound = FALSE]
  <1>. SUFFICES ASSUME Canonical(v), want.length \in {EncodedLength(b) : b \in 1..32}
                PROVE  /\ AcceptState(v, want) <=> TextLength(v) = want.length
                       /\ AcceptState(v, want) <=> AcceptState(other, want)
    BY DEF ShapeIsLength
  <1>1. want.blocks \in 1..32 /\ want.length = EncodedLength(want.blocks)
    BY Expected
  <1>. HIDE DEF want
  <1>2. /\ ParseEnvelope(v) \in Nat \ {0} /\ ParseEnvelope(v) # Unreadable
        /\ v.bytes = 57 + 16 * ParseEnvelope(v) /\ v.bytes > 0
        /\ TextLength(v) = PaddedLength(v.bytes)
    BY ReadableShape DEF Canonical
  <1>3. TextLength(v) = EncodedLength(ParseEnvelope(v))
    BY <1>2, LengthOfBlocks
  <1>4. AcceptState(v, want) <=> ParseEnvelope(v) = want.blocks
    BY <1>2 DEF AcceptState
  <1>5. want.blocks \in Nat \ {0}
    BY <1>1
  <1>6. AcceptState(v, want) <=> TextLength(v) = want.length
    BY <1>1, <1>2, <1>3, <1>4, <1>5, LengthsDiffer
  <1>7. ParseEnvelope(other) = Unreadable
    BY DEF ParseEnvelope, StoredValue
  <1>8. other.bytes = v.bytes /\ TextLength(other) = TextLength(v)
    BY DEF TextLength, StoredValue
  <1>9. AcceptState(other, want) <=> TextLength(v) = want.length
    BY <1>2, <1>7, <1>8 DEF AcceptState
  <1>. QED  BY <1>6, <1>9
\* Whatever value is looked at, under any plan and any length of the operator,
\* its shape and its length lead to the same decision (ShapesAreLengths).
THEOREM AnyShapeIsALength ==
    ASSUME input.rule = "envelope" => input \in EnvelopeInputs
    PROVE  ShapesAreLengths
  BY ShapeAgreesWithLength DEF ShapesAreLengths, EnvelopeInputs
=============================================================================
