---------------------------- MODULE StateRegistry ----------------------------
(***************************************************************************)
(* The binding registry (internal/states/registry.go) over its SQLite      *)
(* tables (internal/storage/binding_store.go).                             *)
(*                                                                         *)
(* A writer holds the registry's mutex from the moment it reads the clock  *)
(* until it returns, and does up to three separate things in between: a    *)
(* transaction on state_binding, a transaction on state_binding_history,   *)
(* and the swap of the copy-on-write snapshot that Lookup reads without a  *)
(* lock.  Each is a step here, so that readers, the clock, a policy change *)
(* and a crash fall between any two of them, and each transaction may fail.*)
(***************************************************************************)
EXTENDS Integers, FiniteSets

CONSTANTS Pairs,      \* the (authIndex, model) keys
          Values,     \* turn-state values
          Readable,   \* the values whose envelope can be decoded
          Issued,     \* when upstream minted each readable value
          Policies,   \* the (ttl, refresh) settings an operator may choose
          Sources,    \* who supplies a value: probe or traffic
          MaxClock,   \* bound on the modelled clock
          NoBinding, NoRow, NoOp  \* the absence of a binding, a row, an operation

ASSUME ReadableAssumption == Readable \subseteq Values
ASSUME IssuedAssumption == Issued \in [Values -> Nat]
ASSUME PoliciesAssumption == Policies \subseteq [ttl : Nat, refresh : Nat]
ASSUME MaxClockAssumption == MaxClock \in Nat

VARIABLES store,      \* table state_binding
          tail,       \* newest row of state_binding_history, per pair
          snap,       \* the in-memory snapshot Lookup reads
          op,         \* the operation that holds the mutex, if any
          policy,     \* the settings snapshot StatePolicy resolves
          clock,
          torn,       \* history: pairs whose last operation stopped half-way
          unaudited   \* history: pairs whose last change has no history row

vars == <<store, tail, snap, op, policy, clock, torn, unaudited>>

Binding == [value : Values, source : Sources, expiresAt : Nat, refreshAfter : Nat]
Row == [action : {"bound", "replaced", "deleted"}, value : Values]
Op == [phase : {"store", "history", "publish"}, pair : Pairs,
       to : Binding \cup {NoBinding}, row : Row \cup {NoRow}]

ASSUME NoBindingAssumption == NoBinding \notin Binding
ASSUME NoRowAssumption == NoRow \notin Row
ASSUME NoOpAssumption == NoOp \notin Op

-----------------------------------------------------------------------------
(* Expiry and status *)

\* Mutant of Anchor: the clock starts when the value is stored.
AnchorAtBind(v, now) == now

\* The life of a value starts when upstream minted it, when that is known
\* and in the past; otherwise when it is bound.
Anchor(v, now) == IF v \in Readable /\ Issued[v] < now THEN Issued[v] ELSE now

NewBinding(v, s, now) ==
    [value |-> v, source |-> s,
     expiresAt |-> Anchor(v, now) + policy.ttl,
     refreshAfter |-> Anchor(v, now) + policy.refresh]

StatusOf(b, now) ==
    IF b = NoBinding THEN "missing"
    ELSE IF now >= b.expiresAt THEN "expired"
    ELSE IF now >= b.refreshAfter THEN "refresh_due"
    ELSE "fresh"

\* What the hot path injects: Lookup followed by Status.Usable.
Usable(p) == StatusOf(snap[p], clock) \in {"fresh", "refresh_due"}

\* Mutant of BindRow: only the first binding of a pair is written to history.
BindRowOnlyFirst(prev, v) ==
    IF prev = NoBinding THEN [action |-> "bound", value |-> v] ELSE NoRow

\* The history row a bind appends: none when the same value is seen again.
BindRow(prev, v) ==
    IF prev = NoBinding THEN [action |-> "bound", value |-> v]
    ELSE IF prev.value = v THEN NoRow
    ELSE [action |-> "replaced", value |-> v]

\* Mutant of DeleteRow: a pair that holds nothing gets a row all the same.
DeleteRowAlways(prev) ==
    [action |-> "deleted", value |-> IF prev = NoBinding THEN NoRow ELSE prev.value]

DeleteRow(prev) ==
    IF prev = NoBinding THEN NoRow ELSE [action |-> "deleted", value |-> prev.value]

-----------------------------------------------------------------------------
Init ==
    /\ store = [p \in Pairs |-> NoBinding]
    /\ snap = store
    /\ tail = [p \in Pairs |-> NoRow]
    /\ op = NoOp
    /\ policy \in Policies
    /\ clock = 0
    /\ torn = {}
    /\ unaudited = {}

Enter(p, b, r) == op' = [phase |-> "store", pair |-> p, to |-> b, row |-> r]

\* Bind takes the mutex, stamps the binding with the policy and the clock of
\* this moment, and gives up on a value that is already past its life.
BeginBind(p, v, s) ==
    /\ op = NoOp
    /\ NewBinding(v, s, clock).expiresAt > clock
    /\ Enter(p, NewBinding(v, s, clock), BindRow(snap[p], v))
    /\ UNCHANGED <<store, tail, snap, policy, clock, torn, unaudited>>

\* Delete, and Invalidate, which is Delete under another source.
BeginDelete(p) ==
    /\ op = NoOp
    /\ Enter(p, NoBinding, DeleteRow(snap[p]))
    /\ UNCHANGED <<store, tail, snap, policy, clock, torn, unaudited>>

\* Mutant of AfterStore: a refresh returns without swapping the snapshot.
AfterStoreDropsRefresh ==
    op' = IF op.row = NoRow THEN NoOp ELSE [op EXCEPT !.phase = "history"]

AfterStore ==
    op' = [op EXCEPT !.phase = IF op.row = NoRow THEN "publish" ELSE "history"]

\* The UpsertBinding or DeleteBinding transaction commits.
WriteStore ==
    /\ op # NoOp /\ op.phase = "store"
    /\ store' = [store EXCEPT ![op.pair] = op.to]
    /\ AfterStore
    /\ UNCHANGED <<tail, snap, policy, clock, torn, unaudited>>

\* Mutant of StoreFailed: the error of the store is ignored.
StoreFailedIgnored == op' = [op EXCEPT !.phase = "publish"]

StoreFailed == op' = NoOp

\* It fails, and the operation returns the error with nothing changed.
WriteStoreFails ==
    /\ op # NoOp /\ op.phase = "store"
    /\ StoreFailed
    /\ UNCHANGED <<store, tail, snap, policy, clock, torn, unaudited>>

\* The AppendHistory transaction commits.
AppendHistory ==
    /\ op # NoOp /\ op.phase = "history"
    /\ tail' = [tail EXCEPT ![op.pair] = op.row]
    /\ op' = [op EXCEPT !.phase = "publish"]
    /\ unaudited' = unaudited \ {op.pair}
    /\ UNCHANGED <<store, snap, policy, clock, torn>>

\* It fails, and the operation returns before it swaps the snapshot.
AppendHistoryFails ==
    /\ op # NoOp /\ op.phase = "history"
    /\ op' = NoOp
    /\ torn' = torn \cup {op.pair}
    /\ unaudited' = unaudited \cup {op.pair}
    /\ UNCHANGED <<store, tail, snap, policy, clock>>

\* putSnapshot or deleteSnapshot, and the mutex is released.
Publish ==
    /\ op # NoOp /\ op.phase = "publish"
    /\ snap' = [snap EXCEPT ![op.pair] = op.to]
    /\ op' = NoOp
    /\ torn' = torn \ {op.pair}
    /\ UNCHANGED <<store, tail, policy, clock, unaudited>>

\* The Management API clears a pair's history without the registry's mutex.
ClearHistory(p) ==
    /\ tail[p] # NoRow
    /\ tail' = [tail EXCEPT ![p] = NoRow]
    /\ UNCHANGED <<store, snap, op, policy, clock, torn, unaudited>>

\* The process stops anywhere and comes back: New builds the registry and Load
\* replaces the snapshot with the table.
Restart ==
    /\ snap' = store
    /\ op' = NoOp
    /\ torn' = {}
    /\ unaudited' = IF op # NoOp /\ op.phase = "history"
                    THEN unaudited \cup {op.pair} ELSE unaudited
    /\ UNCHANGED <<store, tail, policy, clock>>

\* An operator saves other settings; the next bind uses them.
ChangePolicy(q) ==
    /\ q # policy
    /\ policy' = q
    /\ UNCHANGED <<store, tail, snap, op, clock, torn, unaudited>>

Tick ==
    /\ clock < MaxClock
    /\ clock' = clock + 1
    /\ UNCHANGED <<store, tail, snap, op, policy, torn, unaudited>>

Next ==
    \/ \E p \in Pairs, v \in Values, s \in Sources : BeginBind(p, v, s)
    \/ \E p \in Pairs : BeginDelete(p)
    \/ WriteStore
    \/ WriteStoreFails
    \/ AppendHistory
    \/ AppendHistoryFails
    \/ Publish
    \/ \E p \in Pairs : ClearHistory(p)
    \/ Restart
    \/ \E q \in Policies : ChangePolicy(q)
    \/ Tick

Spec == Init /\ [][Next]_vars

-----------------------------------------------------------------------------
(* Properties *)

\* Every variable has its type.
TypeOK ==
    /\ store \in [Pairs -> Binding \cup {NoBinding}]
    /\ snap \in [Pairs -> Binding \cup {NoBinding}]
    /\ tail \in [Pairs -> Row \cup {NoRow}]
    /\ op \in Op \cup {NoOp}
    /\ policy \in Policies
    /\ clock \in Nat
    /\ torn \subseteq Pairs
    /\ unaudited \subseteq Pairs

\* The operation that holds the mutex has changed p's row but not yet p's
\* snapshot entry.
HalfDone(p) == op # NoOp /\ op.pair = p /\ op.phase \in {"history", "publish"}

\* What requests are served with and what a restart would restore are the same
\* binding, except while an operation on that very pair is under way or after
\* one whose history insert failed (registry.go, Bind and Delete).
Coherent ==
    \A p \in Pairs : ~HalfDone(p) /\ p \notin torn => snap[p] = store[p]

\* A history row tells what the table holds: the bound value, or a deletion.
Explains(r, b) ==
    IF b = NoBinding THEN r.action = "deleted" ELSE r.action # "deleted" /\ r.value = b.value

\* The newest history row of a pair explains its row in the table.  It may be
\* wrong only about a pair whose insert failed or was cut off by a crash.
AuditTrail ==
    \A p \in Pairs :
        ~HalfDone(p) /\ p \notin unaudited /\ tail[p] # NoRow => Explains(tail[p], store[p])

\* A value whose age is known is never injected past the life a policy grants
\* it from the moment upstream minted it, however often it is seen again,
\* whatever crashes, and whatever the operator changes in between.
UsableWithinLife ==
    \A p \in Pairs :
        Usable(p) /\ snap[p].value \in Readable =>
            \E q \in Policies : clock < Issued[snap[p].value] + q.ttl

\* The registry implements the write-ahead map.
Map == INSTANCE WriteAheadMap WITH
           Keys <- Pairs, Entries <- Binding, Absent <- NoBinding,
           durable <- store, served <- snap

\* Lookup only ever sees bindings that are durable already, one pair at a time,
\* and a restart serves the table (Load).
ImplementsMap == Map!Spec

\* registry.go:193-194 says that a restart resumes with every binding intact.
\* Stated for a restart while no operation is under way.
RestartKeepsServing ==
    [][Restart /\ op = NoOp => snap' = snap]_vars

\* registry.go:32-33 says that seeing the same value again only extends the
\* binding's TTL: in particular, who supplied it stays as it was.
RefreshOnlyExtends ==
    [][Publish =>
        LET p == op.pair IN
        snap[p] # NoBinding /\ snap'[p] # NoBinding /\ snap'[p].value = snap[p].value =>
            snap'[p].source = snap[p].source]_vars
=============================================================================
