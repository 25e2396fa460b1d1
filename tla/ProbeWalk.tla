------------------------------ MODULE ProbeWalk ------------------------------
(***************************************************************************)
(* The probe executor over the proxy pool (internal/probe/executor.go,     *)
(* internal/proxies and their stores): concurrent walks over one pool, the *)
(* marks they leave on its nodes, and a ledger of failures per account and *)
(* node, beside an operator who edits the pool.                            *)
(*                                                                         *)
(* A node is "on", "off" or "gone" in memory (nodes) and in its table      *)
(* (rows); its counters and times ride along with every write and are left *)
(* out, except the order in which nodes were last used.  Marks change the  *)
(* node under the pool's lock and write a copy to the table outside it.    *)
(* The ledger is written to its table under the lock.                      *)
(***************************************************************************)
EXTENDS Integers, Sequences, FiniteSets

CONSTANTS Nodes,        \* ids of proxies; the order of ids breaks ties
          Accounts,
          Workers,      \* probe goroutines
          Top,          \* the rung at which ProxyCooldown reaches its cap
          MaxProxies,   \* probe_max_proxies; 0 is no cap
          MaxUnusable,  \* probe_max_unusable; 0 is no cap
          MaxSetbacks   \* bound on edits, resets, restarts and failed writes

ASSUME NodesAssumption == Nodes \subseteq Nat /\ Nodes # {} /\ IsFiniteSet(Nodes)
ASSUME AccountsAssumption == Accounts # {}
ASSUME WorkersAssumption == IsFiniteSet(Workers)
ASSUME TopAssumption == Top \in Nat \ {0, 1}
ASSUME CapsAssumption == MaxProxies \in Nat /\ MaxUnusable \in Nat
ASSUME SetbacksAssumption == MaxSetbacks \in Nat

VARIABLES nodes,     \* Pool.nodes: "on", "off" or "gone" per node
          rows,      \* the table proxy_node
          used,      \* last_used_at of each node, as its place among them; 0 is never
          ledger,    \* Pool.coolers: strikes and bench per account and node
          saved,     \* the table proxy_cooldown
          walk,      \* what each goroutine is doing
          edit,      \* the operator's edit whose row is still to be written
          setbacks,  \* how many setbacks there have been
          blamed     \* history: the pairs of an account and a node that were
                     \* at fault for it at some time

vars == <<nodes, rows, used, ledger, saved, walk, edit, setbacks, blamed>>

pool == <<nodes, used, edit>>
cooldowns == <<ledger, saved>>

Status == {"on", "off", "gone"}
Clean == [strikes |-> 0, benched |-> FALSE]

\* In the order of the code.  A saving goroutine has marked the node in memory
\* and holds the copy it will write.
Steps == {"idle", "walking", "stamping", "asking", "saving", "recording"}

Idle == [at |-> "idle", account |-> CHOOSE a \in Accounts : TRUE, queue |-> <<>>,
         unusable |-> 0, copy |-> "gone", rung |-> 0, late |-> FALSE]

NoEdit == [node |-> CHOOSE n \in Nodes : TRUE, to |-> "none"]

Init ==
    /\ nodes \in [Nodes -> {"on", "off"}]
    /\ rows = nodes
    /\ used = [n \in Nodes |-> 0]
    /\ ledger = [a \in Accounts |-> [n \in Nodes |-> Clean]]
    /\ saved = ledger
    /\ walk = [w \in Workers |-> Idle]
    /\ edit = NoEdit
    /\ setbacks = 0
    /\ blamed = {}

Setback == setbacks < MaxSetbacks /\ setbacks' = setbacks + 1

\* The stamps f by their places: only their order matters.
Places(f) == [n \in Nodes |-> Cardinality({f[m] : m \in Nodes} \cap 1..f[n])]

Last == Cardinality(Nodes) + 1

-----------------------------------------------------------------------------
(* A walk *)

Usable(a, n) == nodes[n] = "on" /\ ~ledger[a][n].benched

\* Mutant of Before: the order of ids alone.
BeforeById(m, n) == m < n

\* The least recently used first, never used ones before all; then by id.
Before(m, n) == used[m] < used[n] \/ (used[m] = used[n] /\ m < n)

\* The usable nodes in that order: the only sequence in this set.
AvailableFor(a) ==
    LET usable == {n \in Nodes : Usable(a, n)}
    IN  {q \in [1..Cardinality(usable) -> usable] :
            \A i, j \in DOMAIN q : i < j => Before(q[i], q[j])}

\* The nodes are chosen once, and as many are tried as the cap allows: one for
\* ProbeOnce, MaxProxies for Probe.  With none to choose from the walk is over.
Start(w, a) ==
    /\ walk[w].at = "idle"
    /\ \E q \in AvailableFor(a), cap \in {1, MaxProxies} :
         walk' = IF q = <<>> THEN walk
                 ELSE [walk EXCEPT ![w] =
                          [Idle EXCEPT !.at = "walking", !.account = a,
                                       !.queue = IF cap \in DOMAIN q THEN SubSeq(q, 1, cap) ELSE q]]
    /\ UNCHANGED <<pool, rows, cooldowns, setbacks, blamed>>

\* Mutant of Onward: one node too many.
OnwardTooFar(r) ==
    IF r.queue = <<>> THEN Idle
    ELSE [r EXCEPT !.at = "walking", !.queue = Tail(@), !.copy = "gone", !.rung = 0]

\* The walk ends, or goes on to the next node of its queue.
Onward(r) ==
    IF Len(r.queue) <= 1 THEN Idle
    ELSE [r EXCEPT !.at = "walking", !.queue = Tail(@), !.copy = "gone", !.rung = 0]

\* The deadline has passed.  It may at any time; a walk is "late" once that has
\* made a write of it fail, for then it can succeed in nothing any more.
TimeOut(w) ==
    /\ walk[w].at = "walking"
    /\ walk' = [walk EXCEPT ![w] = Idle]
    /\ UNCHANGED <<pool, rows, cooldowns, setbacks, blamed>>

\* MarkUsed: the node moves to the end of the order.  A node that is gone
\* cannot be marked, and is asked all the same.
Stamp(w) ==
    LET n == Head(walk[w].queue)
    IN  /\ walk[w].at = "walking"
        /\ IF nodes[n] = "gone"
           THEN /\ walk' = [walk EXCEPT ![w].at = "asking"]
                /\ UNCHANGED used
           ELSE /\ walk' = [walk EXCEPT ![w].at = "stamping", ![w].copy = nodes[n]]
                /\ used' = Places([used EXCEPT ![n] = Last])
        /\ UNCHANGED <<nodes, edit, rows, cooldowns, setbacks, blamed>>

\* The row is written as it was when the node was marked ...
SaveStamp(w) ==
    /\ walk[w].at = "stamping"
    /\ rows' = [rows EXCEPT ![Head(walk[w].queue)] = walk[w].copy]
    /\ walk' = [walk EXCEPT ![w].at = "asking", ![w].copy = "gone"]
    /\ UNCHANGED <<pool, cooldowns, setbacks, blamed>>

\* ... or not at all, for want of time or because the database refuses.
SaveStampFails(w) ==
    /\ walk[w].at = "stamping"
    /\ \E late \in BOOLEAN :
         /\ walk' = [walk EXCEPT ![w].at = "asking", ![w].copy = "gone", ![w].late = late]
         /\ IF late THEN UNCHANGED setbacks ELSE Setback
    /\ UNCHANGED <<pool, rows, cooldowns, blamed>>

\* The walk marks the node it has asked in memory, after a success (rung 0) or
\* for a failure, whose rung coolDown reads just before.  A node that is gone
\* cannot be marked, and the ledger is not reached.
Mark(w, r, rung) ==
    LET n == Head(r.queue)
    IN  IF nodes[n] # "gone"
        THEN walk' = [walk EXCEPT ![w] = [r EXCEPT !.at = "saving", !.copy = nodes[n],
                                                   !.rung = rung]]
        ELSE walk' = [walk EXCEPT ![w] = IF rung = 0 \/ r.late THEN Idle ELSE Onward(r)]

\* A target state.
Succeed(w) ==
    /\ walk[w].at = "asking" /\ ~walk[w].late
    /\ Mark(w, walk[w], 0)
    /\ UNCHANGED <<pool, rows, cooldowns, setbacks, blamed>>

\* Nothing another proxy could help with; also when the host cannot give the
\* credential in time.
Terminal(w) ==
    /\ walk[w].at = "asking"
    /\ walk' = [walk EXCEPT ![w] = Idle]
    /\ UNCHANGED <<pool, rows, cooldowns, setbacks, blamed>>

\* coolDown: the rung is that of the failure being recorded.
CoolDown(w, r) ==
    LET n == Head(r.queue)
    IN  /\ Mark(w, r, ledger[r.account][n].strikes + 1)
        /\ blamed' = blamed \cup {<<r.account, n>>}

\* The node did not answer, or not before the deadline.
Fault(w) ==
    /\ walk[w].at = "asking"
    /\ CoolDown(w, walk[w])
    /\ UNCHANGED <<pool, rows, cooldowns, setbacks>>

\* After an answer that cannot be bound the walk ends with this node if there
\* have been enough of them.
Counted(r) ==
    LET k == r.unusable + 1
    IN  IF MaxUnusable > 0 /\ k >= MaxUnusable
        THEN [r EXCEPT !.queue = <<Head(@)>>]
        ELSE [r EXCEPT !.unusable = k]

\* A state of the wrong shape: the node steps aside for this account.
NonTarget(w) ==
    /\ walk[w].at = "asking" /\ ~walk[w].late
    /\ CoolDown(w, Counted(walk[w]))
    /\ UNCHANGED <<pool, rows, cooldowns, setbacks>>

\* A state of the right shape, minted too long ago.
Stale(w) ==
    /\ walk[w].at = "asking" /\ ~walk[w].late
    /\ walk' = [walk EXCEPT ![w] = Onward(Counted(@))]
    /\ UNCHANGED <<pool, rows, cooldowns, setbacks, blamed>>

\* Mutant of UpstreamError: the node is benched.
UpstreamErrorBenches(w) ==
    /\ walk[w].at = "asking" /\ ~walk[w].late
    /\ Mark(w, walk[w], ledger[walk[w].account][Head(walk[w].queue)].strikes + 1)
    /\ UNCHANGED <<pool, rows, cooldowns, setbacks, blamed>>

\* A 5xx and the like: not the node's fault.
UpstreamError(w) ==
    /\ walk[w].at = "asking" /\ ~walk[w].late
    /\ walk' = [walk EXCEPT ![w] = Onward(@)]
    /\ UNCHANGED <<pool, rows, cooldowns, setbacks, blamed>>

\* The node's row is written ...
SaveMark(w) ==
    /\ walk[w].at = "saving" /\ ~walk[w].late
    /\ rows' = [rows EXCEPT ![Head(walk[w].queue)] = walk[w].copy]
    /\ walk' = [walk EXCEPT ![w].at = "recording", ![w].copy = "gone"]
    /\ UNCHANGED <<pool, cooldowns, setbacks, blamed>>

\* ... or not, and then the ledger is not reached: the deadline has passed, which
\* ends the walk as well, or the database refuses.
SaveMarkLate(w) ==
    /\ walk[w].at = "saving"
    /\ walk' = [walk EXCEPT ![w] = Idle]
    /\ UNCHANGED <<pool, rows, cooldowns, setbacks, blamed>>

SaveMarkFails(w) ==
    /\ walk[w].at = "saving" /\ ~walk[w].late
    /\ Setback
    /\ walk' = [walk EXCEPT ![w] = IF @.rung = 0 THEN Idle ELSE Onward(@)]
    /\ UNCHANGED <<pool, rows, cooldowns, blamed>>

\* Mutant of Recorded: the counter is not reset at the top of the ladder.
RecordedNeverReset(entry, rung) ==
    IF rung = 0 THEN Clean ELSE [strikes |-> entry.strikes + 1, benched |-> TRUE]

\* recordSuccess for rung 0; else recordFailure, with the bench of that rung
\* and a fresh start at the top.
Recorded(entry, rung) ==
    IF rung = 0 THEN Clean
    ELSE [strikes |-> IF rung >= Top THEN 0 ELSE entry.strikes + 1, benched |-> TRUE]

\* Memory and then the table, both under the lock.  The table may refuse, or the
\* deadline pass in between.
Record(w) ==
    LET r == walk[w]
        n == Head(r.queue)
        entry == Recorded(ledger[r.account][n], r.rung)
    IN  /\ r.at = "recording"
        /\ ledger' = [ledger EXCEPT ![r.account][n] = entry]
        /\ \/ saved' = [saved EXCEPT ![r.account][n] = entry] /\ UNCHANGED setbacks
           \/ saved' = saved /\ Setback
        /\ walk' = [walk EXCEPT ![w] = IF r.rung = 0 THEN Idle ELSE Onward(r)]
        /\ UNCHANGED <<pool, rows, blamed>>

-----------------------------------------------------------------------------
(* The clock, the operator and restarts *)

\* A bench comes to its end.
Lapse(a, n) ==
    /\ ledger[a][n].benched
    /\ ledger' = [ledger EXCEPT ![a][n].benched = FALSE]
    /\ saved' = IF saved[a][n] = ledger[a][n]
                THEN [saved EXCEPT ![a][n].benched = FALSE] ELSE saved
    /\ UNCHANGED <<pool, rows, walk, setbacks, blamed>>

\* The stamps with that of n as it was at some earlier time.
Earlier(n) ==
    LET spread == [m \in Nodes |-> 2 * used[m]]
    IN  {Places([spread EXCEPT ![n] = k]) : k \in {0} \cup {2 * i - 1 : i \in 1..used[n]}}

\* ReplaceAll sends Upsert for a node as the panel has last seen it, its stamp
\* included, and Delete for one it leaves out: memory first ...
Edit(n, to) ==
    /\ edit = NoEdit /\ Setback
    /\ to = "gone" => nodes[n] # "gone"
    /\ nodes' = [nodes EXCEPT ![n] = to]
    /\ used' \in IF to = "gone" THEN {Places([used EXCEPT ![n] = 0])} ELSE Earlier(n)
    /\ edit' = [node |-> n, to |-> to]
    /\ UNCHANGED <<rows, cooldowns, walk, blamed>>

\* ... then the table.
SaveEdit ==
    /\ edit # NoEdit
    /\ edit' = NoEdit
    /\ \/ rows' = [rows EXCEPT ![edit.node] = edit.to] /\ UNCHANGED setbacks
       \/ Setback /\ UNCHANGED rows
    /\ UNCHANGED <<nodes, used, cooldowns, walk, blamed>>

\* ResetCooldown, for a node that is there; the rows of a deleted one stay.
ResetCooldown(a, n) ==
    /\ nodes[n] # "gone" /\ Setback
    /\ ledger' = [ledger EXCEPT ![a][n] = Clean]
    /\ \/ saved' = [saved EXCEPT ![a][n] = Clean]
       \/ UNCHANGED saved
    /\ UNCHANGED <<pool, rows, walk, blamed>>

ResetAllCooldowns ==
    /\ Setback
    /\ ledger' = [a \in Accounts |-> [n \in Nodes |-> Clean]]
    /\ saved' = ledger' \/ UNCHANGED saved
    /\ UNCHANGED <<pool, rows, walk, blamed>>

\* Pool.Load.  Cooldowns may have come to their end meanwhile.  The stamps read
\* back are those of some earlier marks, or none.
Restart ==
    /\ Setback
    /\ nodes' = rows
    /\ \E stamps \in [Nodes -> 0..Cardinality(Nodes)] : used' = Places(stamps)
    /\ \E over \in SUBSET (Accounts \X Nodes) :
         ledger' = [a \in Accounts |-> [n \in Nodes |->
                       [saved[a][n] EXCEPT !.benched = IF <<a, n>> \in over THEN FALSE ELSE @]]]
    /\ walk' = [w \in Workers |-> Idle]
    /\ edit' = NoEdit
    /\ UNCHANGED <<rows, saved, blamed>>

Answer(w) == Succeed(w) \/ Terminal(w) \/ Fault(w) \/ NonTarget(w) \/ Stale(w) \/ UpstreamError(w)

Walk(w) ==
    \/ TimeOut(w) \/ Stamp(w) \/ SaveStamp(w) \/ SaveStampFails(w) \/ Answer(w)
    \/ SaveMark(w) \/ SaveMarkLate(w) \/ SaveMarkFails(w) \/ Record(w)

Next ==
    \/ \E w \in Workers : Walk(w)
    \/ \E w \in Workers, a \in Accounts : Start(w, a)
    \/ \E n \in Nodes, to \in Status : Edit(n, to)
    \/ SaveEdit
    \/ \E a \in Accounts, n \in Nodes : Lapse(a, n) \/ ResetCooldown(a, n)
    \/ ResetAllCooldowns
    \/ Restart

Spec == Init /\ [][Next]_vars

\* Some worker walks for every account again and again (each scan launches the
\* due pairs), a walk goes on to its end, and its deadline, at least ten
\* seconds away, leaves time to stamp the first node.
Fairness ==
    /\ \A w \in Workers : WF_vars(Walk(w)) /\ SF_vars(Stamp(w))
    /\ \A a \in Accounts : \E w \in Workers : SF_vars(Start(w, a))

FairSpec == Spec /\ Fairness

-----------------------------------------------------------------------------
(* Properties *)

Entry == [strikes : Nat, benched : BOOLEAN]

Walks == [at : Steps, account : Accounts, queue : Seq(Nodes), unusable : Nat,
          copy : Status, rung : Nat, late : BOOLEAN]

\* Every variable has its type, and a walk that is under way has a node.
TypeOK ==
    /\ nodes \in [Nodes -> Status] /\ rows \in [Nodes -> Status]
    /\ used \in [Nodes -> Nat]
    /\ ledger \in [Accounts -> [Nodes -> Entry]]
    /\ saved \in [Accounts -> [Nodes -> Entry]]
    /\ walk \in [Workers -> Walks]
    /\ \A w \in Workers : walk[w].at # "idle" => walk[w].queue # <<>>
    /\ edit \in [node : Nodes, to : Status] \cup {NoEdit}
    /\ setbacks \in Nat
    /\ blamed \subseteq Accounts \X Nodes

\* The rung of a failure is read outside the lock under which the failure is
\* recorded, so two walks of one account may stand on the same rung; the
\* counter still climbs past the top of the ladder only by the number of walks
\* that can do so at once, and does not run away (proxies/cooldown.go:71).
StrikesBounded ==
    \A a \in Accounts, n \in Nodes :
        ledger[a][n].strikes <= Top - 2 + Cardinality(Workers)

\* executor.go:340: a node is benched only for an account it failed, by not
\* answering or with a state of the wrong shape; upstream errors, stale states
\* and terminal answers take no node away, whatever concurrent walks record
\* late and whatever a restart reads back.
BenchesAreEarned ==
    \A a \in Accounts, n \in Nodes : ledger[a][n].benched => <<a, n>> \in blamed

\* Least recently used first: a node that stays usable for an account is tried
\* again and again, although a walk may end after one node, walks overlap and
\* choose from the same order, and the operator may put nodes back in it.
EveryNodeIsTried ==
    \A a \in Accounts, n \in Nodes :
        <>[]Usable(a, n) =>
            []<><<\E w \in Workers : Stamp(w) /\ walk[w].account = a /\ Head(walk[w].queue) = n>>_vars

\* pool.go:30: concurrent probe workers never pick the same node.
WorkersSpread ==
    [][\A w \in Workers : Stamp(w) =>
          \A v \in Workers \ {w} :
              walk[v].at \in {"stamping", "asking"} => Head(walk[v].queue) # Head(walk[w].queue)]_vars

\* executor.go:338: a proxy fault is the node's problem; bench it for this
\* account.  Nothing but a failing database should prevent it.
FaultIsBenched ==
    [][\A w \in Workers :
          walk[w].at = "saving" /\ walk[w].rung > 0 /\ walk'[w].at # "saving"
              => walk'[w].at = "recording" \/ setbacks' # setbacks]_vars

\* proxy_store.go:55, pool.go:175: the table holds what was saved last, once
\* nothing is on its way to it.
EditsStick ==
    (edit = NoEdit /\ \A w \in Workers : walk[w].at \notin {"stamping", "saving"})
        => rows = nodes
=============================================================================
