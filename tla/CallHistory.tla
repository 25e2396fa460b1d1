----------------------------- MODULE CallHistory -----------------------------
(***************************************************************************)
(* The call history (internal/callhistory/recorder.go, its store, and the  *)
(* loops of internal/app/app.go that drive it): requests are remembered    *)
(* while they run, handed to a bounded queue when they end or grow too     *)
(* old, and written by one goroutine in batches.                           *)
(*                                                                         *)
(* A call is one Begin: a request id and which of its Begins it was (the   *)
(* host may retry under the same id).  Of a record's contents only whether *)
(* the request has ended is kept.  Unlocking and handing over are steps of *)
(* their own, because other goroutines run in between.                     *)
(***************************************************************************)
EXTENDS Integers, Sequences, FiniteSets, SequencesExt

CONSTANTS Requests,     \* request ids
          Account,      \* the account that serves each
          QueueSize,    \* queueSize
          BatchSize,    \* the capacity of the writer's batch
          MaxCalls,     \* bound on the Begins of one request
          MaxSetbacks   \* bound on switches, failures, deletions and restarts

ASSUME AccountAssumption == DOMAIN Account = Requests
ASSUME SizesAssumption == QueueSize \in Nat \ {0} /\ BatchSize \in Nat \ {0}
ASSUME BoundsAssumption == MaxCalls \in Nat /\ MaxSetbacks \in Nat

VARIABLES enabled,   \* Capabilities().Enabled
          begun,     \* history: the Begins of each request so far
          pending,   \* the requests that Recorder.pending holds
          order,     \* Recorder.order
          aged,      \* the pending requests begun longer than the TTL ago
          leaving,   \* calls a completion has taken out and not handed over yet
          swept,     \* the same for the sweep, in its order
          queue,     \* Recorder.queue
          batch,     \* what the writer has taken from it
          table,     \* the table call_history: calls
          unended,   \* the calls whose row says they never ended
          ended,     \* history: the calls the host reported as ended
          lost,      \* history: calls without a row, for whatever reason
          setbacks   \* how many setbacks there have been

vars == <<enabled, begun, pending, order, aged, leaving, swept, queue, batch,
          table, unended, ended, lost, setbacks>>

memory == <<pending, order, aged>>
writer == <<batch, table, unended>>

Setback == setbacks < MaxSetbacks /\ setbacks' = setbacks + 1

Call(r) == <<r, begun[r]>>

\* The calls that have been begun.
Calls == {<<r, k>> : r \in Requests, k \in 1..MaxCalls}
Begun == {c \in Calls : c[2] <= begun[c[1]]}

Init ==
    /\ enabled \in BOOLEAN
    /\ begun = [r \in Requests |-> 0]
    /\ pending = {} /\ order = <<>> /\ aged = {}
    /\ leaving = {} /\ swept = <<>>
    /\ queue = <<>> /\ batch = <<>>
    /\ table = {} /\ unended = {}
    /\ ended = {} /\ lost = {}
    /\ setbacks = 0

\* The elements of s that are among S, in the order that they have in s.
Among(s, S) ==
    LET places == {i \in DOMAIN s : s[i] \in S}
        upTo(i) == {j \in places : j <= i}
    IN  [k \in 1..Cardinality(places) |-> s[CHOOSE i \in places : Cardinality(upTo(i)) = k]]

-----------------------------------------------------------------------------
(* The request's handlers *)

\* A request that is begun again keeps its place.
Listed(r) == IF r \in pending THEN order ELSE Append(order, r)

\* A record that is still there is overwritten.
Begin(r) ==
    /\ enabled /\ begun[r] < MaxCalls
    /\ begun' = [begun EXCEPT ![r] = @ + 1]
    /\ order' = Listed(r)
    /\ pending' = pending \cup {r}
    /\ aged' = aged \ {r}
    /\ lost' = IF r \in pending THEN lost \cup {Call(r)} ELSE lost
    /\ UNCHANGED <<enabled, leaving, swept, queue, writer, ended, setbacks>>

\* Mutant of Taken: the record stays for the sweep.
TakenNot(r) == UNCHANGED memory

Taken(r) ==
    /\ pending' = pending \ {r}
    /\ order' = RemoveFirst(order, r)
    /\ aged' = aged \ {r}

\* Complete, up to its Unlock.
Complete(r) ==
    /\ begun[r] > 0 /\ Call(r) \notin ended
    /\ ended' = ended \cup {Call(r)}
    /\ IF enabled /\ r \in pending
       THEN Taken(r) /\ leaving' = leaving \cup {Call(r)}
       ELSE UNCHANGED <<memory, leaving>>
    /\ UNCHANGED <<enabled, begun, swept, queue, writer, lost, setbacks>>

\* Mutant of Enqueue: a queue without a limit.
EnqueueAlways(c) == queue' = Append(queue, c) /\ UNCHANGED lost

\* A full queue drops the call instead of making the request wait.
Enqueue(c) ==
    IF Len(queue) < QueueSize
    THEN queue' = Append(queue, c) /\ UNCHANGED lost
    ELSE lost' = lost \cup {c} /\ UNCHANGED queue

HandOver(c) ==
    /\ c \in leaving
    /\ leaving' = leaving \ {c}
    /\ Enqueue(c)
    /\ UNCHANGED <<enabled, begun, memory, swept, writer, ended, setbacks>>

-----------------------------------------------------------------------------
(* The prune loop *)

\* A record reaches its TTL.
Age(r) ==
    /\ r \in pending \ aged
    /\ aged' = aged \cup {r}
    /\ UNCHANGED <<enabled, begun, pending, order, leaving, swept, queue, writer,
                   ended, lost, setbacks>>

\* Mutant of Stale: a sweep that takes nothing.
StaleNone == <<>>

\* The old records, in the order of the list.
Stale == Among(order, aged)

\* Sweep, up to its Unlock; also while the plugin is switched off.
Sweep ==
    /\ swept = <<>> /\ aged # {}
    /\ swept' = [i \in DOMAIN Stale |-> Call(Stale[i])]
    /\ pending' = pending \ ToSet(Stale)
    /\ order' = Among(order, pending \ ToSet(Stale))
    /\ aged' = aged \ ToSet(Stale)
    /\ UNCHANGED <<enabled, begun, leaving, queue, writer, ended, lost, setbacks>>

HandOverSwept ==
    /\ swept # <<>>
    /\ swept' = Tail(swept)
    /\ Enqueue(Head(swept))
    /\ unended' = IF Len(queue) < QueueSize THEN unended \cup {Head(swept)} ELSE unended
    /\ UNCHANGED <<enabled, begun, memory, leaving, batch, table, ended, setbacks>>

\* PruneCallsBefore.  The age of a row is not kept: any may be old enough.
Prune ==
    /\ Setback
    /\ \E old \in (SUBSET table) \ {{}} :
         table' = table \ old /\ unended' = unended \ old /\ lost' = lost \cup old
    /\ UNCHANGED <<enabled, begun, memory, leaving, swept, queue, batch, ended>>

-----------------------------------------------------------------------------
(* The writer *)

\* It takes what is waiting, up to the capacity of its batch ...
Take ==
    /\ queue # <<>> /\ Len(batch) < BatchSize
    /\ batch' = Append(batch, Head(queue))
    /\ queue' = Tail(queue)
    /\ UNCHANGED <<enabled, begun, memory, leaving, swept, table, unended, ended,
                   lost, setbacks>>

Full == batch # <<>> /\ (queue = <<>> \/ Len(batch) = BatchSize)

\* ... and writes it in one transaction ...
Flush ==
    /\ Full
    /\ table' = table \cup ToSet(batch)
    /\ batch' = <<>>
    /\ UNCHANGED <<enabled, begun, memory, leaving, swept, queue, unended, ended,
                   lost, setbacks>>

\* ... or loses all of it.
FlushFails ==
    /\ Full /\ Setback
    /\ lost' = lost \cup ToSet(batch)
    /\ unended' = unended \ ToSet(batch)
    /\ batch' = <<>>
    /\ UNCHANGED <<enabled, begun, memory, leaving, swept, queue, table, ended>>

-----------------------------------------------------------------------------
(* The operator *)

\* DeleteCallsForAccount: what is still on its way to the table stays.
DeleteCalls(a) ==
    LET gone == {c \in table : Account[c[1]] = a}
    IN  /\ gone # {} /\ Setback
        /\ table' = table \ gone
        /\ unended' = unended \ gone
        /\ lost' = lost \cup gone
        /\ UNCHANGED <<enabled, begun, memory, leaving, swept, queue, batch, ended>>

Switch ==
    /\ Setback
    /\ enabled' = ~enabled
    /\ UNCHANGED <<begun, memory, leaving, swept, queue, writer, ended, lost>>

\* Stop and a new start.  Nothing is flushed.
Restart ==
    /\ Setback
    /\ pending' = {} /\ order' = <<>> /\ aged' = {}
    /\ leaving' = {} /\ swept' = <<>> /\ queue' = <<>> /\ batch' = <<>>
    /\ lost' = Begun \ table
    /\ unended' = unended \cap table
    /\ UNCHANGED <<enabled, begun, table, ended>>

Next ==
    \/ \E r \in Requests : Begin(r) \/ Complete(r) \/ Age(r)
    \/ \E c \in leaving : HandOver(c)
    \/ Sweep \/ HandOverSwept \/ Prune
    \/ Take \/ Flush \/ FlushFails
    \/ \E a \in {Account[r] : r \in Requests} : DeleteCalls(a)
    \/ Switch \/ Restart

Spec == Init /\ [][Next]_vars

\* Time passes, the prune loop sweeps, and every goroutine runs; that a request
\* completes is up to the host.
Fairness ==
    /\ \A r \in Requests : WF_vars(Age(r))
    /\ \A c \in Calls : WF_vars(HandOver(c))
    /\ WF_vars(Sweep) /\ WF_vars(HandOverSwept)
    /\ WF_vars(Take) /\ WF_vars(Flush)

FairSpec == Spec /\ Fairness

-----------------------------------------------------------------------------
(* Properties *)

\* Every variable has its type; the queue and the batch keep within their sizes.
TypeOK ==
    /\ enabled \in BOOLEAN
    /\ begun \in [Requests -> 0..MaxCalls]
    /\ pending \subseteq Requests /\ aged \subseteq pending
    /\ order \in Seq(Requests)
    /\ leaving \subseteq Calls /\ swept \in Seq(Calls)
    /\ queue \in Seq(Calls) /\ Len(queue) <= QueueSize
    /\ batch \in Seq(Calls) /\ Len(batch) <= BatchSize
    /\ table \subseteq Calls /\ lost \subseteq Calls
    /\ unended \subseteq Calls /\ ended \subseteq Calls
    /\ setbacks \in Nat

\* Where a call may be.
Places == <<{Call(r) : r \in pending}, leaving, ToSet(swept), ToSet(queue),
            ToSet(batch), table, lost>>

\* Every call is in one place at a time, and in no place twice: completion,
\* sweep, retry, writer and restart never write one call's row twice, and none
\* vanishes without a reason.  The list that the sweep walks names what is
\* pending and names it once: a request that fell out of it would stay in memory
\* for ever, and one named twice would be moved by a retry (recorder.go:241).
OncePerCall ==
    /\ UNION {Places[i] : i \in DOMAIN Places} = Begun
    /\ \A i, j \in DOMAIN Places : i # j => Places[i] \cap Places[j] = {}
    /\ IsInjective(swept \o queue \o batch)
    /\ ToSet(order) = pending /\ Len(order) = Cardinality(pending)

\* recorder.go:226: no request stays in memory for ever, whatever the host
\* fails to report; each gets its row, or was lost for a reason.
EveryCallIsSettled ==
    \A c \in Calls : c \in Begun ~> c \in table \cup lost

\* recorder.go:228: a row without a status is of a request that never finished.
UnendedIsHonest == unended \cap ended = {}
=============================================================================
