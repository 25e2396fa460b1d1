------------------------------- MODULE PairProbe -------------------------------
(***************************************************************************)
(* What the probe scheduler promises the rest of the plugin: every pair    *)
(* has one probe, which is started when the pair is due and holds nothing  *)
(* fresh, and which puts the pair off as the last thing it does.  The      *)
(* scheduler with its scans, goroutines and semaphore implements this      *)
(* (ProbeScheduler), and the request path is modelled beside it            *)
(* (SelfHealing).                                                          *)
(***************************************************************************)
CONSTANT Pairs  \* the pairs with probing enabled

VARIABLES due,    \* pairs whose next_probe_at has arrived
          fresh,  \* pairs whose binding is fresh
          probe,  \* how far each pair's probe has come
          on      \* the switch

probeVars == <<due, fresh, probe, on>>

Init ==
    /\ due \subseteq Pairs
    /\ fresh \subseteq Pairs
    /\ probe = [p \in Pairs |-> "idle"]
    /\ on \in BOOLEAN

\* A probe takes a step by itself.
Goes(p, from, to) == probe[p] = from /\ probe' = [probe EXCEPT ![p] = to]

\* The switch was read when the scan began and may be off by now.
Start(p) ==
    /\ p \in due /\ p \notin fresh
    /\ Goes(p, "idle", "asking")
    /\ UNCHANGED <<due, fresh, on>>

\* The answer came with the switch off: the pair stays due.
Drop(p) ==
    /\ ~on
    /\ Goes(p, "asking", "idle")
    /\ UNCHANGED <<due, fresh, on>>

\* The answer came with the switch on.
Answer(p) ==
    /\ on
    /\ Goes(p, "asking", "binding") \/ Goes(p, "asking", "scheduling")
    /\ UNCHANGED <<due, fresh, on>>

\* The binding is written, or is not.  Nobody looks at the switch again.
Bind(p) ==
    /\ Goes(p, "binding", "scheduling")
    /\ fresh' \in {fresh, fresh \cup {p}}
    /\ UNCHANGED <<due, on>>

Schedule(p) ==
    /\ Goes(p, "scheduling", "idle")
    /\ due' = due \ {p}
    /\ UNCHANGED <<fresh, on>>

\* Time, traffic and the operator: bindings come and go, the switch is turned,
\* and pairs come due.  Only a probe itself puts its pair off.
World ==
    /\ due \subseteq due' /\ due' \subseteq Pairs
    /\ fresh' \subseteq Pairs
    /\ on' \in BOOLEAN
    /\ UNCHANGED probe

Next ==
    \/ \E p \in Pairs : Start(p) \/ Drop(p) \/ Answer(p) \/ Bind(p) \/ Schedule(p)
    \/ World

Spec == Init /\ [][Next]_probeVars
=============================================================================
