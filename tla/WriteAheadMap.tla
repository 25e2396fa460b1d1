---------------------------- MODULE WriteAheadMap ----------------------------
(***************************************************************************)
(* What the binding registry promises its lock-free readers.  `served' is  *)
(* what a lookup sees, `durable' is what a restart would find.  An entry   *)
(* becomes durable first and is served afterwards, one key at a time; a    *)
(* restart serves exactly what is durable.  Nothing is ever served that    *)
(* was not durable at the moment it started to be served.                  *)
(***************************************************************************)
CONSTANTS Keys,     \* the keys of the map
          Entries,  \* what a key may hold
          Absent    \* the value of a key that holds nothing

VARIABLES durable, served

mapVars == <<durable, served>>

Slots == [Keys -> Entries \cup {Absent}]

Init ==
    /\ durable = [k \in Keys |-> Absent]
    /\ served = durable

\* One key of the durable copy changes; readers notice nothing yet.
Persist(k) ==
    /\ durable' \in Slots
    /\ \A j \in Keys \ {k} : durable'[j] = durable[j]
    /\ UNCHANGED served

\* Readers start to see the durable entry of one key.
Serve(k) ==
    /\ served' = [served EXCEPT ![k] = durable[k]]
    /\ UNCHANGED durable

\* The process is restarted and reads everything back.
Recover ==
    /\ served' = durable
    /\ UNCHANGED durable

Next == \/ \E k \in Keys : Persist(k) \/ Serve(k)
        \/ Recover

Spec == Init /\ [][Next]_mapVars
=============================================================================
