------------------------------ MODULE MCRouting ------------------------------
(* Small instances of Routing for TLC. *)
EXTENDS Routing, TLC

CONSTANTS d1, d2

\* One account of a lower priority.
MCPriority == [a \in Accounts |-> IF a = 3 THEN 0 ELSE 1]

\* ":00.3Z" comes before ":00Z", a full stop before a letter.
MCTextOrder == (0 :> 1) @@ (1 :> 0)

Symmetry == Permutations(Deciders)
=============================================================================
