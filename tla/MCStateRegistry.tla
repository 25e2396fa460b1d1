--------------------------- MODULE MCStateRegistry ---------------------------
(* A small instance of StateRegistry for TLC. *)
EXTENDS StateRegistry, TLC

CONSTANTS p1, p2, old, opaque

\* `old' was minted at tick 0 and can be read; `opaque' cannot.
MCIssued == [v \in Values |-> 0]

\* The default policy and a shorter one an operator switches to.
MCPolicies == {[ttl |-> 2, refresh |-> 1], [ttl |-> 1, refresh |-> 1]}

Symmetry == Permutations(Pairs)
=============================================================================
