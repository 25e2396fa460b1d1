--------------------------- MODULE MCProbeScheduler ---------------------------
(* Small instances of ProbeScheduler for TLC. *)
EXTENDS ProbeScheduler, TLC

CONSTANTS p1, p2, p3, t1, t2, t3

MCRank == [p \in Pairs |-> IF p = p1 THEN 1 ELSE IF p = p2 THEN 2 ELSE 3]

Symmetry == Permutations(Tasks)
=============================================================================
