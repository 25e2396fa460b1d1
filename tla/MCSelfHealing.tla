---------------------------- MODULE MCSelfHealing ----------------------------
(* Small instances of SelfHealing for TLC. *)
EXTENDS SelfHealing, TLC

CONSTANTS p1, r1, r2, r3, v1, v2, bad

Symmetry == Permutations(Requests) \cup Permutations(Targets)
=============================================================================
