------------------------------ MODULE MCProbeWalk ------------------------------
(* A small instance of ProbeWalk for TLC. *)
EXTENDS ProbeWalk, TLC

CONSTANTS w1, w2, a1, a2

Symmetry == Permutations(Workers)
=============================================================================
