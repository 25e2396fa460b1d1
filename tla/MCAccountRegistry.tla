-------------------------- MODULE MCAccountRegistry --------------------------
(* Small instances of AccountRegistry for TLC. *)
EXTENDS AccountRegistry

CONSTANTS a1, a2, s1, s2, s3
=============================================================================
