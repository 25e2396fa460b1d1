------------------------------- MODULE RuleInput -------------------------------
(***************************************************************************)
(* What a rule of the plugin is asked: the name of the rule beside its     *)
(* arguments, or the rule "none".                                          *)
(***************************************************************************)

VARIABLE input
=============================================================================
