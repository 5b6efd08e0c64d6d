---------------------------- MODULE MCCondition -----------------------------
(***************************************************************************)
(* Instances of Condition.                                                 *)
(***************************************************************************)
EXTENDS Condition
=============================================================================
