----------------------------- MODULE MCWorklist -----------------------------
(***************************************************************************)
(* Instances of Worklist for TLC: one or two VMs and their plans.  Two     *)
(* plans of the first VM share a key: the second is enqueued after the     *)
(* first is gone.                                                          *)
(***************************************************************************)
EXTENDS Worklist

CONSTANTS v1, v2, p1, p2, p3

MCVMOf  == [p \in Plans |-> IF p = p3 THEN v2 ELSE v1]
MCKeyOf == [p \in Plans |-> IF p = p3 THEN "b" ELSE "a"]
=============================================================================
