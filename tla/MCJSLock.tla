------------------------------ MODULE MCJSLock ------------------------------
(***************************************************************************)
(* JSLock for TLC: one thread opens three scopes, so that it can drop the  *)
(* lock again while it gives it up or takes it back; the others open two,  *)
(* so that three drops are to be undone at a time.                         *)
(***************************************************************************)
EXTENDS JSLock

CONSTANTS t1, t2, t3

MCMaxScopes == [t \in Threads |-> IF t = t1 THEN 3 ELSE 2]
=============================================================================
