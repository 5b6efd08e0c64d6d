----------------------------- MODULE MCWordLock -----------------------------
(***************************************************************************)
(* Instances of WordLock.  The run checks liveness as well as safety, so   *)
(* the symmetry of the threads is not used.                                *)
(***************************************************************************)
EXTENDS WordLock
=============================================================================
