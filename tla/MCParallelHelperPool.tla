------------------------ MODULE MCParallelHelperPool ------------------------
(***************************************************************************)
(* Instances of ParallelHelperPool.                                        *)
(***************************************************************************)
EXTENDS ParallelHelperPool
=============================================================================
