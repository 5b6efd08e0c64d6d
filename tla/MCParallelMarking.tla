-------------------------- MODULE MCParallelMarking --------------------------
(***************************************************************************)
(* A small heap for ParallelMarking: c1 has three children, two of which   *)
(* the later root c2 shares; c4 closes a cycle and c3 and c4 add opaque    *)
(* roots, of which the one of c4 keeps c6 by a weak handle; c6 has a child *)
(* c7 with a harvester for c8; c9 is garbage, with a harvester of its own. *)
(***************************************************************************)
EXTENDS ParallelMarking, TLC

CONSTANTS c1, c2, c3, c4, c5, c6, c7, c8, c9, r1, r2

MCCells == {c1, c2, c3, c4, c5, c6, c7, c8, c9}
MCChildren ==
  c1 :> <<c3, c4, c5>> @@ c2 :> <<c4, c5>> @@ c3 :> <<c4>> @@ c4 :> <<c1>> @@
  c5 :> <<>> @@ c6 :> <<c7>> @@ c7 :> <<>> @@ c8 :> <<>> @@ c9 :> <<c1>>
MCRoots == <<<<c1, c2>>, <<c3>>>>
MCOpaqueRoots == [c \in MCCells |-> IF c = c3 THEN {r1} ELSE IF c = c4 THEN {r2} ELSE {}]
MCWeakHandles == {<<r2, c6>>}
MCHarvesters == {<<c7, c8>>, <<c9, c9>>}
=============================================================================
