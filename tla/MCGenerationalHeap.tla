------------------------- MODULE MCGenerationalHeap -------------------------
(***************************************************************************)
(* A block of two cells and one of a single cell for TLC.                  *)
(***************************************************************************)
EXTENDS GenerationalHeap, TLC

CONSTANTS a, b, a1, a2, b1

MCBlockOf == [c \in Cells |-> IF c \in {a1, a2} THEN a ELSE b]

\* The cells of a block are alike.
Symmetry == Permutations({a1, a2})
=============================================================================
