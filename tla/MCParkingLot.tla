---------------------------- MODULE MCParkingLot ----------------------------
(***************************************************************************)
(* Instances of ParkingLot.  With MaxLoadFactor = GrowthFactor = 1 the     *)
(* hash table has one slot per thread, and every thread that is created    *)
(* beyond the size of the table rehashes it.  The two addresses share a    *)
(* bucket in a table of one or three slots and not in one of two.          *)
(***************************************************************************)
EXTENDS ParkingLot, TLC

CONSTANTS a1, a2, t1, t2, t3

MCHash == (a1 :> 1) @@ (a2 :> 4) @@ (NoAddress :> 0)

\* t3 only unparks, and makes the table grow.
OneParkOfTwo == [t \in Threads |-> IF t = t3 THEN 0 ELSE 1]
\* Only t1 parks twice.
TwoParksOfOne == [t \in Threads |-> IF t = t1 THEN 2 ELSE 0]
=============================================================================
