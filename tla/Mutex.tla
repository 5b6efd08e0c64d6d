------------------------------- MODULE Mutex -------------------------------
(***************************************************************************)
(* What every lock of WTF promises its clients: at any moment at most one  *)
(* thread owns the lock, it is acquired only when it is free, and only its *)
(* owner releases it.  WordLock and Lock are shown to implement this       *)
(* specification; ParkingLot, Condition, DFGWorklist and the other clients *)
(* are modelled over it.                                                   *)
(***************************************************************************)
CONSTANTS Threads,   \* the threads that use the lock
          NoThread   \* the value of owner when the lock is free

VARIABLE owner

TypeOK == owner \in Threads \cup {NoThread}

Init == owner = NoThread

Acquire(t) ==
  /\ owner = NoThread
  /\ owner' = t

Release(t) ==
  /\ owner = t
  /\ owner' = NoThread

Next == \E t \in Threads : Acquire(t) \/ Release(t)

Spec == Init /\ [][Next]_owner
=============================================================================
