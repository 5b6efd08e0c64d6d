--------------------------- MODULE WordLockProofs ---------------------------
(***************************************************************************)
(* Proofs about WordLock for any set of threads and any spin limit: type   *)
(* correctness, mutual exclusion, the safety of the plain stores to the    *)
(* word, that WordLock implements Mutex, and the integrity of the queue.   *)
(*                                                                         *)
(* Mutual exclusion is not inductive by itself.  The invariant relates the *)
(* two bits of the word to the control points of the threads (each bit is  *)
(* set exactly when one thread is where it owns that bit), and says what a *)
(* thread knows about the value it loaded before its compare-and-swap.     *)
(* The invariant of the queue builds on it: there is always a sequence of  *)
(* the waiting threads that the links follow.                              *)
(***************************************************************************)
EXTENDS WordLock, Sequences, FunctionTheorems, FiniteSetTheorems, WellFoundedInduction, TLAPS

\* Each bit of the word is set exactly when a thread owns it.
BitsMeanOwners ==
  /\ word.locked <=> \E t \in Threads : HoldsLock(t)
  /\ word.queueLocked <=> \E t \in Threads : HoldsQueue(t)

\* At most one thread owns the queue lock, and only while the lock is owned.
QueueExclusion ==
  /\ \A t, u \in Threads : HoldsQueue(t) /\ HoldsQueue(u) => t = u
  /\ word.queueLocked => word.locked

\* What a thread knows of the value it loaded, or of the word it owns.
LoadedValues ==
  \A t \in Threads :
    /\ pc[t] = "lsAcquire" => ~cur[t].locked /\ ~cur[t].queueLocked
    /\ pc[t] = "lsLockQueue" => cur[t].locked /\ ~cur[t].queueLocked
    /\ pc[t] = "usLockQueue" => cur[t].locked /\ ~cur[t].queueLocked /\ cur[t].head # NoThread
    /\ pc[t] = "usDequeue" => word.head # NoThread
    /\ pc[t] = "usStore" => ~cur[t].locked /\ ~cur[t].queueLocked
    /\ pc[t] \in {"usStore", "usClear", "usUnpark", "usNotify"} => queueHead[t] \in Threads
    /\ pc[t] \in {"lsRelease", "lsStore"} => queueHead[t] \in Threads

IInv ==
  /\ TypeOK
  /\ MutualExclusion
  /\ NoLostUpdate
  /\ BitsMeanOwners
  /\ QueueExclusion
  /\ LoadedValues

USE ConstantsAssumption

-----------------------------------------------------------------------------
LEMMA InitIInv == Init => IInv
  BY DEF Init, IInv, TypeOK, MutualExclusion, NoLostUpdate, BitsMeanOwners,
     QueueExclusion, LoadedValues, HoldsLock, HoldsQueue, HoldsLockPC, HoldsQueuePC,
     Unlocked, Word, Pointer, PC, LockSlowPC, UnlockSlowPC

LEMMA NextIInv == IInv /\ [Next]_vars => IInv'
<1> SUFFICES ASSUME IInv, [Next]_vars PROVE IInv'
  OBVIOUS
<1> USE DEF Word, Pointer, PC, LockSlowPC, UnlockSlowPC, HoldsLockPC, HoldsQueuePC,
        HoldsLock, HoldsQueue, Unlocked, IsLockedOnly, Goto, threadData, IInv
<1>a. UNCHANGED vars => IInv'
  BY DEF vars, TypeOK, MutualExclusion, NoLostUpdate, BitsMeanOwners, QueueExclusion,
     LoadedValues
<1>1. ASSUME NEW t \in Threads, LockFast(t) PROVE IInv'
  BY <1>1 DEF LockFast, TypeOK, MutualExclusion, NoLostUpdate, BitsMeanOwners,
     QueueExclusion, LoadedValues
<1>2. ASSUME NEW t \in Threads, LockFastFails(t) PROVE IInv'
  BY <1>2 DEF LockFastFails, TypeOK, MutualExclusion, NoLostUpdate, BitsMeanOwners,
     QueueExclusion, LoadedValues
<1>3. ASSUME NEW t \in Threads, LockSlowLoad(t) PROVE IInv'
  <2>1. TypeOK'
    BY <1>3 DEF LockSlowLoad, SpinOrEnqueue, TypeOK
  <2>2. MutualExclusion'
    BY <1>3 DEF LockSlowLoad, SpinOrEnqueue, TypeOK, MutualExclusion, BitsMeanOwners, LoadedValues
  <2>3. NoLostUpdate'
    BY <1>3 DEF LockSlowLoad, SpinOrEnqueue, TypeOK, NoLostUpdate, BitsMeanOwners, QueueExclusion, MutualExclusion, LoadedValues
  <2>4. BitsMeanOwners'
    BY <1>3 DEF LockSlowLoad, SpinOrEnqueue, TypeOK, BitsMeanOwners, MutualExclusion, QueueExclusion, NoLostUpdate, LoadedValues
  <2>5. QueueExclusion'
    BY <1>3 DEF LockSlowLoad, SpinOrEnqueue, TypeOK, QueueExclusion, BitsMeanOwners, NoLostUpdate, LoadedValues
  <2>6. LoadedValues'
    BY <1>3 DEF LockSlowLoad, SpinOrEnqueue, TypeOK, LoadedValues, BitsMeanOwners, QueueExclusion, MutualExclusion, NoLostUpdate
  <2> QED
    BY <2>1, <2>2, <2>3, <2>4, <2>5, <2>6
<1>4. ASSUME NEW t \in Threads, LockSlowAcquire(t) PROVE IInv'
  BY <1>4 DEF LockSlowAcquire, TypeOK, MutualExclusion, NoLostUpdate, BitsMeanOwners,
     QueueExclusion, LoadedValues
<1>5. ASSUME NEW t \in Threads, LockSlowAcquireFails(t) PROVE IInv'
  <2>1. TypeOK'
    <3>1. pc' \in [Threads -> PC] /\ spinCount' \in [Threads -> 0..SpinLimit]
      BY <1>5 DEF LockSlowAcquireFails, SpinOrEnqueue, TypeOK
    <3> QED
      BY <1>5, <3>1 DEF LockSlowAcquireFails, TypeOK
  <2>2. MutualExclusion'
    BY <1>5 DEF LockSlowAcquireFails, SpinOrEnqueue, TypeOK, MutualExclusion, BitsMeanOwners, LoadedValues
  <2>3. NoLostUpdate'
    BY <1>5 DEF LockSlowAcquireFails, SpinOrEnqueue, TypeOK, NoLostUpdate, BitsMeanOwners, QueueExclusion, MutualExclusion, LoadedValues
  <2>4. BitsMeanOwners'
    BY <1>5 DEF LockSlowAcquireFails, SpinOrEnqueue, TypeOK, BitsMeanOwners, MutualExclusion, QueueExclusion, NoLostUpdate, LoadedValues
  <2>5. QueueExclusion'
    BY <1>5 DEF LockSlowAcquireFails, SpinOrEnqueue, TypeOK, QueueExclusion, BitsMeanOwners, NoLostUpdate, LoadedValues
  <2>6. LoadedValues'
    BY <1>5 DEF LockSlowAcquireFails, SpinOrEnqueue, TypeOK, LoadedValues, BitsMeanOwners, QueueExclusion, MutualExclusion, NoLostUpdate
  <2> QED
    BY <2>1, <2>2, <2>3, <2>4, <2>5, <2>6
<1>6. ASSUME NEW t \in Threads, LockSlowReload(t) PROVE IInv'
  BY <1>6 DEF LockSlowReload, TypeOK, MutualExclusion, NoLostUpdate, BitsMeanOwners,
     QueueExclusion, LoadedValues
<1>7. ASSUME NEW t \in Threads, LockSlowLockQueue(t) PROVE IInv'
  <2>1. TypeOK'
    BY <1>7 DEF LockSlowLockQueue, TypeOK
  <2>2. MutualExclusion'
    BY <1>7 DEF LockSlowLockQueue, TypeOK, MutualExclusion, BitsMeanOwners, LoadedValues
  <2>3. NoLostUpdate'
    BY <1>7 DEF LockSlowLockQueue, TypeOK, NoLostUpdate, BitsMeanOwners, QueueExclusion, MutualExclusion, LoadedValues
  <2>4. BitsMeanOwners'
    BY <1>7 DEF LockSlowLockQueue, TypeOK, BitsMeanOwners, MutualExclusion, QueueExclusion, NoLostUpdate, LoadedValues
  <2>5. QueueExclusion'
    BY <1>7 DEF LockSlowLockQueue, TypeOK, QueueExclusion, BitsMeanOwners, NoLostUpdate, LoadedValues
  <2>6. LoadedValues'
    BY <1>7 DEF LockSlowLockQueue, TypeOK, LoadedValues, BitsMeanOwners, QueueExclusion, MutualExclusion, NoLostUpdate
  <2> QED
    BY <2>1, <2>2, <2>3, <2>4, <2>5, <2>6
<1>8. ASSUME NEW t \in Threads, LockSlowLockQueueFails(t) PROVE IInv'
  BY <1>8 DEF LockSlowLockQueueFails, TypeOK, MutualExclusion, NoLostUpdate, BitsMeanOwners,
     QueueExclusion, LoadedValues
<1>9. ASSUME NEW t \in Threads, LockSlowLink(t) PROVE IInv'
  <2>1. TypeOK'
    BY <1>9 DEF LockSlowLink, TypeOK
  <2>2. MutualExclusion'
    BY <1>9 DEF LockSlowLink, TypeOK, MutualExclusion, BitsMeanOwners, LoadedValues
  <2>3. NoLostUpdate'
    BY <1>9 DEF LockSlowLink, TypeOK, NoLostUpdate, BitsMeanOwners, QueueExclusion, MutualExclusion, LoadedValues
  <2>4. BitsMeanOwners'
    BY <1>9 DEF LockSlowLink, TypeOK, BitsMeanOwners, MutualExclusion, QueueExclusion, NoLostUpdate, LoadedValues
  <2>5. QueueExclusion'
    BY <1>9 DEF LockSlowLink, TypeOK, QueueExclusion, BitsMeanOwners, NoLostUpdate, LoadedValues
  <2>6. LoadedValues'
    BY <1>9 DEF LockSlowLink, TypeOK, LoadedValues, BitsMeanOwners, QueueExclusion, MutualExclusion, NoLostUpdate
  <2> QED
    BY <2>1, <2>2, <2>3, <2>4, <2>5, <2>6
<1>10. ASSUME NEW t \in Threads, LockSlowRelease(t) PROVE IInv'
  <2>1. TypeOK'
    BY <1>10 DEF LockSlowRelease, TypeOK
  <2>2. MutualExclusion'
    BY <1>10 DEF LockSlowRelease, TypeOK, MutualExclusion, BitsMeanOwners, LoadedValues
  <2>3. NoLostUpdate'
    BY <1>10 DEF LockSlowRelease, TypeOK, NoLostUpdate, BitsMeanOwners, QueueExclusion, MutualExclusion, LoadedValues
  <2>4. BitsMeanOwners'
    BY <1>10 DEF LockSlowRelease, TypeOK, BitsMeanOwners, MutualExclusion, QueueExclusion, NoLostUpdate, LoadedValues
  <2>5. QueueExclusion'
    BY <1>10 DEF LockSlowRelease, TypeOK, QueueExclusion, BitsMeanOwners, NoLostUpdate, LoadedValues
  <2>6. LoadedValues'
    BY <1>10 DEF LockSlowRelease, TypeOK, LoadedValues, BitsMeanOwners, QueueExclusion, MutualExclusion, NoLostUpdate
  <2> QED
    BY <2>1, <2>2, <2>3, <2>4, <2>5, <2>6
<1>11. ASSUME NEW t \in Threads, LockSlowStore(t) PROVE IInv'
  <2>1. TypeOK'
    BY <1>11 DEF LockSlowStore, TypeOK
  <2>2. MutualExclusion'
    BY <1>11 DEF LockSlowStore, TypeOK, MutualExclusion, BitsMeanOwners, LoadedValues
  <2>3. NoLostUpdate'
    BY <1>11 DEF LockSlowStore, TypeOK, NoLostUpdate, BitsMeanOwners, QueueExclusion, MutualExclusion, LoadedValues
  <2>4. BitsMeanOwners'
    BY <1>11 DEF LockSlowStore, TypeOK, BitsMeanOwners, MutualExclusion, QueueExclusion, NoLostUpdate, LoadedValues
  <2>5. QueueExclusion'
    BY <1>11 DEF LockSlowStore, TypeOK, QueueExclusion, BitsMeanOwners, NoLostUpdate, LoadedValues
  <2>6. LoadedValues'
    BY <1>11 DEF LockSlowStore, TypeOK, LoadedValues, BitsMeanOwners, QueueExclusion, MutualExclusion, NoLostUpdate
  <2> QED
    BY <2>1, <2>2, <2>3, <2>4, <2>5, <2>6
<1>12. ASSUME NEW t \in Threads, LockSlowPark(t) PROVE IInv'
  BY <1>12 DEF LockSlowPark, TypeOK, MutualExclusion, NoLostUpdate, BitsMeanOwners,
     QueueExclusion, LoadedValues
<1>13. ASSUME NEW t \in Threads, SpuriousWakeUp(t) PROVE IInv'
  BY <1>13 DEF SpuriousWakeUp, TypeOK, MutualExclusion, NoLostUpdate, BitsMeanOwners,
     QueueExclusion, LoadedValues
<1>14. ASSUME NEW t \in Threads, UnlockFast(t) PROVE IInv'
  BY <1>14 DEF UnlockFast, TypeOK, MutualExclusion, NoLostUpdate, BitsMeanOwners,
     QueueExclusion, LoadedValues
<1>15. ASSUME NEW t \in Threads, UnlockFastFails(t) PROVE IInv'
  BY <1>15 DEF UnlockFastFails, TypeOK, MutualExclusion, NoLostUpdate, BitsMeanOwners,
     QueueExclusion, LoadedValues
<1>16. ASSUME NEW t \in Threads, UnlockSlowLoad(t) PROVE IInv'
  BY <1>16 DEF UnlockSlowLoad, TypeOK, MutualExclusion, NoLostUpdate, BitsMeanOwners,
     QueueExclusion, LoadedValues
<1>17. ASSUME NEW t \in Threads, UnlockSlowRelease(t) PROVE IInv'
  BY <1>17 DEF UnlockSlowRelease, TypeOK, MutualExclusion, NoLostUpdate, BitsMeanOwners,
     QueueExclusion, LoadedValues
<1>18. ASSUME NEW t \in Threads, UnlockSlowLockQueue(t) PROVE IInv'
  <2>1. TypeOK'
    BY <1>18 DEF UnlockSlowLockQueue, TypeOK
  <2>2. MutualExclusion'
    BY <1>18 DEF UnlockSlowLockQueue, TypeOK, MutualExclusion, BitsMeanOwners, LoadedValues
  <2>3. NoLostUpdate'
    BY <1>18 DEF UnlockSlowLockQueue, TypeOK, NoLostUpdate, BitsMeanOwners, QueueExclusion, MutualExclusion, LoadedValues
  <2>4. BitsMeanOwners'
    BY <1>18 DEF UnlockSlowLockQueue, TypeOK, BitsMeanOwners, MutualExclusion, QueueExclusion, NoLostUpdate, LoadedValues
  <2>5. QueueExclusion'
    BY <1>18 DEF UnlockSlowLockQueue, TypeOK, QueueExclusion, BitsMeanOwners, NoLostUpdate, LoadedValues
  <2>6. LoadedValues'
    BY <1>18 DEF UnlockSlowLockQueue, TypeOK, LoadedValues, BitsMeanOwners, QueueExclusion, MutualExclusion, NoLostUpdate
  <2> QED
    BY <2>1, <2>2, <2>3, <2>4, <2>5, <2>6
<1>19. ASSUME NEW t \in Threads, UnlockSlowFails(t) PROVE IInv'
  <2>1. TypeOK'
    BY <1>19 DEF UnlockSlowFails, TypeOK
  <2>2. MutualExclusion'
    BY <1>19 DEF UnlockSlowFails, TypeOK, MutualExclusion, BitsMeanOwners, LoadedValues
  <2>3. NoLostUpdate'
    BY <1>19 DEF UnlockSlowFails, TypeOK, NoLostUpdate, BitsMeanOwners, QueueExclusion, MutualExclusion, LoadedValues
  <2>4. BitsMeanOwners'
    BY <1>19 DEF UnlockSlowFails, TypeOK, BitsMeanOwners, MutualExclusion, QueueExclusion, NoLostUpdate, LoadedValues
  <2>5. QueueExclusion'
    BY <1>19 DEF UnlockSlowFails, TypeOK, QueueExclusion, BitsMeanOwners, NoLostUpdate, LoadedValues
  <2>6. LoadedValues'
    BY <1>19 DEF UnlockSlowFails, TypeOK, LoadedValues, BitsMeanOwners, QueueExclusion, MutualExclusion, NoLostUpdate
  <2> QED
    BY <2>1, <2>2, <2>3, <2>4, <2>5, <2>6
<1>20. ASSUME NEW t \in Threads, UnlockSlowDequeue(t) PROVE IInv'
  <2>1. TypeOK'
    BY <1>20 DEF UnlockSlowDequeue, TypeOK, LoadedValues
  <2>2. MutualExclusion'
    BY <1>20 DEF UnlockSlowDequeue, TypeOK, MutualExclusion, BitsMeanOwners, LoadedValues
  <2>3. NoLostUpdate'
    BY <1>20 DEF UnlockSlowDequeue, TypeOK, NoLostUpdate, BitsMeanOwners, QueueExclusion, MutualExclusion, LoadedValues
  <2>4. BitsMeanOwners'
    BY <1>20 DEF UnlockSlowDequeue, TypeOK, BitsMeanOwners, MutualExclusion, QueueExclusion, NoLostUpdate, LoadedValues
  <2>5. QueueExclusion'
    BY <1>20 DEF UnlockSlowDequeue, TypeOK, QueueExclusion, BitsMeanOwners, NoLostUpdate, LoadedValues
  <2>6. LoadedValues'
    BY <1>20 DEF UnlockSlowDequeue, TypeOK, LoadedValues, BitsMeanOwners, QueueExclusion, MutualExclusion, NoLostUpdate
  <2> QED
    BY <2>1, <2>2, <2>3, <2>4, <2>5, <2>6
<1>21. ASSUME NEW t \in Threads, UnlockSlowStore(t) PROVE IInv'
  BY <1>21 DEF UnlockSlowStore, TypeOK, MutualExclusion, NoLostUpdate, BitsMeanOwners,
     QueueExclusion, LoadedValues
<1>22. ASSUME NEW t \in Threads, UnlockSlowClear(t) PROVE IInv'
  BY <1>22 DEF UnlockSlowClear, TypeOK, MutualExclusion, NoLostUpdate, BitsMeanOwners,
     QueueExclusion, LoadedValues
<1>23. ASSUME NEW t \in Threads, UnlockSlowUnpark(t) PROVE IInv'
  BY <1>23 DEF UnlockSlowUnpark, TypeOK, MutualExclusion, NoLostUpdate, BitsMeanOwners,
     QueueExclusion, LoadedValues
<1>24. ASSUME NEW t \in Threads, UnlockSlowNotify(t) PROVE IInv'
  BY <1>24 DEF UnlockSlowNotify, TypeOK, MutualExclusion, NoLostUpdate, BitsMeanOwners,
     QueueExclusion, LoadedValues
<1> QED
  BY <1>a, <1>1, <1>2, <1>3, <1>4, <1>5, <1>6, <1>7, <1>8, <1>9, <1>10, <1>11, <1>12, <1>13, <1>14, <1>15, <1>16, <1>17, <1>18, <1>19, <1>20, <1>21, <1>22, <1>23, <1>24
     DEF Next, LockCall, Run, LockCAS, UnlockCAS

\* IInv holds in every reachable state.
THEOREM IInvAlways == Spec => []IInv
  BY InitIInv, NextIInv, PTL DEF Spec

\* Type correctness of every field of the word, of the locals and of ThreadData.
THEOREM TypeCorrect == Spec => []TypeOK
<1>1. IInv => TypeOK
  BY DEF IInv
<1> QED
  BY <1>1, IInvAlways, PTL

\* For any number of threads and any spin limit, lock() never lets two threads in.
THEOREM MutualExclusionAlways == Spec => []MutualExclusion
<1>1. IInv => MutualExclusion
  BY DEF IInv
<1> QED
  BY <1>1, IInvAlways, PTL

\* The two plain stores of the slow paths never overwrite a change they did not
\* see: the argument the comments of lockSlow() and unlockSlow() make.
THEOREM NoLostUpdateAlways == Spec => []NoLostUpdate
<1>1. IInv => NoLostUpdate
  BY DEF IInv
<1> QED
  BY <1>1, IInvAlways, PTL

-----------------------------------------------------------------------------
\* With mutual exclusion the abstract owner is the one thread that holds the lock.
LEMMA OwnerHolds ==
  ASSUME MutualExclusion, NEW t \in Threads, HoldsLock(t)
  PROVE  Owner = t
  BY DEF Owner, MutualExclusion

LEMMA OwnerFree ==
  ASSUME \A t \in Threads : ~HoldsLock(t)
  PROVE  Owner = NoThread
  BY DEF Owner

\* The same two facts about the next state.
LEMMA OwnerHoldsNext ==
  ASSUME MutualExclusion', NEW t \in Threads, HoldsLock(t)'
  PROVE  Owner' = t
  BY DEF Owner, MutualExclusion

LEMMA OwnerFreeNext ==
  ASSUME \A t \in Threads : ~HoldsLock(t)'
  PROVE  Owner' = NoThread
  BY DEF Owner

\* A step that leaves every thread's claim to the lock alone is a stutter.
LEMMA OwnerStutters ==
  ASSUME MutualExclusion, MutualExclusion',
         \A u \in Threads : HoldsLock(u)' <=> HoldsLock(u)
  PROVE  UNCHANGED Owner
<1>1. CASE \E t \in Threads : HoldsLock(t)
  <2> PICK t \in Threads : HoldsLock(t)
    BY <1>1
  <2> QED
    BY OwnerHolds, OwnerHoldsNext
<1>2. CASE \A t \in Threads : ~HoldsLock(t)
  BY <1>2, OwnerFree, OwnerFreeNext
<1> QED
  BY <1>1, <1>2

\* Every step of WordLock is a step of Mutex or leaves the owner alone.
LEMMA StepRefines == IInv /\ IInv' /\ [Next]_vars => [Abstract!Next]_Owner
<1> SUFFICES ASSUME IInv, IInv', [Next]_vars PROVE [Abstract!Next]_Owner
  OBVIOUS
<1>m. MutualExclusion /\ MutualExclusion' /\ TypeOK
  BY DEF IInv
<1> USE DEF Goto, HoldsLock, HoldsLockPC
<1>1. ASSUME NEW t \in Threads, LockFast(t) \/ LockSlowAcquire(t)
      PROVE  Abstract!Acquire(t)
  <2>1. \A u \in Threads : ~HoldsLock(u)
    BY <1>1 DEF LockFast, LockSlowAcquire, IInv, LoadedValues, BitsMeanOwners, Unlocked
  <2>2. HoldsLock(t)'
    BY <1>1, <1>m DEF LockFast, LockSlowAcquire, TypeOK
  <2> QED
    BY <1>m, <2>1, <2>2, OwnerFree, OwnerHoldsNext DEF Abstract!Acquire
<1>2. ASSUME NEW t \in Threads, UnlockFast(t) \/ UnlockSlowRelease(t) \/ UnlockSlowStore(t)
      PROVE  Abstract!Release(t)
  <2>1. HoldsLock(t)
    BY <1>2 DEF UnlockFast, UnlockSlowRelease, UnlockSlowStore
  <2>2. \A u \in Threads : ~HoldsLock(u)'
    <3>1. ~HoldsLock(t)'
      BY <1>2, <1>m DEF UnlockFast, UnlockSlowRelease, UnlockSlowStore, TypeOK
    <3>2. ASSUME NEW u \in Threads, u # t PROVE ~HoldsLock(u)'
      <4>1. ~HoldsLock(u)
        BY <2>1, <3>2, <1>m DEF MutualExclusion
      <4> QED
        BY <1>2, <1>m, <3>2, <4>1 DEF UnlockFast, UnlockSlowRelease, UnlockSlowStore, TypeOK
    <3> QED
      BY <3>1, <3>2
  <2> QED
    BY <1>m, <2>1, <2>2, OwnerHolds, OwnerFreeNext DEF Abstract!Release
<1>3. UNCHANGED vars => UNCHANGED Owner
  BY <1>m, OwnerStutters DEF vars
<1>4. ASSUME NEW t \in Threads, LockFastFails(t) PROVE UNCHANGED Owner
  BY <1>m, <1>4, OwnerStutters DEF LockFastFails, TypeOK
<1>5. ASSUME NEW t \in Threads, LockSlowLoad(t) PROVE UNCHANGED Owner
  BY <1>m, <1>5, OwnerStutters DEF LockSlowLoad, SpinOrEnqueue, TypeOK
<1>6. ASSUME NEW t \in Threads, LockSlowAcquireFails(t) PROVE UNCHANGED Owner
  BY <1>m, <1>6, OwnerStutters DEF LockSlowAcquireFails, SpinOrEnqueue, TypeOK
<1>7. ASSUME NEW t \in Threads, LockSlowReload(t) PROVE UNCHANGED Owner
  BY <1>m, <1>7, OwnerStutters DEF LockSlowReload, TypeOK
<1>8. ASSUME NEW t \in Threads, LockSlowLockQueue(t) PROVE UNCHANGED Owner
  BY <1>m, <1>8, OwnerStutters DEF LockSlowLockQueue, TypeOK
<1>9. ASSUME NEW t \in Threads, LockSlowLockQueueFails(t) PROVE UNCHANGED Owner
  BY <1>m, <1>9, OwnerStutters DEF LockSlowLockQueueFails, TypeOK
<1>10. ASSUME NEW t \in Threads, LockSlowLink(t) PROVE UNCHANGED Owner
  BY <1>m, <1>10, OwnerStutters DEF LockSlowLink, TypeOK
<1>11. ASSUME NEW t \in Threads, LockSlowRelease(t) PROVE UNCHANGED Owner
  BY <1>m, <1>11, OwnerStutters DEF LockSlowRelease, TypeOK
<1>12. ASSUME NEW t \in Threads, LockSlowStore(t) PROVE UNCHANGED Owner
  BY <1>m, <1>12, OwnerStutters DEF LockSlowStore, TypeOK
<1>13. ASSUME NEW t \in Threads, LockSlowPark(t) PROVE UNCHANGED Owner
  BY <1>m, <1>13, OwnerStutters DEF LockSlowPark, TypeOK
<1>14. ASSUME NEW t \in Threads, SpuriousWakeUp(t) PROVE UNCHANGED Owner
  BY <1>m, <1>14, OwnerStutters DEF SpuriousWakeUp, TypeOK
<1>15. ASSUME NEW t \in Threads, UnlockFastFails(t) PROVE UNCHANGED Owner
  BY <1>m, <1>15, OwnerStutters DEF UnlockFastFails, TypeOK
<1>16. ASSUME NEW t \in Threads, UnlockSlowLoad(t) PROVE UNCHANGED Owner
  BY <1>m, <1>16, OwnerStutters DEF UnlockSlowLoad, TypeOK
<1>17. ASSUME NEW t \in Threads, UnlockSlowLockQueue(t) PROVE UNCHANGED Owner
  BY <1>m, <1>17, OwnerStutters DEF UnlockSlowLockQueue, TypeOK
<1>18. ASSUME NEW t \in Threads, UnlockSlowFails(t) PROVE UNCHANGED Owner
  BY <1>m, <1>18, OwnerStutters DEF UnlockSlowFails, TypeOK
<1>19. ASSUME NEW t \in Threads, UnlockSlowDequeue(t) PROVE UNCHANGED Owner
  BY <1>m, <1>19, OwnerStutters DEF UnlockSlowDequeue, TypeOK
<1>20. ASSUME NEW t \in Threads, UnlockSlowClear(t) PROVE UNCHANGED Owner
  BY <1>m, <1>20, OwnerStutters DEF UnlockSlowClear, TypeOK
<1>21. ASSUME NEW t \in Threads, UnlockSlowUnpark(t) PROVE UNCHANGED Owner
  BY <1>m, <1>21, OwnerStutters DEF UnlockSlowUnpark, TypeOK
<1>22. ASSUME NEW t \in Threads, UnlockSlowNotify(t) PROVE UNCHANGED Owner
  BY <1>m, <1>22, OwnerStutters DEF UnlockSlowNotify, TypeOK
<1> QED
  BY <1>1, <1>2, <1>3, <1>4, <1>5, <1>6, <1>7, <1>8, <1>9, <1>10, <1>11, <1>12, <1>13, <1>14, <1>15, <1>16, <1>17, <1>18, <1>19, <1>20, <1>21, <1>22
     DEF Next, LockCall, Run, LockCAS, UnlockCAS, Abstract!Next

\* WordLock implements the abstract mutex for any set of threads.
THEOREM WordLockImplementsMutex == Spec => ImplementsMutex
<1>1. Init => Abstract!Init
  <2> SUFFICES ASSUME Init PROVE Owner = NoThread
    BY DEF Abstract!Init
  <2>1. \A t \in Threads : ~HoldsLock(t)
    BY DEF Init, HoldsLock, HoldsLockPC
  <2> QED
    BY <2>1, OwnerFree
<1> QED
  BY <1>1, IInvAlways, StepRefines, PTL DEF Spec, ImplementsMutex, Abstract!Spec

-----------------------------------------------------------------------------
(***************************************************************************)
(* The queue.  Whatever the threads are doing, the parked threads and the  *)
(* one that is about to park form a sequence q along nextInQueue; where    *)
(* its head is known depends on who holds the queue lock and how far that  *)
(* thread is.                                                              *)
(***************************************************************************)
Linking == {"lsRelease", "lsStore"}
Parked  == {"lsPark", "lsAsleep"}
Waking  == {"usStore", "usClear", "usUnpark"}

\* An unlocking thread took t off the queue and has not yet told it so.
Dequeued(t) == \E u \in Threads : pc[u] \in Waking /\ queueHead[u] = t

Waiting(t) == pc[t] \in Linking \cup Parked /\ shouldPark[t] /\ ~Dequeued(t)

QueueIs(q) ==
  /\ \A i, j \in 1..Len(q) : q[i] = q[j] => i = j
  /\ \A t \in Threads : Waiting(t) <=> \E i \in 1..Len(q) : q[i] = t
  /\ \A i \in 1..(Len(q) - 1) : nextInQueue[q[i]] = q[i + 1]
  /\ q # <<>> => nextInQueue[q[Len(q)]] = NoThread /\ queueTail[q[1]] = q[Len(q)]

FirstOf(q) == IF q = <<>> THEN NoThread ELSE q[1]

HeadIs(q) ==
  /\ \A t \in Threads : pc[t] \in Linking =>
       /\ q # <<>> /\ queueHead[t] = q[1]
       /\ word.head = IF q[1] = t THEN NoThread ELSE q[1]
  /\ \A t \in Threads : pc[t] = "usStore" => cur[t].head = FirstOf(q)
  /\ (\A t \in Threads : pc[t] \notin Linking \cup {"usStore"}) => word.head = FirstOf(q)

\* What the fields of t mean, and what t knows of the queue.
DataOK(t) ==
  /\ pc[t] = "lsLink" => cur[t].head = word.head
  /\ shouldPark[t] => pc[t] \in Linking \cup Parked
  /\ pc[t] \in Linking => shouldPark[t]
  /\ nextInQueue[t] # NoThread =>
       Waiting(t) \/ \E u \in Threads : pc[u] \in {"usStore", "usClear"} /\ queueHead[u] = t
  /\ pc[t] \in Waking =>
       /\ pc[queueHead[t]] \in Parked /\ shouldPark[queueHead[t]]
       /\ \A u \in Threads : pc[u] \in Waking /\ queueHead[u] = queueHead[t] => u = t

ThreadDataOK == \A t \in Threads : DataOK(t)

QueueInv == ThreadDataOK /\ \E q \in Seq(Threads) : QueueIs(q) /\ HeadIs(q)

-----------------------------------------------------------------------------
(***************************************************************************)
(* Induction over the natural numbers, for sets: a set of numbers that is  *)
(* not empty has a least element.                                          *)
(***************************************************************************)
LEMMA LeastNumber ==
  ASSUME NEW T \in SUBSET Nat, T # {}
  PROVE  \E m \in T : \A k \in T : m <= k
<1> DEFINE R == {ss \in Nat \X Nat : ss[1] < ss[2]}
<1>1. IsWellFoundedOn(R, Nat)
  BY NatLessThanWellFounded DEF OpToRel
<1>2. \A x, y \in Nat : <<y, x>> \in R <=> y < x
  OBVIOUS
<1> HIDE DEF R
<1>3. PICK x \in T : \A y \in T : <<y, x>> \notin R
  BY <1>1, WFMin
<1>4. x \in Nat /\ \A y \in T : y \in Nat /\ ~(y < x)
  BY <1>2, <1>3
<1> QED
  BY <1>4

LEMMA SetInduction ==
  ASSUME NEW S, 0 \in S, \A n \in Nat : n \in S => n + 1 \in S
  PROVE  Nat \subseteq S
<1> SUFFICES ASSUME NEW x \in Nat, x \notin S PROVE FALSE
  OBVIOUS
<1> DEFINE T == {n \in Nat : n \notin S}
<1>1. PICK m \in T : \A k \in T : m <= k
  BY LeastNumber
<1>2. m - 1 \in Nat /\ m - 1 \notin T
  BY <1>1
<1> QED
  BY <1>2

(***************************************************************************)
(* QueueNode, which follows the links from the head, exists because the    *)
(* queue does, and visits the queue in its order.                          *)
(***************************************************************************)
LEMMA QueueNodeFollows ==
  ASSUME TypeOK, NEW q \in Seq(Threads), QueueIs(q), word.head = FirstOf(q)
  PROVE  /\ \A i \in 0..(Len(q) - 1) : QueueNode[i] = q[i + 1]
         /\ QueueNode[Len(q)] = NoThread
<1> DEFINE n == Len(q)
           Follows(f) == f = [k \in Nat |-> IF k = 0 THEN word.head
                                ELSE IF f[k - 1] = NoThread THEN NoThread ELSE nextInQueue[f[k - 1]]]
           g == [k \in Nat |-> IF k < n THEN q[k + 1] ELSE NoThread]
<1>1. n \in Nat /\ n = Len(q) /\ (n = 0 <=> q = <<>>) /\ \A i \in 1..n : q[i] \in Threads /\ q[i] # NoThread
  BY ConstantsAssumption
<1> HIDE DEF n
<1>2. ASSUME NEW k \in Nat
      PROVE  g[k] = IF k = 0 THEN word.head
                    ELSE IF g[k - 1] = NoThread THEN NoThread ELSE nextInQueue[g[k - 1]]
  <2>1. CASE k = 0
    <3>1. CASE n = 0
      BY <1>1, <2>1, <3>1 DEF FirstOf
    <3>2. CASE n # 0
      BY <1>1, <2>1, <3>2 DEF FirstOf
    <3> QED BY <3>1, <3>2
  <2>2. CASE k # 0 /\ k < n
    <3>1. k - 1 \in Nat /\ k - 1 < n /\ k \in 1..(n - 1) /\ k \in 1..n
      BY <1>1, <2>2
    <3>2. g[k] = q[k + 1] /\ g[k - 1] = q[k]
      BY <2>2, <3>1
    <3>3. nextInQueue[q[k]] = q[k + 1]
      BY <1>1, <3>1 DEF QueueIs
    <3> QED BY <1>1, <2>2, <3>1, <3>2, <3>3
  <2>3. CASE k # 0 /\ k = n
    <3>1. k - 1 \in Nat /\ k - 1 < n /\ k \in 1..n /\ ~(k < n)
      BY <1>1, <2>3
    <3>2. g[k] = NoThread /\ g[k - 1] = q[n]
      BY <2>3, <3>1
    <3>3. nextInQueue[q[n]] = NoThread
      BY <1>1, <2>3 DEF QueueIs
    <3> QED BY <2>3, <3>2, <3>3
  <2>4. CASE k # 0 /\ n < k
    <3>1. k - 1 \in Nat /\ ~(k - 1 < n) /\ ~(k < n)
      BY <1>1, <2>4
    <3> QED BY <2>4, <3>1
  <2> QED BY <1>1, <2>1, <2>2, <2>3, <2>4
<1>3. Follows(g)
  BY <1>2
<1>4. QueueNode = CHOOSE f : Follows(f)
  BY DEF QueueNode
<1>5. Follows(QueueNode)
  BY <1>3, <1>4
<1>6. \A k \in Nat : QueueNode[k] = IF k = 0 THEN word.head
        ELSE IF QueueNode[k - 1] = NoThread THEN NoThread ELSE nextInQueue[QueueNode[k - 1]]
  BY <1>5
<1> DEFINE S == {k \in Nat : QueueNode[k] = g[k]}
<1> HIDE DEF g
<1>7. 0 \in S
  BY <1>2, <1>6
<1>8. ASSUME NEW k \in Nat, k \in S PROVE k + 1 \in S
  <2>1. k + 1 \in Nat /\ k + 1 # 0 /\ (k + 1) - 1 = k
    OBVIOUS
  <2> QED BY <1>2, <1>6, <1>8, <2>1
<1>9. Nat \subseteq S
  <2> HIDE DEF S
  <2> QED BY <1>7, <1>8, SetInduction
<1>10. \A k \in Nat : QueueNode[k] = g[k]
  BY <1>9
<1>11. /\ \A i \in 0..(n - 1) : i \in Nat /\ g[i] = q[i + 1]
       /\ g[n] = NoThread
  BY <1>1 DEF g
<1> QED
  BY <1>1, <1>10, <1>11

-----------------------------------------------------------------------------
\* A step that moves no thread into or out of the queue.
LEMMA QueueUntouched ==
  ASSUME IInv, QueueInv, UNCHANGED threadData, word'.head = word.head,
         \A u \in Threads :
           /\ pc'[u] \in Linking <=> pc[u] \in Linking
           /\ shouldPark[u] => (pc'[u] \in Parked <=> pc[u] \in Parked)
           /\ pc'[u] = "usStore" <=> pc[u] = "usStore"
           /\ pc'[u] = "usClear" <=> pc[u] = "usClear"
           /\ pc'[u] = "usUnpark" <=> pc[u] = "usUnpark"
           /\ pc[u] \in Linking \cup Waking => queueHead'[u] = queueHead[u]
           /\ pc[u] = "usStore" => cur'[u] = cur[u]
           /\ pc'[u] = "lsLink" => cur'[u].head = word.head
  PROVE  QueueInv'
<1> PICK q \in Seq(Threads) : QueueIs(q) /\ HeadIs(q)
  BY DEF QueueInv
<1>1. shouldPark' = shouldPark /\ nextInQueue' = nextInQueue /\ queueTail' = queueTail
  BY DEF threadData
<1>2. \A t \in Threads : Dequeued(t)' <=> Dequeued(t)
  BY DEF Dequeued, Waking
<1>3. \A t \in Threads : Waiting(t)' <=> Waiting(t)
  BY <1>1, <1>2 DEF Waiting
<1>4. QueueIs(q)'
  BY <1>1, <1>3 DEF QueueIs
<1>5. HeadIs(q)'
  BY DEF HeadIs, Waking, FirstOf
<1>6. ThreadDataOK'
  <2> SUFFICES ASSUME NEW t \in Threads PROVE DataOK(t)'
    BY DEF ThreadDataOK
  <2>1. /\ pc'[t] = "lsLink" => cur'[t].head = word'.head
        /\ shouldPark'[t] => pc'[t] \in Linking \cup Parked
        /\ pc'[t] \in Linking => shouldPark'[t]
    BY <1>1 DEF QueueInv, ThreadDataOK, DataOK
  <2>2. nextInQueue'[t] # NoThread =>
          Waiting(t)' \/ \E u \in Threads : pc'[u] \in {"usStore", "usClear"} /\ queueHead'[u] = t
    BY <1>1, <1>3 DEF QueueInv, ThreadDataOK, DataOK, Waking
  <2>3. ASSUME pc'[t] \in Waking
        PROVE  /\ pc'[queueHead'[t]] \in Parked /\ shouldPark'[queueHead'[t]]
               /\ \A u \in Threads : pc'[u] \in Waking /\ queueHead'[u] = queueHead'[t] => u = t
    <3>1. \A u \in Threads : pc'[u] \in Waking => pc[u] \in Waking /\ queueHead'[u] = queueHead[u]
      BY DEF Waking
    <3>2. pc[queueHead[t]] \in Parked /\ shouldPark[queueHead[t]] /\ queueHead[t] \in Threads
      <4>1. pc[queueHead[t]] \in Parked /\ shouldPark[queueHead[t]]
        BY <2>3, <3>1 DEF QueueInv, ThreadDataOK, DataOK
      <4> QED BY <4>1, <2>3, <3>1 DEF IInv, LoadedValues, Waking
    <3> QED BY <1>1, <2>3, <3>1, <3>2 DEF QueueInv, ThreadDataOK, DataOK
  <2> QED BY <2>1, <2>2, <2>3 DEF DataOK
<1> QED
  BY <1>4, <1>5, <1>6 DEF QueueInv

\* What the owner of the queue lock knows of the other threads.
LEMMA QueueOwnerAlone ==
  ASSUME IInv, NEW t \in Threads, HoldsQueue(t), NEW u \in Threads, u # t
  PROVE  pc[u] \notin HoldsQueuePC
  BY DEF IInv, QueueExclusion, HoldsQueue

\* lockSlow() puts the thread at the tail.
LEMMA LockSlowLinkQueue ==
  ASSUME IInv, IInv', QueueInv, NEW t \in Threads, LockSlowLink(t)
  PROVE  QueueInv'
<1> PICK q \in Seq(Threads) : QueueIs(q) /\ HeadIs(q)
  BY DEF QueueInv
<1> DEFINE p == Append(q, t)
           n == Len(q)
<1>1. /\ pc[t] = "lsLink" /\ pc' = [pc EXCEPT ![t] = "lsRelease"]
      /\ shouldPark' = [shouldPark EXCEPT ![t] = TRUE]
      /\ word' = word /\ cur' = cur
  BY DEF LockSlowLink, Goto
<1>2. /\ pc \in [Threads -> PC] /\ shouldPark \in [Threads -> BOOLEAN]
      /\ nextInQueue \in [Threads -> Pointer] /\ queueTail \in [Threads -> Pointer]
      /\ queueHead \in [Threads -> Pointer]
  BY DEF IInv, TypeOK
<1>3. \A u \in Threads : u # t => pc[u] \notin HoldsQueuePC
  BY <1>1, QueueOwnerAlone DEF HoldsQueue, HoldsQueuePC
<1>4. pc'[t] = "lsRelease" /\ \A u \in Threads : u # t => pc'[u] = pc[u] /\ shouldPark'[u] = shouldPark[u]
  BY <1>1, <1>2
<1>5. cur[t].head = word.head /\ word.head = FirstOf(q)
  <2>1. cur[t].head = word.head
    BY <1>1 DEF QueueInv, ThreadDataOK, DataOK
  <2>2. \A u \in Threads : pc[u] \notin Linking \cup {"usStore"}
    BY <1>1, <1>3 DEF Linking, HoldsQueuePC
  <2> QED BY <2>1, <2>2 DEF HeadIs
<1>6. /\ n \in Nat /\ n = Len(q) /\ (n = 0 <=> q = <<>>) /\ \A i \in 1..n : q[i] \in Threads
      /\ p \in Seq(Threads) /\ Len(p) = n + 1 /\ p # <<>> /\ p[n + 1] = t /\ \A i \in 1..n : p[i] = q[i]
  OBVIOUS
<1> HIDE DEF p, n
<1>7. ~Waiting(t) /\ nextInQueue[t] = NoThread /\ ~Dequeued(t) /\ \A i \in 1..n : q[i] # t
  <2>1. ~Waiting(t)
    BY <1>1 DEF Waiting, Linking, Parked
  <2>2. ~Dequeued(t)
    BY <1>1 DEF QueueInv, ThreadDataOK, DataOK, Dequeued, Parked
  <2>3. nextInQueue[t] = NoThread
    BY <2>1, <2>2 DEF QueueInv, ThreadDataOK, DataOK, Dequeued, Waking
  <2>4. \A i \in 1..n : q[i] # t
    BY <2>1, <1>6 DEF QueueIs
  <2> QED BY <2>1, <2>2, <2>3, <2>4
<1>8. /\ queueHead'[t] = p[1] /\ \A u \in Threads : u # t => queueHead'[u] = queueHead[u]
      /\ queueTail'[p[1]] = t
      /\ nextInQueue'[t] = NoThread
      /\ \A i \in 1..n : nextInQueue'[p[i]] = p[i + 1]
      /\ \A u \in Threads : nextInQueue[u] = NoThread /\ (\A i \in 1..n : q[i] # u) => nextInQueue'[u] = NoThread
  <2>1. CASE n = 0
    <3>1. cur[t].head = NoThread /\ p[1] = t
      BY <1>5, <1>6, <2>1 DEF FirstOf
    <3>2. /\ queueTail' = [queueTail EXCEPT ![t] = t] /\ queueHead' = [queueHead EXCEPT ![t] = t]
          /\ nextInQueue' = nextInQueue
      BY <3>1 DEF LockSlowLink
    <3> QED BY <1>2, <1>7, <2>1, <3>1, <3>2
  <2>2. CASE n # 0
    <3>1. cur[t].head = q[1] /\ q[1] \in Threads /\ q[1] # NoThread /\ p[1] = q[1] /\ q[n] \in Threads /\ p[n] = q[n]
      BY <1>5, <1>6, <2>2, ConstantsAssumption DEF FirstOf
    <3>2. queueTail[q[1]] = q[n]
      BY <1>6, <2>2 DEF QueueIs
    <3>3. /\ queueTail' = [queueTail EXCEPT ![q[1]] = t] /\ queueHead' = [queueHead EXCEPT ![t] = q[1]]
          /\ nextInQueue' = [nextInQueue EXCEPT ![q[n]] = t]
      BY <3>1, <3>2 DEF LockSlowLink
    <3>4. \A i \in 1..n : nextInQueue'[p[i]] = p[i + 1]
      <4> SUFFICES ASSUME NEW i \in 1..n PROVE nextInQueue'[p[i]] = p[i + 1]
        OBVIOUS
      <4>1. CASE i = n
        BY <1>2, <1>6, <3>1, <3>3, <4>1
      <4>2. CASE i # n
        <5>1. i \in 1..(n - 1) /\ i + 1 \in 1..n /\ n \in 1..n
          BY <1>6, <4>2
        <5>2. nextInQueue[q[i]] = q[i + 1] /\ q[i] # q[n]
          BY <1>6, <4>2, <5>1 DEF QueueIs
        <5> QED BY <1>2, <1>6, <3>3, <5>1, <5>2
      <4> QED BY <4>1, <4>2
    <3>5. n \in 1..n /\ q[n] # t
      BY <1>6, <1>7, <2>2
    <3> QED BY <1>2, <1>6, <1>7, <3>1, <3>3, <3>4, <3>5
  <2> QED BY <2>1, <2>2
<1>9. \A u \in Threads : (Dequeued(u)' <=> Dequeued(u)) /\ (Waiting(u)' <=> Waiting(u) \/ u = t)
  <2>1. \A u \in Threads : Dequeued(u)' <=> Dequeued(u)
    BY <1>1, <1>4, <1>8 DEF Dequeued, Waking
  <2>2. Waiting(t)'
    BY <1>1, <1>2, <1>4, <1>7, <2>1 DEF Waiting, Linking
  <2>3. \A u \in Threads : u # t => (Waiting(u)' <=> Waiting(u))
    BY <1>4, <2>1 DEF Waiting
  <2> QED BY <2>1, <2>2, <2>3
<1>10. QueueIs(p)'
  <2>1. \A i, j \in 1..Len(p) : p[i] = p[j] => i = j
    <3>1. \A i \in 1..(n + 1) : i \in 1..n \/ i = n + 1
      BY <1>6
    <3>2. \A i, j \in 1..n : q[i] = q[j] => i = j
      BY <1>6 DEF QueueIs
    <3> QED BY <1>6, <1>7, <3>1, <3>2
  <2>2. ASSUME NEW u \in Threads PROVE Waiting(u)' <=> \E i \in 1..Len(p) : p[i] = u
    <3>1. 1..(n + 1) = 1..n \cup {n + 1}
      BY <1>6
    <3>2. Waiting(u) <=> \E i \in 1..n : q[i] = u
      BY <1>6 DEF QueueIs
    <3> QED BY <1>6, <1>9, <3>1, <3>2
  <2>3. \A i \in 1..(Len(p) - 1) : nextInQueue'[p[i]] = p[i + 1]
    BY <1>6, <1>8
  <2>4. nextInQueue'[p[Len(p)]] = NoThread /\ queueTail'[p[1]] = p[Len(p)]
    BY <1>6, <1>8
  <2> QED BY <2>1, <2>2, <2>3, <2>4 DEF QueueIs
<1>11. HeadIs(p)'
  <2>1. \A u \in Threads : u # t => pc'[u] \notin Linking \cup {"usStore"}
    BY <1>3, <1>4 DEF Linking, HoldsQueuePC
  <2>2. word'.head = IF p[1] = t THEN NoThread ELSE p[1]
    <3>1. CASE n = 0
      BY <1>1, <1>5, <1>6, <3>1 DEF FirstOf
    <3>2. CASE n # 0
      BY <1>1, <1>5, <1>6, <1>7, <3>2 DEF FirstOf
    <3> QED BY <3>1, <3>2
  <2> QED BY <1>4, <1>6, <1>8, <2>1, <2>2 DEF HeadIs, Linking
<1>12. ThreadDataOK'
  <2> SUFFICES ASSUME NEW u \in Threads PROVE DataOK(u)'
    BY DEF ThreadDataOK
  <2>1. pc'[u] = "lsLink" => cur'[u].head = word'.head
    BY <1>1, <1>4 DEF QueueInv, ThreadDataOK, DataOK
  <2>2. shouldPark'[u] => pc'[u] \in Linking \cup Parked
    BY <1>4 DEF QueueInv, ThreadDataOK, DataOK, Linking
  <2>3. pc'[u] \in Linking => shouldPark'[u]
    BY <1>1, <1>2, <1>4 DEF QueueInv, ThreadDataOK, DataOK
  <2>4. ASSUME nextInQueue'[u] # NoThread
        PROVE  Waiting(u)' \/ \E v \in Threads : pc'[v] \in {"usStore", "usClear"} /\ queueHead'[v] = u
    <3>1. CASE \E i \in 1..n : q[i] = u
      BY <1>6, <1>9, <3>1 DEF QueueIs
    <3>2. CASE nextInQueue[u] # NoThread
      <4>1. CASE Waiting(u)
        BY <1>9, <4>1
      <4>2. ASSUME NEW v \in Threads, pc[v] \in {"usStore", "usClear"}, queueHead[v] = u
            PROVE  pc'[v] \in {"usStore", "usClear"} /\ queueHead'[v] = u
        BY <1>1, <1>4, <1>8, <4>2
      <4> QED BY <3>2, <4>1, <4>2 DEF QueueInv, ThreadDataOK, DataOK
    <3> QED BY <1>8, <2>4, <3>1, <3>2
  <2>5. ASSUME pc'[u] \in Waking
        PROVE  /\ pc'[queueHead'[u]] \in Parked /\ shouldPark'[queueHead'[u]]
               /\ \A v \in Threads : pc'[v] \in Waking /\ queueHead'[v] = queueHead'[u] => v = u
    <3>1. \A v \in Threads : pc'[v] \in Waking => v # t /\ pc[v] \in Waking /\ queueHead'[v] = queueHead[v]
      BY <1>4, <1>8 DEF Waking
    <3>2. queueHead[u] \in Threads
      BY <2>5, <3>1 DEF IInv, LoadedValues, Waking
    <3>3. pc[queueHead[u]] \in Parked /\ shouldPark[queueHead[u]]
      BY <2>5, <3>1 DEF QueueInv, ThreadDataOK, DataOK
    <3>4. queueHead[u] # t
      BY <1>1, <3>3 DEF Parked
    <3> QED BY <1>4, <2>5, <3>1, <3>2, <3>3, <3>4 DEF QueueInv, ThreadDataOK, DataOK
  <2> QED BY <2>1, <2>2, <2>3, <2>4, <2>5 DEF DataOK
<1> QED
  BY <1>6, <1>10, <1>11, <1>12 DEF QueueInv

\* unlockSlow() takes the head off and hands its duties to the next thread.
LEMMA UnlockSlowDequeueQueue ==
  ASSUME IInv, IInv', QueueInv, NEW t \in Threads, UnlockSlowDequeue(t)
  PROVE  QueueInv'
<1> PICK q \in Seq(Threads) : QueueIs(q) /\ HeadIs(q)
  BY DEF QueueInv
<1> DEFINE p == Tail(q)
           n == Len(q)
           h == q[1]
<1>1. /\ pc[t] = "usDequeue" /\ pc' = [pc EXCEPT ![t] = "usStore"]
      /\ word' = word /\ shouldPark' = shouldPark /\ nextInQueue' = nextInQueue
  BY DEF UnlockSlowDequeue, Goto
<1>2. /\ pc \in [Threads -> PC] /\ shouldPark \in [Threads -> BOOLEAN]
      /\ nextInQueue \in [Threads -> Pointer] /\ queueTail \in [Threads -> Pointer]
      /\ queueHead \in [Threads -> Pointer] /\ cur \in [Threads -> Word]
  BY DEF IInv, TypeOK
<1>3. \A u \in Threads : u # t => pc[u] \notin HoldsQueuePC
  BY <1>1, QueueOwnerAlone DEF HoldsQueue, HoldsQueuePC
<1>4. pc'[t] = "usStore" /\ \A u \in Threads : u # t => pc'[u] = pc[u]
  BY <1>1, <1>2
<1>5. word.head = FirstOf(q) /\ q # <<>>
  <2>1. \A u \in Threads : pc[u] \notin Linking \cup {"usStore"}
    BY <1>1, <1>3 DEF Linking, HoldsQueuePC
  <2>2. word.head # NoThread
    BY <1>1 DEF IInv, LoadedValues
  <2> QED BY <2>1, <2>2 DEF HeadIs, FirstOf
<1>6. /\ n \in Nat /\ n = Len(q) /\ n # 0 /\ \A i \in 1..n : q[i] \in Threads
      /\ p \in Seq(Threads) /\ Len(p) = n - 1 /\ (p = <<>> <=> n = 1) /\ \A i \in 1..(n - 1) : p[i] = q[i + 1]
  <2>1. n \in Nat /\ n # 0 /\ \A i \in 1..n : q[i] \in Threads
    BY <1>5
  <2>2. p \in Seq(Threads) /\ Len(p) = n - 1
    BY <1>5
  <2>3. \A i \in 1..(n - 1) : p[i] = q[i + 1]
    BY <1>5
  <2>4. p = <<>> <=> Len(p) = 0
    BY <2>2
  <2>5. n - 1 = 0 <=> n = 1
    BY <2>1
  <2> QED BY <2>1, <2>2, <2>3, <2>4, <2>5
<1>7. h \in Threads /\ h = q[1] /\ word.head = h /\ 1 \in 1..n
  BY <1>5, <1>6 DEF FirstOf
<1> HIDE DEF p, n, h
<1>8. Waiting(h) /\ h # t /\ pc[h] \in Parked /\ shouldPark[h] /\ ~Dequeued(h)
  <2>1. Waiting(h)
    BY <1>6, <1>7 DEF QueueIs
  <2>2. h # t
    BY <1>1, <2>1 DEF Waiting, Linking, Parked
  <2>3. pc[h] \in Parked
    BY <1>3, <1>7, <2>1, <2>2 DEF Waiting, Linking, HoldsQueuePC
  <2> QED BY <2>1, <2>2, <2>3 DEF Waiting
<1>9. /\ queueHead'[t] = h /\ \A u \in Threads : u # t => queueHead'[u] = queueHead[u]
      /\ \A u \in Threads : u # t => cur'[u] = cur[u]
      /\ cur'[t].head = nextInQueue[h]
  <2>1. /\ queueHead' = [queueHead EXCEPT ![t] = h]
        /\ cur' = [cur EXCEPT ![t] = [Unlocked EXCEPT !.head = nextInQueue[h]]]
    BY <1>7 DEF UnlockSlowDequeue
  <2> QED BY <1>2, <2>1 DEF Unlocked
<1>10. nextInQueue[h] = FirstOf(p) /\ (p # <<>> => queueTail'[p[1]] = p[Len(p)])
  <2>1. CASE n = 1
    <3>1. nextInQueue[q[n]] = NoThread
      BY <1>5, <1>6 DEF QueueIs
    <3> QED BY <1>6, <1>7, <2>1, <3>1 DEF FirstOf
  <2>2. CASE n # 1
    <3>1. 1 \in 1..(n - 1) /\ n - 1 \in 1..(n - 1) /\ 2 \in 1..n
      BY <1>6, <2>2
    <3>2. p[1] = q[2] /\ p[n - 1] = q[n] /\ q[2] \in Threads
      BY <1>6, <3>1
    <3>3. nextInQueue[h] = q[2] /\ queueTail[h] = q[n]
      BY <1>5, <1>6, <1>7, <3>1 DEF QueueIs
    <3>4. queueTail' = [queueTail EXCEPT ![q[2]] = queueTail[h]]
      BY <1>7, <3>2, <3>3, ConstantsAssumption DEF UnlockSlowDequeue
    <3> QED BY <1>2, <1>6, <2>2, <3>2, <3>3, <3>4 DEF FirstOf
  <2> QED BY <2>1, <2>2
<1>11. \A u \in Threads : (Dequeued(u)' <=> Dequeued(u) \/ u = h) /\ (Waiting(u)' <=> Waiting(u) /\ u # h)
  <2>1. \A u \in Threads : Dequeued(u)' <=> Dequeued(u) \/ u = h
    BY <1>1, <1>4, <1>9 DEF Dequeued, Waking
  <2>2. \A u \in Threads : Waiting(u)' <=> Waiting(u) /\ u # h
    BY <1>1, <1>4, <2>1 DEF Waiting, Linking, Parked
  <2> QED BY <2>1, <2>2
<1>12. QueueIs(p)'
  <2>1. \A i, j \in 1..n : q[i] = q[j] => i = j
    BY <1>6 DEF QueueIs
  <2>2. \A i, j \in 1..Len(p) : p[i] = p[j] => i = j
    <3>1. \A i \in 1..(n - 1) : i + 1 \in 1..n
      BY <1>6
    <3> QED BY <1>6, <2>1, <3>1
  <2>3. ASSUME NEW u \in Threads PROVE Waiting(u)' <=> \E i \in 1..Len(p) : p[i] = u
    <3>1. Waiting(u) <=> \E i \in 1..n : q[i] = u
      BY <1>6 DEF QueueIs
    <3>2. \A i \in 1..(n - 1) : i + 1 \in 1..n /\ i + 1 # 1
      BY <1>6
    <3>3. \A i \in 1..n : i # 1 => i - 1 \in 1..(n - 1) /\ (i - 1) + 1 = i
      BY <1>6
    <3>4. (\E i \in 1..(n - 1) : p[i] = u) => \E i \in 1..n : q[i] = u /\ i # 1
      BY <1>6, <3>2
    <3>5. (\E i \in 1..n : q[i] = u /\ i # 1) => \E i \in 1..(n - 1) : p[i] = u
      BY <1>6, <3>3
    <3>6. (\E i \in 1..n : q[i] = u /\ i # 1) <=> (\E i \in 1..n : q[i] = u) /\ u # h
      BY <1>7, <2>1
    <3> QED BY <1>6, <1>11, <3>1, <3>4, <3>5, <3>6
  <2>4. \A i \in 1..(Len(p) - 1) : nextInQueue'[p[i]] = p[i + 1]
    <3> SUFFICES ASSUME NEW i \in 1..(n - 2) PROVE nextInQueue[p[i]] = p[i + 1]
      BY <1>1, <1>6
    <3>1. i \in 1..(n - 1) /\ i + 1 \in 1..(n - 1)
      BY <1>6
    <3>2. nextInQueue[q[i + 1]] = q[(i + 1) + 1]
      BY <1>6, <3>1 DEF QueueIs
    <3> QED BY <1>6, <3>1, <3>2
  <2>5. ASSUME p # <<>> PROVE nextInQueue'[p[Len(p)]] = NoThread /\ queueTail'[p[1]] = p[Len(p)]
    <3>1. n - 1 \in 1..(n - 1) /\ (n - 1) + 1 = n
      BY <1>6, <2>5
    <3>2. p[n - 1] = q[n]
      BY <1>6, <3>1
    <3>3. nextInQueue[q[n]] = NoThread
      BY <1>5, <1>6 DEF QueueIs
    <3> QED BY <1>1, <1>6, <1>10, <2>5, <3>2, <3>3
  <2> QED BY <2>2, <2>3, <2>4, <2>5 DEF QueueIs
<1>13. HeadIs(p)'
  <2>1. \A u \in Threads : u # t => pc'[u] \notin Linking \cup {"usStore"}
    BY <1>3, <1>4 DEF Linking, HoldsQueuePC
  <2> QED BY <1>4, <1>9, <1>10, <2>1 DEF HeadIs, Linking, FirstOf
<1>14. ThreadDataOK'
  <2> SUFFICES ASSUME NEW u \in Threads PROVE DataOK(u)'
    BY DEF ThreadDataOK
  <2>1. /\ pc'[u] = "lsLink" => cur'[u].head = word'.head
        /\ shouldPark'[u] => pc'[u] \in Linking \cup Parked
        /\ pc'[u] \in Linking => shouldPark'[u]
    BY <1>1, <1>4, <1>9 DEF QueueInv, ThreadDataOK, DataOK, Linking, Parked
  <2>2. ASSUME nextInQueue'[u] # NoThread
        PROVE  Waiting(u)' \/ \E v \in Threads : pc'[v] \in {"usStore", "usClear"} /\ queueHead'[v] = u
    <3>1. CASE u = h
      BY <1>4, <1>9, <3>1
    <3>2. CASE u # h /\ Waiting(u)
      BY <1>11, <3>2
    <3>3. CASE ~Waiting(u)
      <4>1. PICK v \in Threads : pc[v] \in {"usStore", "usClear"} /\ queueHead[v] = u
        BY <1>1, <2>2, <3>3 DEF QueueInv, ThreadDataOK, DataOK
      <4> QED BY <1>1, <1>4, <1>9, <4>1
    <3> QED BY <3>1, <3>2, <3>3
  <2>3. ASSUME pc'[u] \in Waking
        PROVE  /\ pc'[queueHead'[u]] \in Parked /\ shouldPark'[queueHead'[u]]
               /\ \A v \in Threads : pc'[v] \in Waking /\ queueHead'[v] = queueHead'[u] => v = u
    <3>1. \A v \in Threads : v # t /\ pc'[v] \in Waking =>
            pc[v] \in Waking /\ queueHead'[v] = queueHead[v] /\ queueHead[v] # h
      BY <1>4, <1>8, <1>9 DEF Dequeued
    <3>2. CASE u = t
      BY <1>1, <1>4, <1>8, <1>9, <3>1, <3>2
    <3>3. CASE u # t
      <4>1. queueHead[u] \in Threads
        BY <2>3, <3>1, <3>3 DEF IInv, LoadedValues, Waking
      <4>2. pc[queueHead[u]] \in Parked /\ shouldPark[queueHead[u]]
        BY <2>3, <3>1, <3>3 DEF QueueInv, ThreadDataOK, DataOK
      <4>3. queueHead[u] # t
        BY <1>1, <4>2 DEF Parked
      <4>4. \A v \in Threads : pc'[v] \in Waking /\ queueHead'[v] = queueHead'[u] => v = u
        BY <1>9, <2>3, <3>1, <3>3 DEF QueueInv, ThreadDataOK, DataOK
      <4> QED BY <1>1, <1>4, <1>9, <3>3, <4>1, <4>2, <4>3, <4>4
    <3> QED BY <3>2, <3>3
  <2> QED BY <2>1, <2>2, <2>3 DEF DataOK
<1> QED
  BY <1>6, <1>12, <1>13, <1>14 DEF QueueInv

\* lockSlow() releases the queue lock; the word knows the head again.
LEMMA LockSlowStoreQueue ==
  ASSUME IInv, IInv', QueueInv, NEW t \in Threads, LockSlowStore(t)
  PROVE  QueueInv'
<1> PICK q \in Seq(Threads) : QueueIs(q) /\ HeadIs(q)
  BY DEF QueueInv
<1>1. /\ pc[t] = "lsStore" /\ pc' = [pc EXCEPT ![t] = "lsPark"]
      /\ shouldPark' = shouldPark /\ nextInQueue' = nextInQueue /\ queueTail' = queueTail /\ cur' = cur
      /\ queueHead' = [queueHead EXCEPT ![t] = NoThread]
      /\ word' = [cur[t] EXCEPT !.queueLocked = FALSE, !.head = IF queueHead[t] = t THEN t ELSE @]
  BY DEF LockSlowStore, Goto, threadData
<1>2. /\ pc \in [Threads -> PC] /\ shouldPark \in [Threads -> BOOLEAN]
      /\ queueHead \in [Threads -> Pointer] /\ cur \in [Threads -> Word]
  BY DEF IInv, TypeOK
<1>3. \A u \in Threads : u # t => pc[u] \notin HoldsQueuePC
  BY <1>1, QueueOwnerAlone DEF HoldsQueue, HoldsQueuePC
<1>4. /\ pc'[t] = "lsPark"
      /\ \A u \in Threads : u # t => pc'[u] = pc[u] /\ queueHead'[u] = queueHead[u]
  BY <1>1, <1>2
<1>5. \A u \in Threads : pc'[u] \notin Linking \cup {"usStore"}
  BY <1>3, <1>4 DEF Linking, HoldsQueuePC
<1>6. q # <<>> /\ word'.head = q[1]
  <2>1. /\ q # <<>> /\ queueHead[t] = q[1] /\ word.head = IF q[1] = t THEN NoThread ELSE q[1]
    BY <1>1 DEF HeadIs, Linking
  <2>2. word = cur[t]
    BY <1>1 DEF IInv, NoLostUpdate
  <2>3. word'.head = IF queueHead[t] = t THEN t ELSE cur[t].head
    BY <1>1, <1>2 DEF Word
  <2> QED BY <2>1, <2>2, <2>3
<1>7. \A u \in Threads : pc'[u] \in Waking <=> pc[u] \in Waking
  BY <1>1, <1>4 DEF Waking
<1>8. \A u \in Threads : (Dequeued(u)' <=> Dequeued(u)) /\ (Waiting(u)' <=> Waiting(u))
  <2>1. \A u \in Threads : Dequeued(u)' <=> Dequeued(u)
    BY <1>1, <1>4 DEF Dequeued, Waking
  <2> QED BY <1>1, <1>4, <2>1 DEF Waiting, Linking, Parked
<1>9. QueueIs(q)'
  BY <1>1, <1>8 DEF QueueIs
<1>10. HeadIs(q)'
  BY <1>5, <1>6 DEF HeadIs, FirstOf
<1>11. ThreadDataOK'
  <2> SUFFICES ASSUME NEW u \in Threads PROVE DataOK(u)'
    BY DEF ThreadDataOK
  <2>1. /\ pc'[u] = "lsLink" => cur'[u].head = word'.head
        /\ shouldPark'[u] => pc'[u] \in Linking \cup Parked
        /\ pc'[u] \in Linking => shouldPark'[u]
    <3>1. pc'[u] # "lsLink"
      BY <1>3, <1>4 DEF HoldsQueuePC
    <3>2. CASE u = t
      BY <1>4, <3>1, <3>2 DEF Parked, Linking
    <3>3. CASE u # t
      BY <1>1, <1>4, <3>1, <3>3 DEF QueueInv, ThreadDataOK, DataOK
    <3> QED BY <3>2, <3>3
  <2>2. nextInQueue'[u] # NoThread =>
          Waiting(u)' \/ \E v \in Threads : pc'[v] \in {"usStore", "usClear"} /\ queueHead'[v] = u
    BY <1>1, <1>4, <1>8 DEF QueueInv, ThreadDataOK, DataOK
  <2>3. ASSUME pc'[u] \in Waking
        PROVE  /\ pc'[queueHead'[u]] \in Parked /\ shouldPark'[queueHead'[u]]
               /\ \A v \in Threads : pc'[v] \in Waking /\ queueHead'[v] = queueHead'[u] => v = u
    <3>1. \A v \in Threads : pc'[v] \in Waking => pc[v] \in Waking /\ queueHead'[v] = queueHead[v]
      BY <1>4, <1>7 DEF Waking
    <3>2. queueHead[u] \in Threads
      BY <2>3, <3>1 DEF IInv, LoadedValues, Waking
    <3>3. pc[queueHead[u]] \in Parked /\ shouldPark[queueHead[u]]
      BY <2>3, <3>1 DEF QueueInv, ThreadDataOK, DataOK
    <3>4. pc'[queueHead[u]] \in Parked
      BY <1>4, <3>2, <3>3 DEF Parked
    <3> QED BY <1>1, <2>3, <3>1, <3>2, <3>3, <3>4 DEF QueueInv, ThreadDataOK, DataOK
  <2> QED BY <2>1, <2>2, <2>3 DEF DataOK
<1> QED
  BY <1>9, <1>10, <1>11 DEF QueueInv

\* unlockSlow() installs the new head.
LEMMA UnlockSlowStoreQueue ==
  ASSUME IInv, IInv', QueueInv, NEW t \in Threads, UnlockSlowStore(t)
  PROVE  QueueInv'
<1> PICK q \in Seq(Threads) : QueueIs(q) /\ HeadIs(q)
  BY DEF QueueInv
<1>1. /\ pc[t] = "usStore" /\ pc' = [pc EXCEPT ![t] = "usClear"]
      /\ shouldPark' = shouldPark /\ nextInQueue' = nextInQueue /\ queueTail' = queueTail /\ cur' = cur
      /\ queueHead' = queueHead /\ word' = cur[t]
  BY DEF UnlockSlowStore, Goto, threadData
<1>2. pc \in [Threads -> PC]
  BY DEF IInv, TypeOK
<1>3. \A u \in Threads : u # t => pc[u] \notin HoldsQueuePC
  BY <1>1, QueueOwnerAlone DEF HoldsQueue, HoldsQueuePC
<1>4. pc'[t] = "usClear" /\ \A u \in Threads : u # t => pc'[u] = pc[u]
  BY <1>1, <1>2
<1>5. \A u \in Threads : pc'[u] \notin Linking \cup {"usStore", "lsLink"}
  BY <1>3, <1>4 DEF Linking, HoldsQueuePC
<1>6. word'.head = FirstOf(q)
  BY <1>1 DEF HeadIs
<1>7. \A u \in Threads : pc'[u] \in Waking <=> pc[u] \in Waking
  BY <1>1, <1>4 DEF Waking
<1>8. \A u \in Threads : (Dequeued(u)' <=> Dequeued(u)) /\ (Waiting(u)' <=> Waiting(u))
  <2>1. \A u \in Threads : Dequeued(u)' <=> Dequeued(u)
    BY <1>1, <1>7 DEF Dequeued
  <2> QED BY <1>1, <1>4, <2>1 DEF Waiting, Linking, Parked
<1>9. QueueIs(q)'
  BY <1>1, <1>8 DEF QueueIs
<1>10. HeadIs(q)'
  BY <1>5, <1>6 DEF HeadIs, FirstOf
<1>11. ThreadDataOK'
  <2> SUFFICES ASSUME NEW u \in Threads PROVE DataOK(u)'
    BY DEF ThreadDataOK
  <2>1. /\ pc'[u] = "lsLink" => cur'[u].head = word'.head
        /\ shouldPark'[u] => pc'[u] \in Linking \cup Parked
        /\ pc'[u] \in Linking => shouldPark'[u]
    BY <1>1, <1>4, <1>5 DEF QueueInv, ThreadDataOK, DataOK, Linking, Parked
  <2>2. nextInQueue'[u] # NoThread =>
          Waiting(u)' \/ \E v \in Threads : pc'[v] \in {"usStore", "usClear"} /\ queueHead'[v] = u
    BY <1>1, <1>4, <1>8 DEF QueueInv, ThreadDataOK, DataOK
  <2>3. ASSUME pc'[u] \in Waking
        PROVE  /\ pc'[queueHead'[u]] \in Parked /\ shouldPark'[queueHead'[u]]
               /\ \A v \in Threads : pc'[v] \in Waking /\ queueHead'[v] = queueHead'[u] => v = u
    <3>1. queueHead[u] \in Threads
      BY <1>7, <2>3 DEF IInv, LoadedValues, Waking
    <3>2. pc[queueHead[u]] \in Parked /\ shouldPark[queueHead[u]]
      BY <1>7, <2>3 DEF QueueInv, ThreadDataOK, DataOK
    <3>3. queueHead[u] # t
      BY <1>1, <3>2 DEF Parked
    <3>4. \A v \in Threads : pc[v] \in Waking /\ queueHead[v] = queueHead[u] => v = u
      BY <1>7, <2>3 DEF QueueInv, ThreadDataOK, DataOK
    <3> QED BY <1>1, <1>4, <1>7, <3>1, <3>2, <3>3, <3>4
  <2> QED BY <2>1, <2>2, <2>3 DEF DataOK
<1> QED
  BY <1>9, <1>10, <1>11 DEF QueueInv

\* unlockSlow() resets the links of the thread it took off.
LEMMA UnlockSlowClearQueue ==
  ASSUME IInv, IInv', QueueInv, NEW t \in Threads, UnlockSlowClear(t)
  PROVE  QueueInv'
<1> PICK q \in Seq(Threads) : QueueIs(q) /\ HeadIs(q)
  BY DEF QueueInv
<1> DEFINE h == queueHead[t]
<1>1. /\ pc[t] = "usClear" /\ pc' = [pc EXCEPT ![t] = "usUnpark"]
      /\ shouldPark' = shouldPark /\ cur' = cur /\ queueHead' = queueHead /\ word' = word
      /\ nextInQueue' = [nextInQueue EXCEPT ![h] = NoThread]
      /\ queueTail' = [queueTail EXCEPT ![h] = NoThread]
  BY DEF UnlockSlowClear, Goto
<1>2. /\ pc \in [Threads -> PC] /\ nextInQueue \in [Threads -> Pointer]
      /\ queueTail \in [Threads -> Pointer]
  BY DEF IInv, TypeOK
<1>3. h \in Threads /\ Dequeued(h) /\ ~Waiting(h)
  <2>1. h \in Threads
    BY <1>1 DEF IInv, LoadedValues
  <2> QED BY <1>1, <2>1 DEF Waiting, Dequeued, Waking
<1>4. pc'[t] = "usUnpark" /\ \A u \in Threads : u # t => pc'[u] = pc[u]
  BY <1>1, <1>2
<1>5. /\ nextInQueue'[h] = NoThread
      /\ \A u \in Threads : u # h => nextInQueue'[u] = nextInQueue[u] /\ queueTail'[u] = queueTail[u]
  BY <1>1, <1>2, <1>3
<1>6. \A u \in Threads : pc'[u] \in Waking <=> pc[u] \in Waking
  BY <1>1, <1>4 DEF Waking
<1>7. \A u \in Threads : (Dequeued(u)' <=> Dequeued(u)) /\ (Waiting(u)' <=> Waiting(u))
  <2>1. \A u \in Threads : Dequeued(u)' <=> Dequeued(u)
    BY <1>1, <1>6 DEF Dequeued
  <2> QED BY <1>1, <1>4, <2>1 DEF Waiting, Linking, Parked
<1> HIDE DEF h
<1>8. QueueIs(q)'
  <2>1. Len(q) \in Nat /\ (q # <<>> => Len(q) # 0) /\ \A i \in 1..Len(q) : q[i] \in Threads
    OBVIOUS
  <2>2. \A i \in 1..Len(q) : q[i] # h
    BY <1>3, <2>1 DEF QueueIs
  <2>3. \A i \in 1..(Len(q) - 1) : i \in 1..Len(q)
    BY <2>1
  <2>4. \A i \in 1..(Len(q) - 1) : nextInQueue'[q[i]] = q[i + 1]
    BY <1>5, <2>1, <2>2, <2>3 DEF QueueIs
  <2>5. q # <<>> => 1 \in 1..Len(q) /\ Len(q) \in 1..Len(q)
    BY <2>1
  <2>6. q # <<>> => nextInQueue'[q[Len(q)]] = NoThread /\ queueTail'[q[1]] = q[Len(q)]
    BY <1>5, <2>1, <2>2, <2>5 DEF QueueIs
  <2> QED BY <1>7, <2>4, <2>6 DEF QueueIs
<1>9. HeadIs(q)'
  BY <1>1, <1>4 DEF HeadIs, Linking, FirstOf
<1>10. ThreadDataOK'
  <2> SUFFICES ASSUME NEW u \in Threads PROVE DataOK(u)'
    BY DEF ThreadDataOK
  <2>1. /\ pc'[u] = "lsLink" => cur'[u].head = word'.head
        /\ shouldPark'[u] => pc'[u] \in Linking \cup Parked
        /\ pc'[u] \in Linking => shouldPark'[u]
    BY <1>1, <1>4 DEF QueueInv, ThreadDataOK, DataOK, Linking, Parked
  <2>2. ASSUME nextInQueue'[u] # NoThread
        PROVE  Waiting(u)' \/ \E v \in Threads : pc'[v] \in {"usStore", "usClear"} /\ queueHead'[v] = u
    <3>1. u # h /\ nextInQueue[u] # NoThread
      BY <1>5, <2>2
    <3>2. CASE Waiting(u)
      BY <1>7, <3>2
    <3>3. ASSUME NEW v \in Threads, pc[v] \in {"usStore", "usClear"}, queueHead[v] = u
          PROVE  pc'[v] \in {"usStore", "usClear"} /\ queueHead'[v] = u
      BY <1>1, <1>4, <3>1, <3>3 DEF h
    <3> QED BY <3>1, <3>2, <3>3 DEF QueueInv, ThreadDataOK, DataOK
  <2>3. ASSUME pc'[u] \in Waking
        PROVE  /\ pc'[queueHead'[u]] \in Parked /\ shouldPark'[queueHead'[u]]
               /\ \A v \in Threads : pc'[v] \in Waking /\ queueHead'[v] = queueHead'[u] => v = u
    <3>1. queueHead[u] \in Threads
      BY <1>6, <2>3 DEF IInv, LoadedValues, Waking
    <3>2. pc[queueHead[u]] \in Parked /\ shouldPark[queueHead[u]]
      BY <1>6, <2>3 DEF QueueInv, ThreadDataOK, DataOK
    <3>3. queueHead[u] # t
      BY <1>1, <3>2 DEF Parked
    <3>4. \A v \in Threads : pc[v] \in Waking /\ queueHead[v] = queueHead[u] => v = u
      BY <1>6, <2>3 DEF QueueInv, ThreadDataOK, DataOK
    <3> QED BY <1>1, <1>4, <1>6, <3>1, <3>2, <3>3, <3>4
  <2> QED BY <2>1, <2>2, <2>3 DEF DataOK
<1> QED
  BY <1>8, <1>9, <1>10 DEF QueueInv

\* unlockSlow() tells the thread it took off that it need not park any more.
LEMMA UnlockSlowUnparkQueue ==
  ASSUME IInv, IInv', QueueInv, NEW t \in Threads, UnlockSlowUnpark(t)
  PROVE  QueueInv'
<1> PICK q \in Seq(Threads) : QueueIs(q) /\ HeadIs(q)
  BY DEF QueueInv
<1> DEFINE h == queueHead[t]
<1>1. /\ pc[t] = "usUnpark" /\ pc' = [pc EXCEPT ![t] = "usNotify"]
      /\ cur' = cur /\ queueHead' = queueHead /\ word' = word
      /\ nextInQueue' = nextInQueue /\ queueTail' = queueTail
      /\ shouldPark' = [shouldPark EXCEPT ![h] = FALSE]
  BY DEF UnlockSlowUnpark, Goto
<1>2. pc \in [Threads -> PC] /\ shouldPark \in [Threads -> BOOLEAN]
  BY DEF IInv, TypeOK
<1>3. /\ h \in Threads /\ Dequeued(h) /\ ~Waiting(h) /\ pc[h] \in Parked /\ h # t
      /\ \A v \in Threads : pc[v] \in Waking /\ queueHead[v] = h => v = t
  <2>1. h \in Threads
    BY <1>1 DEF IInv, LoadedValues
  <2>2. /\ pc[h] \in Parked
        /\ \A v \in Threads : pc[v] \in Waking /\ queueHead[v] = h => v = t
    BY <1>1 DEF QueueInv, ThreadDataOK, DataOK, Waking
  <2> QED BY <1>1, <2>1, <2>2 DEF Waiting, Dequeued, Waking, Parked
<1>4. pc'[t] = "usNotify" /\ \A u \in Threads : u # t => pc'[u] = pc[u]
  BY <1>1, <1>2
<1>5. ~shouldPark'[h] /\ \A u \in Threads : u # h => shouldPark'[u] = shouldPark[u]
  BY <1>1, <1>2, <1>3
<1>6. \A u \in Threads : pc'[u] \in Waking <=> pc[u] \in Waking /\ u # t
  BY <1>4 DEF Waking
<1>7. \A u \in Threads : (u # h => (Dequeued(u)' <=> Dequeued(u))) /\ (Waiting(u)' <=> Waiting(u))
  <2>1. \A u \in Threads : u # h => (Dequeued(u)' <=> Dequeued(u))
    BY <1>1, <1>6 DEF Dequeued
  <2>2. \A u \in Threads : u = h => ~Waiting(u)'
    BY <1>5 DEF Waiting
  <2>3. ~Waiting(t) /\ ~Waiting(t)'
    BY <1>1, <1>4 DEF Waiting, Linking, Parked
  <2>4. \A u \in Threads : u # h /\ u # t => (Waiting(u)' <=> Waiting(u))
    BY <1>4, <1>5, <2>1 DEF Waiting
  <2>5. ASSUME NEW u \in Threads PROVE Waiting(u)' <=> Waiting(u)
    <3>1. CASE u = h
      BY <1>3, <2>2, <3>1
    <3>2. CASE u = t
      BY <2>3, <3>2
    <3> QED BY <2>4, <3>1, <3>2
  <2> QED BY <2>1, <2>5
<1> HIDE DEF h
<1>8. QueueIs(q)'
  BY <1>1, <1>7 DEF QueueIs
<1>9. HeadIs(q)'
  BY <1>1, <1>4 DEF HeadIs, Linking, FirstOf
<1>10. ThreadDataOK'
  <2> SUFFICES ASSUME NEW u \in Threads PROVE DataOK(u)'
    BY DEF ThreadDataOK
  <2>1. /\ pc'[u] = "lsLink" => cur'[u].head = word'.head
        /\ shouldPark'[u] => pc'[u] \in Linking \cup Parked
        /\ pc'[u] \in Linking => shouldPark'[u]
    <3>1. pc'[u] = "lsLink" => cur'[u].head = word'.head
      BY <1>1, <1>4 DEF QueueInv, ThreadDataOK, DataOK
    <3>2. CASE u = h
      BY <1>3, <1>4, <1>5, <3>1, <3>2 DEF Linking, Parked
    <3>3. CASE u # h
      BY <1>1, <1>4, <1>5, <3>1, <3>3 DEF QueueInv, ThreadDataOK, DataOK, Linking, Parked
    <3> QED BY <3>2, <3>3
  <2>2. nextInQueue'[u] # NoThread =>
          Waiting(u)' \/ \E v \in Threads : pc'[v] \in {"usStore", "usClear"} /\ queueHead'[v] = u
    BY <1>1, <1>4, <1>7 DEF QueueInv, ThreadDataOK, DataOK
  <2>3. ASSUME pc'[u] \in Waking
        PROVE  /\ pc'[queueHead'[u]] \in Parked /\ shouldPark'[queueHead'[u]]
               /\ \A v \in Threads : pc'[v] \in Waking /\ queueHead'[v] = queueHead'[u] => v = u
    <3>1. queueHead[u] \in Threads
      BY <1>6, <2>3 DEF IInv, LoadedValues, Waking
    <3>2. pc[queueHead[u]] \in Parked /\ shouldPark[queueHead[u]]
      BY <1>6, <2>3 DEF QueueInv, ThreadDataOK, DataOK
    <3>3. queueHead[u] # t
      BY <1>1, <3>2 DEF Parked
    <3>4. \A v \in Threads : pc[v] \in Waking /\ queueHead[v] = queueHead[u] => v = u
      BY <1>6, <2>3 DEF QueueInv, ThreadDataOK, DataOK
    <3>5. queueHead[u] # h
      BY <1>3, <1>6, <2>3
    <3> QED BY <1>1, <1>4, <1>5, <1>6, <3>1, <3>2, <3>3, <3>4, <3>5
  <2> QED BY <2>1, <2>2, <2>3 DEF DataOK
<1> QED
  BY <1>8, <1>9, <1>10 DEF QueueInv

-----------------------------------------------------------------------------
LEMMA InitQueueInv == Init => QueueInv
<1> SUFFICES ASSUME Init PROVE QueueInv
  OBVIOUS
<1>1. \A t \in Threads : pc[t] = "idle" /\ ~shouldPark[t] /\ nextInQueue[t] = NoThread
  BY DEF Init
<1>2. word.head = NoThread
  BY DEF Init, Unlocked
<1>3. \A t \in Threads : ~Waiting(t)
  BY <1>1 DEF Waiting
<1>4. <<>> \in Seq(Threads) /\ Len(<<>>) = 0
  OBVIOUS
<1>5. QueueIs(<<>>)
  BY <1>3, <1>4 DEF QueueIs
<1>6. HeadIs(<<>>)
  BY <1>1, <1>2 DEF HeadIs, FirstOf, Linking
<1>7. ThreadDataOK
  BY <1>1 DEF ThreadDataOK, DataOK, Linking, Waking
<1> QED
  BY <1>4, <1>5, <1>6, <1>7 DEF QueueInv

\* The steps of threads outside of the queue, and of threads that go to sleep.
LEMMA OutsideQueue ==
  ASSUME IInv, IInv', QueueInv, NEW t \in Threads,
         pc' = [pc EXCEPT ![t] = pc'[t]], UNCHANGED <<queueHead, threadData>>, word'.head = word.head,
         \A u \in Threads : u # t => cur'[u] = cur[u],
         pc[t] \notin Linking \cup Waking \cup Parked, pc'[t] \notin Linking \cup Waking \cup Parked,
         pc'[t] = "lsLink" => cur'[t].head = word.head
  PROVE  QueueInv'
<1>1. \A u \in Threads : u # t => pc'[u] = pc[u]
  BY DEF IInv, TypeOK
<1>2. \A u \in Threads : u # t /\ pc[u] = "lsLink" => cur[u].head = word.head
  BY DEF QueueInv, ThreadDataOK, DataOK
<1>3. \A u \in Threads :
        /\ pc'[u] \in Linking <=> pc[u] \in Linking
        /\ pc'[u] \in Parked <=> pc[u] \in Parked
        /\ pc'[u] = "usStore" <=> pc[u] = "usStore"
        /\ pc'[u] = "usClear" <=> pc[u] = "usClear"
        /\ pc'[u] = "usUnpark" <=> pc[u] = "usUnpark"
        /\ pc[u] = "usStore" => cur'[u] = cur[u]
        /\ pc'[u] = "lsLink" => cur'[u].head = word.head
  BY <1>1, <1>2 DEF Waking
<1> QED
  BY <1>3, QueueUntouched

LEMMA NextQueueInv == IInv /\ IInv' /\ QueueInv /\ [Next]_vars => QueueInv'
<1> SUFFICES ASSUME IInv, IInv', QueueInv, [Next]_vars PROVE QueueInv'
  OBVIOUS
<1>0. /\ word \in Word /\ pc \in [Threads -> PC] /\ cur \in [Threads -> Word]
      /\ queueHead \in [Threads -> Pointer] /\ shouldPark \in [Threads -> BOOLEAN]
  BY DEF IInv, TypeOK
<1> USE DEF Linking, Waking, Parked
<1>1. CASE UNCHANGED vars
  <2>1. \A u \in Threads : pc[u] = "lsLink" => cur[u].head = word.head
    BY DEF QueueInv, ThreadDataOK, DataOK
  <2> QED BY <1>1, <2>1, QueueUntouched DEF vars, threadData
<1>2. ASSUME NEW t \in Threads, LockFast(t) \/ LockFastFails(t) PROVE QueueInv'
  BY <1>0, <1>2, OutsideQueue DEF LockFast, LockFastFails, Goto, Unlocked, IsLockedOnly
<1>3. ASSUME NEW t \in Threads, LockSlowLoad(t) PROVE QueueInv'
  BY <1>0, <1>3, OutsideQueue DEF LockSlowLoad, SpinOrEnqueue
<1>4. ASSUME NEW t \in Threads, LockSlowAcquire(t) PROVE QueueInv'
  BY <1>0, <1>4, OutsideQueue DEF LockSlowAcquire, Goto, Word
<1>5. ASSUME NEW t \in Threads, LockSlowAcquireFails(t) PROVE QueueInv'
  BY <1>0, <1>5, OutsideQueue DEF LockSlowAcquireFails, SpinOrEnqueue
<1>6. ASSUME NEW t \in Threads, LockSlowReload(t) PROVE QueueInv'
  BY <1>0, <1>6, OutsideQueue DEF LockSlowReload
<1>7. ASSUME NEW t \in Threads, LockSlowLockQueue(t) PROVE QueueInv'
  BY <1>0, <1>7, OutsideQueue DEF LockSlowLockQueue, Goto, Word
<1>8. ASSUME NEW t \in Threads, LockSlowLockQueueFails(t) PROVE QueueInv'
  BY <1>0, <1>8, OutsideQueue DEF LockSlowLockQueueFails, Goto
<1>9. ASSUME NEW t \in Threads, UnlockFast(t) \/ UnlockFastFails(t) PROVE QueueInv'
  BY <1>0, <1>9, OutsideQueue DEF UnlockFast, UnlockFastFails, Goto, Unlocked, IsLockedOnly
<1>10. ASSUME NEW t \in Threads, UnlockSlowLoad(t) PROVE QueueInv'
  BY <1>0, <1>10, OutsideQueue DEF UnlockSlowLoad
<1>11. ASSUME NEW t \in Threads, UnlockSlowRelease(t) PROVE QueueInv'
  BY <1>0, <1>11, OutsideQueue DEF UnlockSlowRelease, Goto, Unlocked, IsLockedOnly
<1>12. ASSUME NEW t \in Threads, UnlockSlowLockQueue(t) PROVE QueueInv'
  BY <1>0, <1>12, OutsideQueue DEF UnlockSlowLockQueue, Goto, Word
<1>13. ASSUME NEW t \in Threads, UnlockSlowFails(t) PROVE QueueInv'
  BY <1>0, <1>13, OutsideQueue DEF UnlockSlowFails, Goto
<1>14. ASSUME NEW t \in Threads, LockSlowRelease(t) PROVE QueueInv'
  <2>1. /\ pc[t] = "lsRelease" /\ pc' = [pc EXCEPT ![t] = "lsStore"] /\ cur' = [cur EXCEPT ![t] = word]
        /\ UNCHANGED <<word, queueHead, threadData>>
    BY <1>14 DEF LockSlowRelease, Goto
  <2>2. \A u \in Threads : u # t => pc'[u] = pc[u] /\ cur'[u] = cur[u]
    BY <1>0, <2>1
  <2>3. \A u \in Threads : pc[u] = "lsLink" => cur[u].head = word.head
    BY DEF QueueInv, ThreadDataOK, DataOK
  <2> QED BY <1>0, <2>1, <2>2, <2>3, QueueUntouched
<1>15. ASSUME NEW t \in Threads, LockSlowPark(t) \/ SpuriousWakeUp(t) PROVE QueueInv'
  <2>1. /\ pc[t] \in Parked /\ pc' = [pc EXCEPT ![t] = pc'[t]] /\ pc'[t] \in Parked \cup {"lsLoad"}
        /\ shouldPark[t] => pc'[t] \in Parked
        /\ UNCHANGED <<word, cur, queueHead, threadData>>
    BY <1>0, <1>15 DEF LockSlowPark, SpuriousWakeUp, Goto
  <2>2. \A u \in Threads : u # t => pc'[u] = pc[u]
    BY <1>0, <2>1
  <2>3. \A u \in Threads : pc[u] = "lsLink" => cur[u].head = word.head
    BY DEF QueueInv, ThreadDataOK, DataOK
  <2> QED BY <1>0, <2>1, <2>2, <2>3, QueueUntouched
<1>16. ASSUME NEW t \in Threads, UnlockSlowNotify(t) PROVE QueueInv'
  <2>1. /\ pc[t] = "usNotify" /\ queueHead[t] \in Threads
        /\ pc' = [pc EXCEPT ![t] = "idle", ![queueHead[t]] = IF @ = "lsAsleep" THEN "lsPark" ELSE @]
        /\ queueHead' = [queueHead EXCEPT ![t] = NoThread]
        /\ UNCHANGED <<word, cur, threadData>>
    BY <1>16 DEF UnlockSlowNotify, IInv, LoadedValues
  <2>2. /\ pc'[t] = "idle"
        /\ \A u \in Threads : u # t => /\ pc'[u] = pc[u] \/ (pc[u] = "lsAsleep" /\ pc'[u] = "lsPark")
                                       /\ queueHead'[u] = queueHead[u]
    BY <1>0, <2>1
  <2>3. \A u \in Threads : pc[u] = "lsLink" => cur[u].head = word.head
    BY DEF QueueInv, ThreadDataOK, DataOK
  <2> QED BY <1>0, <2>1, <2>2, <2>3, QueueUntouched
<1> QED
  BY <1>1, <1>2, <1>3, <1>4, <1>5, <1>6, <1>7, <1>8, <1>9, <1>10, <1>11, <1>12, <1>13, <1>14, <1>15, <1>16,
     LockSlowLinkQueue, LockSlowStoreQueue, UnlockSlowDequeueQueue, UnlockSlowStoreQueue,
     UnlockSlowClearQueue, UnlockSlowUnparkQueue
     DEF Next, LockCall, Run, LockCAS, UnlockCAS

(***************************************************************************)
(* For any number of threads: whenever the queue lock is free, the links   *)
(* from the head in the word visit every parked thread that was not taken  *)
(* off, each once, and end at the head's queueTail.                        *)
(***************************************************************************)
THEOREM QueueIntegrityAlways == Spec => []QueueIntegrity
<1>1. IInv /\ QueueInv => QueueIntegrity
  <2> SUFFICES ASSUME IInv, QueueInv, ~word.queueLocked
               PROVE  /\ {QueueNode[i] : i \in 0..(Cardinality(Enqueued) - 1)} = Enqueued
                      /\ QueueNode[Cardinality(Enqueued)] = NoThread
                      /\ Cardinality(Enqueued) > 0 =>
                           queueTail[word.head] = QueueNode[Cardinality(Enqueued) - 1]
    BY DEF QueueIntegrity
  <2>1. PICK q \in Seq(Threads) : QueueIs(q) /\ HeadIs(q)
    BY DEF QueueInv
  <2>2. \A t \in Threads : pc[t] \notin HoldsQueuePC
    BY DEF IInv, BitsMeanOwners, HoldsQueue
  <2>3. word.head = FirstOf(q)
    BY <2>1, <2>2 DEF HeadIs, Linking, HoldsQueuePC
  <2>4. \A t \in Threads : Dequeued(t) <=> \E u \in Threads : pc[u] \in {"usClear", "usUnpark"} /\ queueHead[u] = t
    BY <2>2 DEF Dequeued, Waking, HoldsQueuePC
  <2>5. \A t \in Threads : Waiting(t) <=> t \in Enqueued
    BY <2>2, <2>4 DEF Waiting, Enqueued, Linking, Parked, HoldsQueuePC
  <2>6. Enqueued \subseteq Threads
    BY DEF Enqueued
  <2> DEFINE n == Len(q)
  <2>7. n \in Nat /\ n = Len(q) /\ (n = 0 <=> q = <<>>) /\ q \in [1..n -> Threads]
    OBVIOUS
  <2>8. /\ \A i \in 0..(n - 1) : QueueNode[i] = q[i + 1]
        /\ QueueNode[n] = NoThread
    BY <2>1, <2>3, QueueNodeFollows DEF IInv
  <2> HIDE DEF n
  <2>9. /\ \A i, j \in 1..n : q[i] = q[j] => i = j
        /\ \A t \in Threads : t \in Enqueued <=> \E i \in 1..n : q[i] = t
    BY <2>1, <2>5, <2>7 DEF QueueIs
  <2>10. Cardinality(Enqueued) = n
    <3>1. q \in Bijection(1..n, Enqueued)
      <4>1. q \in [1..n -> Enqueued]
        BY <2>7, <2>9
      <4>2. \A t \in Enqueued : \E i \in 1..n : q[i] = t
        BY <2>6, <2>9
      <4> QED BY <2>9, <4>1, <4>2, Fun_IsBij
    <3>2. ExistsBijection(1..n, Enqueued)
      BY <3>1 DEF ExistsBijection
    <3> QED BY <2>7, <3>2, FS_CountingElements
  <2>11. {QueueNode[i] : i \in 0..(n - 1)} = Enqueued
    <3>1. ASSUME NEW t \in Enqueued PROVE t \in {QueueNode[i] : i \in 0..(n - 1)}
      <4>1. PICK i \in 1..n : q[i] = t
        BY <2>6, <2>9
      <4>2. i - 1 \in 0..(n - 1) /\ (i - 1) + 1 = i
        BY <2>7
      <4>3. QueueNode[i - 1] = t
        BY <2>8, <4>1, <4>2
      <4> QED BY <4>2, <4>3
    <3>2. ASSUME NEW i \in 0..(n - 1) PROVE QueueNode[i] \in Enqueued
      <4>1. i + 1 \in 1..n
        BY <2>7
      <4> QED BY <2>7, <2>8, <2>9, <4>1
    <3> QED BY <3>1, <3>2
  <2>12. n > 0 => queueTail[word.head] = QueueNode[n - 1]
    <3> SUFFICES ASSUME n > 0 PROVE queueTail[word.head] = QueueNode[n - 1]
      OBVIOUS
    <3>1. queueTail[q[1]] = q[n] /\ word.head = q[1]
      BY <2>1, <2>3, <2>7 DEF QueueIs, FirstOf
    <3>2. n - 1 \in 0..(n - 1) /\ (n - 1) + 1 = n
      BY <2>7
    <3> QED BY <2>8, <3>1, <3>2
  <2> QED BY <2>8, <2>10, <2>11, <2>12
<1>2. Spec => []QueueInv
  BY IInvAlways, InitQueueInv, NextQueueInv, PTL DEF Spec
<1> QED
  BY <1>1, <1>2, IInvAlways, PTL
=============================================================================
