----------------------------- MODULE LockProofs -----------------------------
(***************************************************************************)
(* Proofs about Lock for any set of threads and any spin limit: mutual     *)
(* exclusion, that no parked thread is forgotten by the parked bit or left *)
(* without somebody who will unpark it, the assertions of unlockSlow(),    *)
(* and that Lock implements Mutex.                                         *)
(*                                                                         *)
(* The inductive invariant adds to these properties that the held bit is   *)
(* set only while a thread owns the lock, that the byte loaded before a    *)
(* compare-and-swap that takes the lock was free, and that the threads on  *)
(* the queue and the ones being woken are distinct and asleep, so that     *)
(* waking one never disturbs an owner.                                     *)
(*                                                                         *)
(* At the end, for any consumers and producers of a Condition: while a     *)
(* thread waits, m_hasWaiters says so or a notifyAll() is about to wake    *)
(* everybody.                                                              *)
(***************************************************************************)
EXTENDS Lock, Condition, TLAPS

\* The held bit is set only while some thread owns the lock.
HeldMeansOwner == byte.held => \E t \in Threads : HoldsLock(t)

\* What a thread that is about to take the lock knows of the byte it loaded.
LoadedFree == \A t \in Threads : pc[t] \in {"lsAcquire", "tlAcquire"} => ~cur[t].held

\* Threads on the queue are asleep, and on it once.
QueueAsleep ==
  /\ \A i \in 1..Len(queue) : pc[queue[i]] = "asleep"
  /\ \A i, j \in 1..Len(queue) : queue[i] = queue[j] => i = j

\* Threads that were dequeued are asleep until their one unlocker wakes them.
WakingAsleep ==
  \A t \in Threads : pc[t] = "usWake" =>
    /\ waking[t] \in Threads
    /\ pc[waking[t]] = "asleep"
    /\ \A i \in 1..Len(queue) : queue[i] # waking[t]
    /\ \A u \in Threads : pc[u] = "usWake" /\ waking[u] = waking[t] => u = t

IInv ==
  /\ TypeOK
  /\ MutualExclusion
  /\ ParkedBitCoversQueue
  /\ UnlockAssertions
  /\ SomeoneWillUnpark
  /\ HeldMeansOwner
  /\ LoadedFree
  /\ QueueAsleep
  /\ WakingAsleep

USE ConstantsAssumption

-----------------------------------------------------------------------------
LEMMA InitIInv == Init => IInv
  BY DEF Init, IInv, TypeOK, MutualExclusion, ParkedBitCoversQueue, UnlockAssertions,
     SomeoneWillUnpark, HeldMeansOwner, LoadedFree, QueueAsleep, WakingAsleep, HoldsLock,
     Zero, HeldAndParked, Byte, PC, LockSlowPC

\* Deciding between spinning and parking keeps the types and the spin limit.
LEMMA SpinOrParkType ==
  ASSUME TypeOK, NEW t \in Threads, NEW b, SpinOrPark(t, b)
  PROVE  pc' \in [Threads -> PC] /\ spinCount' \in [Threads -> 0..SpinLimit]
<1>1. CASE ~b.parked /\ spinCount[t] < SpinLimit
  <2>1. spinCount[t] + 1 \in 0..SpinLimit
    BY <1>1 DEF TypeOK
  <2> QED
    BY <1>1, <2>1 DEF SpinOrPark, TypeOK, PC, LockSlowPC
<1>2. CASE ~(~b.parked /\ spinCount[t] < SpinLimit)
  <2>1. spinCount' = spinCount
    BY <1>2 DEF SpinOrPark
  <2>2. pc' = [pc EXCEPT ![t] = "lsPark"] \/ pc' = [pc EXCEPT ![t] = "lsSetParked"]
    BY <1>2 DEF SpinOrPark
  <2> QED
    BY <2>1, <2>2 DEF TypeOK, PC, LockSlowPC
<1> QED
  BY <1>1, <1>2

LEMMA NextIInv == IInv /\ [Next]_vars => IInv'
<1> SUFFICES ASSUME IInv, [Next]_vars PROVE IInv'
  OBVIOUS
<1> USE DEF IInv, Goto, HoldsLock, Byte, PC, LockSlowPC, Zero, IsHeld, HeldAndParked
<1>a. UNCHANGED vars => IInv'
  BY DEF vars, TypeOK, MutualExclusion, ParkedBitCoversQueue, UnlockAssertions,
     SomeoneWillUnpark, HeldMeansOwner, LoadedFree, QueueAsleep, WakingAsleep
<1>1. ASSUME NEW t \in Threads, LockFast(t) PROVE IInv'
  BY <1>1 DEF LockFast, TypeOK, MutualExclusion, ParkedBitCoversQueue, UnlockAssertions,
     SomeoneWillUnpark, HeldMeansOwner, LoadedFree, QueueAsleep, WakingAsleep
<1>2. ASSUME NEW t \in Threads, LockFastFails(t) PROVE IInv'
  BY <1>2 DEF LockFastFails, TypeOK, MutualExclusion, ParkedBitCoversQueue, UnlockAssertions,
     SomeoneWillUnpark, HeldMeansOwner, LoadedFree, QueueAsleep, WakingAsleep
<1>3. ASSUME NEW t \in Threads, LockSlowLoad(t) PROVE IInv'
  <2>1. TypeOK'
    <3>1. pc' \in [Threads -> PC] /\ spinCount' \in [Threads -> 0..SpinLimit]
      <4>1. CASE ~byte.held
        BY <1>3, <4>1 DEF LockSlowLoad, TypeOK
      <4>2. CASE byte.held
        BY <1>3, <4>2, SpinOrParkType DEF LockSlowLoad, TypeOK
      <4> QED
        BY <4>1, <4>2
    <3> QED
      BY <1>3, <3>1 DEF LockSlowLoad, TypeOK
  <2>2. MutualExclusion'
    BY <1>3 DEF LockSlowLoad, SpinOrPark, TypeOK, MutualExclusion, HeldMeansOwner,
       UnlockAssertions, LoadedFree, WakingAsleep
  <2>3. ParkedBitCoversQueue'
    BY <1>3 DEF LockSlowLoad, SpinOrPark, TypeOK, ParkedBitCoversQueue, UnlockAssertions
  <2>4. UnlockAssertions'
    BY <1>3 DEF LockSlowLoad, SpinOrPark, TypeOK, UnlockAssertions, MutualExclusion,
       HeldMeansOwner, WakingAsleep, LoadedFree
  <2>5. SomeoneWillUnpark'
    BY <1>3 DEF LockSlowLoad, SpinOrPark, TypeOK, SomeoneWillUnpark, ParkedBitCoversQueue,
       UnlockAssertions, WakingAsleep
  <2>6. HeldMeansOwner'
    BY <1>3 DEF LockSlowLoad, SpinOrPark, TypeOK, HeldMeansOwner, MutualExclusion,
       UnlockAssertions, WakingAsleep, LoadedFree
  <2>7. LoadedFree'
    BY <1>3 DEF LockSlowLoad, SpinOrPark, TypeOK, LoadedFree, WakingAsleep
  <2>8. QueueAsleep'
    BY <1>3 DEF LockSlowLoad, SpinOrPark, TypeOK, QueueAsleep, WakingAsleep
  <2>9. WakingAsleep'
    BY <1>3 DEF LockSlowLoad, SpinOrPark, TypeOK, WakingAsleep, QueueAsleep
  <2> QED
    BY <2>1, <2>2, <2>3, <2>4, <2>5, <2>6, <2>7, <2>8, <2>9
<1>4. ASSUME NEW t \in Threads, LockSlowAcquire(t) PROVE IInv'
  <2>1. TypeOK'
    BY <1>4 DEF LockSlowAcquire, TypeOK, WakingAsleep
  <2>2. MutualExclusion'
    BY <1>4 DEF LockSlowAcquire, TypeOK, MutualExclusion, HeldMeansOwner, UnlockAssertions,
       LoadedFree, WakingAsleep
  <2>3. ParkedBitCoversQueue'
    BY <1>4 DEF LockSlowAcquire, TypeOK, ParkedBitCoversQueue, UnlockAssertions
  <2>4. UnlockAssertions'
    BY <1>4 DEF LockSlowAcquire, TypeOK, UnlockAssertions, MutualExclusion, HeldMeansOwner,
       WakingAsleep, LoadedFree
  <2>5. SomeoneWillUnpark'
    BY <1>4 DEF LockSlowAcquire, TypeOK, SomeoneWillUnpark, ParkedBitCoversQueue,
       UnlockAssertions, WakingAsleep
  <2>6. HeldMeansOwner'
    BY <1>4 DEF LockSlowAcquire, TypeOK, HeldMeansOwner, MutualExclusion, UnlockAssertions,
       WakingAsleep, LoadedFree
  <2>7. LoadedFree'
    BY <1>4 DEF LockSlowAcquire, TypeOK, LoadedFree, WakingAsleep
  <2>8. QueueAsleep'
    BY <1>4 DEF LockSlowAcquire, TypeOK, QueueAsleep, WakingAsleep
  <2>9. WakingAsleep'
    BY <1>4 DEF LockSlowAcquire, TypeOK, WakingAsleep, QueueAsleep
  <2> QED
    BY <2>1, <2>2, <2>3, <2>4, <2>5, <2>6, <2>7, <2>8, <2>9
<1>5. ASSUME NEW t \in Threads, LockSlowAcquireFails(t) PROVE IInv'
  <2>1. TypeOK'
    <3>1. pc' \in [Threads -> PC] /\ spinCount' \in [Threads -> 0..SpinLimit]
      BY <1>5, SpinOrParkType DEF LockSlowAcquireFails, TypeOK
    <3> QED
      BY <1>5, <3>1 DEF LockSlowAcquireFails, TypeOK
  <2>2. MutualExclusion'
    BY <1>5 DEF LockSlowAcquireFails, SpinOrPark, TypeOK, MutualExclusion, HeldMeansOwner,
       UnlockAssertions, LoadedFree, WakingAsleep
  <2>3. ParkedBitCoversQueue'
    BY <1>5 DEF LockSlowAcquireFails, SpinOrPark, TypeOK, ParkedBitCoversQueue,
       UnlockAssertions
  <2>4. UnlockAssertions'
    BY <1>5 DEF LockSlowAcquireFails, SpinOrPark, TypeOK, UnlockAssertions, MutualExclusion,
       HeldMeansOwner, WakingAsleep, LoadedFree
  <2>5. SomeoneWillUnpark'
    BY <1>5 DEF LockSlowAcquireFails, SpinOrPark, TypeOK, SomeoneWillUnpark,
       ParkedBitCoversQueue, UnlockAssertions, WakingAsleep
  <2>6. HeldMeansOwner'
    BY <1>5 DEF LockSlowAcquireFails, SpinOrPark, TypeOK, HeldMeansOwner, MutualExclusion,
       UnlockAssertions, WakingAsleep, LoadedFree
  <2>7. LoadedFree'
    BY <1>5 DEF LockSlowAcquireFails, SpinOrPark, TypeOK, LoadedFree, WakingAsleep
  <2>8. QueueAsleep'
    BY <1>5 DEF LockSlowAcquireFails, SpinOrPark, TypeOK, QueueAsleep, WakingAsleep
  <2>9. WakingAsleep'
    BY <1>5 DEF LockSlowAcquireFails, SpinOrPark, TypeOK, WakingAsleep, QueueAsleep
  <2> QED
    BY <2>1, <2>2, <2>3, <2>4, <2>5, <2>6, <2>7, <2>8, <2>9
<1>6. ASSUME NEW t \in Threads, LockSlowSetParked(t) PROVE IInv'
  <2>1. TypeOK'
    BY <1>6 DEF LockSlowSetParked, TypeOK, WakingAsleep
  <2>2. MutualExclusion'
    BY <1>6 DEF LockSlowSetParked, TypeOK, MutualExclusion, HeldMeansOwner, UnlockAssertions,
       LoadedFree, WakingAsleep
  <2>3. ParkedBitCoversQueue'
    BY <1>6 DEF LockSlowSetParked, TypeOK, ParkedBitCoversQueue, UnlockAssertions
  <2>4. UnlockAssertions'
    BY <1>6 DEF LockSlowSetParked, TypeOK, UnlockAssertions, MutualExclusion, HeldMeansOwner,
       WakingAsleep, LoadedFree
  <2>5. SomeoneWillUnpark'
    BY <1>6 DEF LockSlowSetParked, TypeOK, SomeoneWillUnpark, ParkedBitCoversQueue,
       UnlockAssertions, WakingAsleep
  <2>6. HeldMeansOwner'
    BY <1>6 DEF LockSlowSetParked, TypeOK, HeldMeansOwner, MutualExclusion, UnlockAssertions,
       WakingAsleep, LoadedFree
  <2>7. LoadedFree'
    BY <1>6 DEF LockSlowSetParked, TypeOK, LoadedFree, WakingAsleep
  <2>8. QueueAsleep'
    BY <1>6 DEF LockSlowSetParked, TypeOK, QueueAsleep, WakingAsleep
  <2>9. WakingAsleep'
    BY <1>6 DEF LockSlowSetParked, TypeOK, WakingAsleep, QueueAsleep
  <2> QED
    BY <2>1, <2>2, <2>3, <2>4, <2>5, <2>6, <2>7, <2>8, <2>9
<1>7. ASSUME NEW t \in Threads, LockSlowSetParkedFails(t) PROVE IInv'
  BY <1>7 DEF LockSlowSetParkedFails, TypeOK, MutualExclusion, ParkedBitCoversQueue,
     UnlockAssertions,
     SomeoneWillUnpark, HeldMeansOwner, LoadedFree, QueueAsleep, WakingAsleep
<1>8. ASSUME NEW t \in Threads, LockSlowPark(t) PROVE IInv'
  BY <1>8 DEF LockSlowPark, TypeOK, MutualExclusion, ParkedBitCoversQueue, UnlockAssertions,
     SomeoneWillUnpark, HeldMeansOwner, LoadedFree, QueueAsleep, WakingAsleep
<1>9. ASSUME NEW t \in Threads, LockSlowParkInvalid(t) PROVE IInv'
  BY <1>9 DEF LockSlowParkInvalid, TypeOK, MutualExclusion, ParkedBitCoversQueue,
     UnlockAssertions,
     SomeoneWillUnpark, HeldMeansOwner, LoadedFree, QueueAsleep, WakingAsleep
<1>10. ASSUME NEW t \in Threads, TryLockCall(t) PROVE IInv'
  BY <1>10 DEF TryLockCall, TypeOK, MutualExclusion, ParkedBitCoversQueue, UnlockAssertions,
     SomeoneWillUnpark, HeldMeansOwner, LoadedFree, QueueAsleep, WakingAsleep
<1>11. ASSUME NEW t \in Threads, TryLockLoad(t) PROVE IInv'
  BY <1>11 DEF TryLockLoad, TypeOK, MutualExclusion, ParkedBitCoversQueue, UnlockAssertions,
     SomeoneWillUnpark, HeldMeansOwner, LoadedFree, QueueAsleep, WakingAsleep
<1>12. ASSUME NEW t \in Threads, TryLockAcquire(t) PROVE IInv'
  <2>1. TypeOK'
    BY <1>12 DEF TryLockAcquire, TypeOK, WakingAsleep
  <2>2. MutualExclusion'
    BY <1>12 DEF TryLockAcquire, TypeOK, MutualExclusion, HeldMeansOwner, UnlockAssertions,
       LoadedFree, WakingAsleep
  <2>3. ParkedBitCoversQueue'
    BY <1>12 DEF TryLockAcquire, TypeOK, ParkedBitCoversQueue, UnlockAssertions
  <2>4. UnlockAssertions'
    BY <1>12 DEF TryLockAcquire, TypeOK, UnlockAssertions, MutualExclusion, HeldMeansOwner,
       WakingAsleep, LoadedFree
  <2>5. SomeoneWillUnpark'
    BY <1>12 DEF TryLockAcquire, TypeOK, SomeoneWillUnpark, ParkedBitCoversQueue,
       UnlockAssertions, WakingAsleep
  <2>6. HeldMeansOwner'
    BY <1>12 DEF TryLockAcquire, TypeOK, HeldMeansOwner, MutualExclusion, UnlockAssertions,
       WakingAsleep, LoadedFree
  <2>7. LoadedFree'
    BY <1>12 DEF TryLockAcquire, TypeOK, LoadedFree, WakingAsleep
  <2>8. QueueAsleep'
    BY <1>12 DEF TryLockAcquire, TypeOK, QueueAsleep, WakingAsleep
  <2>9. WakingAsleep'
    BY <1>12 DEF TryLockAcquire, TypeOK, WakingAsleep, QueueAsleep
  <2> QED
    BY <2>1, <2>2, <2>3, <2>4, <2>5, <2>6, <2>7, <2>8, <2>9
<1>13. ASSUME NEW t \in Threads, TryLockAcquireFails(t) PROVE IInv'
  BY <1>13 DEF TryLockAcquireFails, TypeOK, MutualExclusion, ParkedBitCoversQueue,
     UnlockAssertions,
     SomeoneWillUnpark, HeldMeansOwner, LoadedFree, QueueAsleep, WakingAsleep
<1>14. ASSUME NEW t \in Threads, UnlockFast(t) PROVE IInv'
  BY <1>14 DEF UnlockFast, TypeOK, MutualExclusion, ParkedBitCoversQueue, UnlockAssertions,
     SomeoneWillUnpark, HeldMeansOwner, LoadedFree, QueueAsleep, WakingAsleep
<1>15. ASSUME NEW t \in Threads, UnlockFastFails(t) PROVE IInv'
  BY <1>15 DEF UnlockFastFails, TypeOK, MutualExclusion, ParkedBitCoversQueue,
     UnlockAssertions,
     SomeoneWillUnpark, HeldMeansOwner, LoadedFree, QueueAsleep, WakingAsleep
<1>16. ASSUME NEW t \in Threads, UnlockSlowLoad(t) PROVE IInv'
  BY <1>16 DEF UnlockSlowLoad, TypeOK, MutualExclusion, ParkedBitCoversQueue, UnlockAssertions,
     SomeoneWillUnpark, HeldMeansOwner, LoadedFree, QueueAsleep, WakingAsleep
<1>17. ASSUME NEW t \in Threads, UnlockSlowRelease(t) PROVE IInv'
  BY <1>17 DEF UnlockSlowRelease, TypeOK, MutualExclusion, ParkedBitCoversQueue,
     UnlockAssertions,
     SomeoneWillUnpark, HeldMeansOwner, LoadedFree, QueueAsleep, WakingAsleep
<1>18. ASSUME NEW t \in Threads, UnlockSlowReleaseFails(t) PROVE IInv'
  BY <1>18 DEF UnlockSlowReleaseFails, TypeOK, MutualExclusion, ParkedBitCoversQueue,
     UnlockAssertions,
     SomeoneWillUnpark, HeldMeansOwner, LoadedFree, QueueAsleep, WakingAsleep
<1>19. ASSUME NEW t \in Threads, UnlockSlowUnpark(t) PROVE IInv'
  BY <1>19 DEF UnlockSlowUnpark, TypeOK, MutualExclusion, ParkedBitCoversQueue,
     UnlockAssertions,
     SomeoneWillUnpark, HeldMeansOwner, LoadedFree, QueueAsleep, WakingAsleep
<1>20. ASSUME NEW t \in Threads, UnlockSlowUnparkNone(t) PROVE IInv'
  BY <1>20 DEF UnlockSlowUnparkNone, TypeOK, MutualExclusion, ParkedBitCoversQueue,
     UnlockAssertions,
     SomeoneWillUnpark, HeldMeansOwner, LoadedFree, QueueAsleep, WakingAsleep
<1>21. ASSUME NEW t \in Threads, UnlockSlowWake(t) PROVE IInv'
  <2>1. TypeOK'
    BY <1>21 DEF UnlockSlowWake, TypeOK, WakingAsleep
  <2>2. MutualExclusion'
    BY <1>21 DEF UnlockSlowWake, TypeOK, MutualExclusion, HeldMeansOwner, UnlockAssertions,
       LoadedFree, WakingAsleep
  <2>3. ParkedBitCoversQueue'
    BY <1>21 DEF UnlockSlowWake, TypeOK, ParkedBitCoversQueue, UnlockAssertions
  <2>4. UnlockAssertions'
    BY <1>21 DEF UnlockSlowWake, TypeOK, UnlockAssertions, MutualExclusion, HeldMeansOwner,
       WakingAsleep, LoadedFree
  <2>5. SomeoneWillUnpark'
    BY <1>21 DEF UnlockSlowWake, TypeOK, SomeoneWillUnpark, ParkedBitCoversQueue,
       UnlockAssertions, WakingAsleep
  <2>6. HeldMeansOwner'
    BY <1>21 DEF UnlockSlowWake, TypeOK, HeldMeansOwner, MutualExclusion, UnlockAssertions,
       WakingAsleep, LoadedFree
  <2>7. LoadedFree'
    BY <1>21 DEF UnlockSlowWake, TypeOK, LoadedFree, WakingAsleep
  <2>8. QueueAsleep'
    BY <1>21 DEF UnlockSlowWake, TypeOK, QueueAsleep, WakingAsleep
  <2>9. WakingAsleep'
    BY <1>21 DEF UnlockSlowWake, TypeOK, WakingAsleep, QueueAsleep
  <2> QED
    BY <2>1, <2>2, <2>3, <2>4, <2>5, <2>6, <2>7, <2>8, <2>9
<1> QED
  BY <1>a, <1>1, <1>2, <1>3, <1>4, <1>5, <1>6, <1>7, <1>8, <1>9, <1>10, <1>11, <1>12, <1>13,
     <1>14, <1>15, <1>16, <1>17, <1>18, <1>19, <1>20, <1>21
     DEF Next, Call, Run, LockCAS, UnlockCAS

\* IInv holds in every reachable state.
THEOREM IInvAlways == Spec => []IInv
  BY InitIInv, NextIInv, PTL DEF Spec

\* Type correctness of the byte, the queue and the locals.
THEOREM TypeCorrect == Spec => []TypeOK
<1>1. IInv => TypeOK
  BY DEF IInv
<1> QED
  BY <1>1, IInvAlways, PTL

\* lock() and tryLock() never let two threads in.
THEOREM MutualExclusionAlways == Spec => []MutualExclusion
<1>1. IInv => MutualExclusion
  BY DEF IInv
<1> QED
  BY <1>1, IInvAlways, PTL

\* The parked bit is set as long as a thread is parked.
THEOREM ParkedBitAlways == Spec => []ParkedBitCoversQueue
<1>1. IInv => ParkedBitCoversQueue
  BY DEF IInv
<1> QED
  BY <1>1, IInvAlways, PTL

\* The assertions of unlockSlow() never fail.
THEOREM UnlockAssertionsAlways == Spec => []UnlockAssertions
<1>1. IInv => UnlockAssertions
  BY DEF IInv
<1> QED
  BY <1>1, IInvAlways, PTL

\* While threads are parked on a free lock, a thread that will take it is awake.
THEOREM SomeoneWillUnparkAlways == Spec => []SomeoneWillUnpark
<1>1. IInv => SomeoneWillUnpark
  BY DEF IInv
<1> QED
  BY <1>1, IInvAlways, PTL

-----------------------------------------------------------------------------
\* With mutual exclusion the abstract owner is the one thread that holds the lock.
LEMMA OwnerHolds ==
  ASSUME MutualExclusion, NEW t \in Threads, HoldsLock(t)
  PROVE  Owner = t
  BY DEF Owner, MutualExclusion

LEMMA OwnerFree ==
  ASSUME \A t \in Threads : ~HoldsLock(t)
  PROVE  Owner = NoThread
  BY DEF Owner

\* The same two facts about the next state.
LEMMA OwnerHoldsNext ==
  ASSUME MutualExclusion', NEW t \in Threads, HoldsLock(t)'
  PROVE  Owner' = t
  BY DEF Owner, MutualExclusion

LEMMA OwnerFreeNext ==
  ASSUME \A t \in Threads : ~HoldsLock(t)'
  PROVE  Owner' = NoThread
  BY DEF Owner

\* A step that leaves every thread's claim to the lock alone is a stutter.
LEMMA OwnerStutters ==
  ASSUME MutualExclusion, MutualExclusion',
         \A u \in Threads : HoldsLock(u)' <=> HoldsLock(u)
  PROVE  UNCHANGED Owner
<1>1. CASE \E t \in Threads : HoldsLock(t)
  <2> PICK t \in Threads : HoldsLock(t)
    BY <1>1
  <2> QED
    BY OwnerHolds, OwnerHoldsNext
<1>2. CASE \A t \in Threads : ~HoldsLock(t)
  BY <1>2, OwnerFree, OwnerFreeNext
<1> QED
  BY <1>1, <1>2

\* Every step of Lock is a step of Mutex or leaves the owner alone.
LEMMA StepRefines == IInv /\ IInv' /\ [Next]_vars => [Abstract!Next]_Owner
<1> SUFFICES ASSUME IInv, IInv', [Next]_vars PROVE [Abstract!Next]_Owner
  OBVIOUS
<1>m. MutualExclusion /\ MutualExclusion' /\ TypeOK /\ WakingAsleep
  BY DEF IInv
<1> USE DEF Goto, HoldsLock
<1>1. ASSUME NEW t \in Threads, LockFast(t) \/ LockSlowAcquire(t) \/ TryLockAcquire(t)
      PROVE  Abstract!Acquire(t)
  <2>1. \A u \in Threads : ~HoldsLock(u)
    BY <1>1 DEF LockFast, LockSlowAcquire, TryLockAcquire, IInv, LoadedFree, UnlockAssertions, Zero
  <2>2. HoldsLock(t)'
    BY <1>1, <1>m DEF LockFast, LockSlowAcquire, TryLockAcquire, TypeOK
  <2> QED
    BY <1>m, <2>1, <2>2, OwnerFree, OwnerHoldsNext DEF Abstract!Acquire
<1>2. ASSUME NEW t \in Threads,
             UnlockFast(t) \/ UnlockSlowRelease(t) \/ UnlockSlowUnpark(t) \/ UnlockSlowUnparkNone(t)
      PROVE  Abstract!Release(t)
  <2> USE DEF UnlockFast, UnlockSlowRelease, UnlockSlowUnpark, UnlockSlowUnparkNone
  <2>1. HoldsLock(t)
    BY <1>2
  <2>2. \A u \in Threads : ~HoldsLock(u)'
    <3>1. ~HoldsLock(t)'
      BY <1>2, <1>m DEF TypeOK
    <3>2. ASSUME NEW u \in Threads, u # t PROVE ~HoldsLock(u)'
      <4>1. ~HoldsLock(u)
        BY <2>1, <3>2, <1>m DEF MutualExclusion
      <4> QED
        BY <1>2, <1>m, <3>2, <4>1 DEF TypeOK
    <3> QED
      BY <3>1, <3>2
  <2> QED
    BY <1>m, <2>1, <2>2, OwnerHolds, OwnerFreeNext DEF Abstract!Release
<1>3. UNCHANGED vars => UNCHANGED Owner
  BY <1>m, OwnerStutters DEF vars
<1>4. ASSUME NEW t \in Threads, LockFastFails(t) PROVE UNCHANGED Owner
  BY <1>m, <1>4, OwnerStutters DEF LockFastFails, TypeOK
<1>5. ASSUME NEW t \in Threads, LockSlowLoad(t) PROVE UNCHANGED Owner
  BY <1>m, <1>5, OwnerStutters DEF LockSlowLoad, SpinOrPark, TypeOK
<1>6. ASSUME NEW t \in Threads, LockSlowAcquireFails(t) PROVE UNCHANGED Owner
  BY <1>m, <1>6, OwnerStutters DEF LockSlowAcquireFails, SpinOrPark, TypeOK
<1>7. ASSUME NEW t \in Threads, LockSlowSetParked(t) PROVE UNCHANGED Owner
  BY <1>m, <1>7, OwnerStutters DEF LockSlowSetParked, TypeOK
<1>8. ASSUME NEW t \in Threads, LockSlowSetParkedFails(t) PROVE UNCHANGED Owner
  BY <1>m, <1>8, OwnerStutters DEF LockSlowSetParkedFails, TypeOK
<1>9. ASSUME NEW t \in Threads, LockSlowPark(t) PROVE UNCHANGED Owner
  BY <1>m, <1>9, OwnerStutters DEF LockSlowPark, TypeOK
<1>10. ASSUME NEW t \in Threads, LockSlowParkInvalid(t) PROVE UNCHANGED Owner
  BY <1>m, <1>10, OwnerStutters DEF LockSlowParkInvalid, TypeOK
<1>11. ASSUME NEW t \in Threads, TryLockCall(t) PROVE UNCHANGED Owner
  BY <1>m, <1>11, OwnerStutters DEF TryLockCall, TypeOK
<1>12. ASSUME NEW t \in Threads, TryLockLoad(t) PROVE UNCHANGED Owner
  BY <1>m, <1>12, OwnerStutters DEF TryLockLoad, TypeOK
<1>13. ASSUME NEW t \in Threads, TryLockAcquireFails(t) PROVE UNCHANGED Owner
  BY <1>m, <1>13, OwnerStutters DEF TryLockAcquireFails, TypeOK
<1>14. ASSUME NEW t \in Threads, UnlockFastFails(t) PROVE UNCHANGED Owner
  BY <1>m, <1>14, OwnerStutters DEF UnlockFastFails, TypeOK
<1>15. ASSUME NEW t \in Threads, UnlockSlowLoad(t) PROVE UNCHANGED Owner
  BY <1>m, <1>15, OwnerStutters DEF UnlockSlowLoad, TypeOK
<1>16. ASSUME NEW t \in Threads, UnlockSlowReleaseFails(t) PROVE UNCHANGED Owner
  BY <1>m, <1>16, OwnerStutters DEF UnlockSlowReleaseFails, TypeOK
<1>17. ASSUME NEW t \in Threads, UnlockSlowWake(t) PROVE UNCHANGED Owner
  BY <1>m, <1>17, OwnerStutters DEF UnlockSlowWake, WakingAsleep, TypeOK
<1> QED
  BY <1>1, <1>2, <1>3, <1>4, <1>5, <1>6, <1>7, <1>8, <1>9, <1>10, <1>11, <1>12, <1>13, <1>14, <1>15, <1>16, <1>17
     DEF Next, Call, Run, LockCAS, UnlockCAS, Abstract!Next

\* Lock implements the abstract mutex for any set of threads.
THEOREM LockImplementsMutex == Spec => ImplementsMutex
<1>1. Init => Abstract!Init
  <2> SUFFICES ASSUME Init PROVE Owner = NoThread
    BY DEF Abstract!Init
  <2>1. \A t \in Threads : ~HoldsLock(t)
    BY DEF Init, HoldsLock
  <2> QED
    BY <2>1, OwnerFree
<1> QED
  BY <1>1, IInvAlways, StepRefines, PTL DEF Spec, ImplementsMutex, Abstract!Spec

-----------------------------------------------------------------------------
(***************************************************************************)
(* Condition, the other client of the ParkingLot.  It shares neither       *)
(* constants nor variables with Lock.                                      *)
(***************************************************************************)
AtType == at \in [Clients -> Places]

WaitIInv == AtType /\ WaitersAreAnnounced

LEMMA InitWaitIInv == ConditionInit => WaitIInv
  BY DEF ConditionInit, WaitIInv, AtType, Places, WaitersAreAnnounced

LEMMA NextWaitIInv ==
  ASSUME WaitIInv, [ConditionNext]_conditionVars
  PROVE  WaitIInv'
<1> USE DEF WaitIInv, AtType, Places, WaitersAreAnnounced, Move
<1>1. ASSUME NEW t \in Consumers, Consumer(t) PROVE WaitIInv'
  <2>0. t \in Clients /\ t \notin Producers
    BY ConditionAssumption DEF Clients
  <2>1. CASE ConsumerLock(t)
    BY <2>0, <2>1 DEF ConsumerLock, Acquire
  <2>2. CASE WaitRelock(t)
    BY <2>0, <2>2 DEF WaitRelock, Acquire
  <2>3. CASE WaitRelockTimedOut(t)
    BY <2>0, <2>3 DEF WaitRelockTimedOut, Acquire
  <2>4. CASE Consume(t)
    BY <2>0, <2>4 DEF Consume
  <2>5. CASE WaitUnlock(t)
    BY <2>0, <2>5 DEF WaitUnlock
  <2>6. CASE WaitWakeUp(t)
    BY <2>0, <2>6 DEF WaitWakeUp
  <2>7. CASE WaitTimedOut(t)
    BY <2>0, <2>7 DEF WaitTimedOut
  <2>8. CASE WaitPark(t)
    BY <2>0, <2>8 DEF WaitPark
  <2> QED
    BY <1>1, <2>1, <2>2, <2>3, <2>4, <2>5, <2>6, <2>7, <2>8 DEF Consumer
<1>2. ASSUME NEW t \in Consumers, TimeOut(t) PROVE WaitIInv'
  <2>0. t \in Clients /\ t \notin Producers
    BY ConditionAssumption DEF Clients
  <2>1. CASE WaitPastTimeout(t)
    BY <2>0, <2>1 DEF WaitPastTimeout
  <2>2. CASE WaitTimeOut(t)
    <3>1. waiters # <<>>
      BY <2>2 DEF WaitTimeOut, Contains
    <3> QED
      BY <2>0, <2>2, <3>1 DEF WaitTimeOut
  <2> QED
    BY <1>2, <2>1, <2>2 DEF TimeOut
<1>3. ASSUME NEW t \in Producers, ProducerLock(t) \/ ProducerRun(t) PROVE WaitIInv'
  <2>0. t \in Clients
    BY ConditionAssumption DEF Clients
  <2>1. CASE ProducerLock(t)
    BY <2>0, <2>1 DEF ProducerLock, Acquire
  <2>2. CASE Produce(t)
    BY <2>0, <2>2 DEF Produce
  <2>3. CASE ProducerUnlockFirst(t)
    BY <2>0, <2>3 DEF ProducerUnlockFirst
  <2>4. CASE NotifyOneNobody(t)
    BY <2>0, <2>4 DEF NotifyOneNobody
  <2>5. CASE NotifyOneLoad(t)
    BY <2>0, <2>5 DEF NotifyOneLoad
  <2>6. CASE NotifyOneUnpark(t)
    BY <2>0, <2>6 DEF NotifyOneUnpark
  <2>7. CASE NotifyAllNobody(t)
    BY <2>0, <2>7 DEF NotifyAllNobody
  <2>8. CASE NotifyAllLoad(t)
    BY <2>0, <2>8 DEF NotifyAllLoad
  <2>9. CASE NotifyAllClear(t)
    BY <2>0, <2>9 DEF NotifyAllClear
  <2>10. CASE NotifyAllUnpark(t)
    BY <2>0, <2>10 DEF NotifyAllUnpark
  <2> QED
    BY <1>3, <2>1, <2>2, <2>3, <2>4, <2>5, <2>6, <2>7, <2>8, <2>9, <2>10 DEF ProducerRun
<1>4. CASE UNCHANGED conditionVars
  BY <1>4 DEF conditionVars
<1> QED
  BY <1>1, <1>2, <1>3, <1>4 DEF ConditionNext

\* notifyOne() and notifyAll() never overlook a thread that waits.
THEOREM WaitersAreAnnouncedAlways == ConditionSpec => []WaitersAreAnnounced
<1>1. WaitIInv => WaitersAreAnnounced
  BY DEF WaitIInv
<1>2. WaitIInv /\ [ConditionNext]_conditionVars => WaitIInv'
  BY NextWaitIInv
<1> QED
  BY <1>1, <1>2, InitWaitIInv, PTL DEF ConditionSpec
=============================================================================
