------------------------------ MODULE WordLock ------------------------------
(***************************************************************************)
(* WTF::WordLock (WTF/wtf/WordLock.h, WTF/wtf/WordLock.cpp): the adaptive  *)
(* mutex that guards the buckets of the ParkingLot.  One machine word      *)
(* holds the lock bit, the bit of a spinlock that protects the queue of    *)
(* parked threads, and the pointer to the head of that queue.  The queue   *)
(* is threaded through the per-thread ThreadData; its head also carries    *)
(* the pointer to the tail.                                                *)
(*                                                                         *)
(* One action is one access to the word or to another thread's data.  A    *)
(* load and the compare-and-swap that uses the loaded value are two steps, *)
(* so every other thread may run in between.  compareExchangeWeak may fail *)
(* although the word has the expected value.                               *)
(***************************************************************************)
EXTENDS Naturals, FiniteSets

CONSTANTS Threads,     \* the threads that contend for the lock
          NoThread,    \* the null ThreadData pointer
          SpinLimit    \* lockSlow()'s spinLimit

ASSUME ConstantsAssumption ==
  /\ NoThread \notin Threads
  /\ SpinLimit \in Nat

VARIABLES
  word,         \* m_word: the two bits and the queue head
  pc,           \* where each thread is in lock() / unlock()
  cur,          \* currentWordValue, local to lockSlow() and unlockSlow()
  spinCount,    \* local to lockSlow()
  queueHead,    \* local to lockSlow() and unlockSlow()
  shouldPark,   \* ThreadData::shouldPark
  nextInQueue,  \* ThreadData::nextInQueue
  queueTail     \* ThreadData::queueTail

vars == <<word, pc, cur, spinCount, queueHead, shouldPark, nextInQueue, queueTail>>
threadData == <<shouldPark, nextInQueue, queueTail>>

Pointer == Threads \cup {NoThread}
Word == [locked : BOOLEAN, queueLocked : BOOLEAN, head : Pointer]

\* The word of a lock that nobody holds, and of one held without contention.
Unlocked     == [locked |-> FALSE, queueLocked |-> FALSE, head |-> NoThread]
IsLockedOnly == [locked |-> TRUE,  queueLocked |-> FALSE, head |-> NoThread]

(***************************************************************************)
(* Control points.  "idle": outside the lock; "critical": lock() returned. *)
(* ls...: lockSlow(); us...: unlockSlow().                                 *)
(***************************************************************************)
LockSlowPC == {"lsLoad", "lsAcquire", "lsReload", "lsLockQueue", "lsLink",
               "lsRelease", "lsStore", "lsPark", "lsAsleep"}
UnlockSlowPC == {"usLoad", "usRelease", "usLockQueue", "usDequeue", "usStore",
                 "usClear", "usUnpark", "usNotify"}
PC == {"idle", "critical"} \cup LockSlowPC \cup UnlockSlowPC

\* The control points at which a thread owns the lock, and the queue lock.
HoldsLockPC  == {"critical", "usLoad", "usRelease", "usLockQueue", "usDequeue", "usStore"}
HoldsQueuePC == {"lsLink", "lsRelease", "lsStore", "usDequeue", "usStore"}

Init ==
  /\ word = Unlocked
  /\ pc = [t \in Threads |-> "idle"]
  /\ cur = [t \in Threads |-> Unlocked]
  /\ spinCount = [t \in Threads |-> 0]
  /\ queueHead = [t \in Threads |-> NoThread]
  /\ shouldPark = [t \in Threads |-> FALSE]
  /\ nextInQueue = [t \in Threads |-> NoThread]
  /\ queueTail = [t \in Threads |-> NoThread]

Goto(t, from, to) ==
  /\ pc[t] = from
  /\ pc' = [pc EXCEPT ![t] = to]

(***************************************************************************)
(* lock(): the inlined fast path.                                          *)
(***************************************************************************)
LockFast(t) ==
  /\ word = Unlocked
  /\ Goto(t, "idle", "critical")
  /\ word' = IsLockedOnly
  /\ UNCHANGED <<cur, spinCount, queueHead, threadData>>

\* The weak compare-and-swap of the fast path failed, spuriously or not.
LockFastFails(t) ==
  /\ Goto(t, "idle", "lsLoad")
  /\ spinCount' = [spinCount EXCEPT ![t] = 0]
  /\ UNCHANGED <<word, cur, queueHead, threadData>>

(***************************************************************************)
(* lockSlow().                                                             *)
(***************************************************************************)

\* What lockSlow() does next when it could not take the lock with the loaded
\* value w: spin while there is no queue, otherwise go and enqueue itself.
SpinOrEnqueue(t, w) ==
  IF w.head = NoThread /\ spinCount[t] < SpinLimit
    THEN /\ pc' = [pc EXCEPT ![t] = "lsLoad"]
         /\ spinCount' = [spinCount EXCEPT ![t] = @ + 1]
    ELSE /\ pc' = [pc EXCEPT ![t] = "lsReload"]
         /\ UNCHANGED spinCount

LockSlowLoad(t) ==
  /\ pc[t] = "lsLoad"
  /\ cur' = [cur EXCEPT ![t] = word]
  /\ IF word.locked
       THEN SpinOrEnqueue(t, word)
       ELSE pc' = [pc EXCEPT ![t] = "lsAcquire"] /\ UNCHANGED spinCount
  /\ UNCHANGED <<word, queueHead, threadData>>

\* Fault: the lock bit is set with a store instead of a compare-and-swap.
LockSlowAcquireStores(t) ==
  /\ Goto(t, "lsAcquire", "critical")
  /\ word' = [cur[t] EXCEPT !.locked = TRUE]
  /\ UNCHANGED <<cur, spinCount, queueHead, threadData>>

LockSlowAcquire(t) ==
  /\ word = cur[t]
  /\ Goto(t, "lsAcquire", "critical")
  /\ word' = [word EXCEPT !.locked = TRUE]
  /\ UNCHANGED <<cur, spinCount, queueHead, threadData>>

LockSlowAcquireFails(t) ==
  /\ pc[t] = "lsAcquire"
  /\ SpinOrEnqueue(t, cur[t])
  /\ UNCHANGED <<word, cur, queueHead, threadData>>

\* Fault: the queue lock is taken although somebody holds it.
LockSlowReloadNoQueueCheck(t) ==
  /\ pc[t] = "lsReload"
  /\ cur' = [cur EXCEPT ![t] = word]
  /\ pc' = [pc EXCEPT ![t] = IF ~word.locked THEN "lsLoad" ELSE "lsLockQueue"]
  /\ UNCHANGED <<word, spinCount, queueHead, threadData>>

\* "Reload the current word value, since some time may have passed."
LockSlowReload(t) ==
  /\ pc[t] = "lsReload"
  /\ cur' = [cur EXCEPT ![t] = word]
  /\ pc' = [pc EXCEPT ![t] = IF word.queueLocked \/ ~word.locked
                               THEN "lsLoad" ELSE "lsLockQueue"]
  /\ UNCHANGED <<word, spinCount, queueHead, threadData>>

LockSlowLockQueue(t) ==
  /\ word = cur[t]
  /\ Goto(t, "lsLockQueue", "lsLink")
  /\ word' = [word EXCEPT !.queueLocked = TRUE]
  /\ UNCHANGED <<cur, spinCount, queueHead, threadData>>

LockSlowLockQueueFails(t) ==
  /\ Goto(t, "lsLockQueue", "lsLoad")
  /\ UNCHANGED <<word, cur, spinCount, queueHead, threadData>>

\* me->shouldPark = true, and me at the tail of the queue that currentWordValue
\* points to, or a queue of its own.
LockSlowLink(t) ==
  LET head == cur[t].head IN
  /\ Goto(t, "lsLink", "lsRelease")
  /\ shouldPark' = [shouldPark EXCEPT ![t] = TRUE]
  /\ IF head # NoThread
       THEN /\ nextInQueue' = [nextInQueue EXCEPT ![queueTail[head]] = t]
            /\ queueTail' = [queueTail EXCEPT ![head] = t]
            /\ queueHead' = [queueHead EXCEPT ![t] = head]
       ELSE /\ queueTail' = [queueTail EXCEPT ![t] = t]
            /\ queueHead' = [queueHead EXCEPT ![t] = t]
            /\ UNCHANGED nextInQueue
  /\ UNCHANGED <<word, cur, spinCount>>

\* The queue lock is released by a load and a plain store: "No need for a CAS
\* loop, since we own the queue lock."
LockSlowRelease(t) ==
  /\ Goto(t, "lsRelease", "lsStore")
  /\ cur' = [cur EXCEPT ![t] = word]
  /\ UNCHANGED <<word, spinCount, queueHead, threadData>>

LockSlowStore(t) ==
  /\ Goto(t, "lsStore", "lsPark")
  /\ word' = [cur[t] EXCEPT !.queueLocked = FALSE,
                            !.head = IF queueHead[t] = t THEN t ELSE @]
  /\ queueHead' = [queueHead EXCEPT ![t] = NoThread]
  /\ UNCHANGED <<cur, spinCount, threadData>>

\* while (me->shouldPark) me->parkingCondition.wait(locker), under parkingLock.
LockSlowPark(t) ==
  /\ pc[t] = "lsPark"
  /\ pc' = [pc EXCEPT ![t] = IF shouldPark[t] THEN "lsAsleep" ELSE "lsLoad"]
  /\ UNCHANGED <<word, cur, spinCount, queueHead, threadData>>

\* A std::condition_variable may wake up without having been notified.
SpuriousWakeUp(t) ==
  /\ Goto(t, "lsAsleep", "lsPark")
  /\ UNCHANGED <<word, cur, spinCount, queueHead, threadData>>

(***************************************************************************)
(* unlock(): the inlined fast path.                                        *)
(***************************************************************************)
UnlockFast(t) ==
  /\ word = IsLockedOnly
  /\ Goto(t, "critical", "idle")
  /\ word' = Unlocked
  /\ UNCHANGED <<cur, spinCount, queueHead, threadData>>

UnlockFastFails(t) ==
  /\ Goto(t, "critical", "usLoad")
  /\ UNCHANGED <<word, cur, spinCount, queueHead, threadData>>

(***************************************************************************)
(* unlockSlow().                                                           *)
(***************************************************************************)

UnlockSlowLoad(t) ==
  /\ pc[t] = "usLoad"
  /\ cur' = [cur EXCEPT ![t] = word]
  /\ pc' = [pc EXCEPT ![t] = IF word = IsLockedOnly THEN "usRelease"
                             ELSE IF word.queueLocked THEN "usLoad"
                             ELSE "usLockQueue"]
  /\ UNCHANGED <<word, spinCount, queueHead, threadData>>

UnlockSlowRelease(t) ==
  /\ word = IsLockedOnly
  /\ Goto(t, "usRelease", "idle")
  /\ word' = Unlocked
  /\ UNCHANGED <<cur, spinCount, queueHead, threadData>>

UnlockSlowLockQueue(t) ==
  /\ word = cur[t]
  /\ Goto(t, "usLockQueue", "usDequeue")
  /\ word' = [word EXCEPT !.queueLocked = TRUE]
  /\ UNCHANGED <<cur, spinCount, queueHead, threadData>>

UnlockSlowFails(t) ==
  /\ Goto(t, "usRelease", "usLoad") \/ Goto(t, "usLockQueue", "usLoad")
  /\ UNCHANGED <<word, cur, spinCount, queueHead, threadData>>

\* Fault: the new head does not learn where the queue ends.
UnlockSlowDequeueNoTail(t) ==
  /\ Goto(t, "usDequeue", "usStore")
  /\ queueHead' = [queueHead EXCEPT ![t] = word.head]
  /\ cur' = [cur EXCEPT ![t] = [Unlocked EXCEPT !.head = nextInQueue[word.head]]]
  /\ UNCHANGED <<word, spinCount, threadData>>

\* The thread after the head takes over the duties of the queue head.  cur
\* becomes newWordValue: both bits cleared, the new head installed.
UnlockSlowDequeue(t) ==
  LET head == word.head
      newQueueHead == nextInQueue[head]
  IN
  /\ Goto(t, "usDequeue", "usStore")
  /\ queueHead' = [queueHead EXCEPT ![t] = head]
  /\ cur' = [cur EXCEPT ![t] = [Unlocked EXCEPT !.head = newQueueHead]]
  /\ queueTail' = IF newQueueHead = NoThread THEN queueTail
                  ELSE [queueTail EXCEPT ![newQueueHead] = queueTail[head]]
  /\ UNCHANGED <<word, spinCount, shouldPark, nextInQueue>>

\* Releases the lock and the queue lock and installs the new head, with a store.
UnlockSlowStore(t) ==
  /\ Goto(t, "usStore", "usClear")
  /\ word' = cur[t]
  /\ UNCHANGED <<cur, spinCount, queueHead, threadData>>

UnlockSlowClear(t) ==
  /\ Goto(t, "usClear", "usUnpark")
  /\ nextInQueue' = [nextInQueue EXCEPT ![queueHead[t]] = NoThread]
  /\ queueTail' = [queueTail EXCEPT ![queueHead[t]] = NoThread]
  /\ UNCHANGED <<word, cur, spinCount, queueHead, shouldPark>>

\* Fault: the woken thread is told to park on.
UnlockSlowUnparkNoClear(t) ==
  /\ Goto(t, "usUnpark", "usNotify")
  /\ UNCHANGED <<word, cur, spinCount, queueHead, threadData>>

\* queueHead->shouldPark = false, under queueHead->parkingLock.
UnlockSlowUnpark(t) ==
  /\ Goto(t, "usUnpark", "usNotify")
  /\ shouldPark' = [shouldPark EXCEPT ![queueHead[t]] = FALSE]
  /\ UNCHANGED <<word, cur, spinCount, queueHead, nextInQueue, queueTail>>

\* queueHead->parkingCondition.notify_one(), after parkingLock was released.
UnlockSlowNotify(t) ==
  LET head == queueHead[t] IN
  /\ pc[t] = "usNotify"
  /\ pc' = [pc EXCEPT ![t] = "idle", ![head] = IF @ = "lsAsleep" THEN "lsPark" ELSE @]
  /\ queueHead' = [queueHead EXCEPT ![t] = NoThread]
  /\ UNCHANGED <<word, cur, spinCount, threadData>>

-----------------------------------------------------------------------------
\* The client calls lock(): outside of it, a thread is free never to do so.
LockCall(t) == LockFast(t) \/ LockFastFails(t)

\* A compare-and-swap in a slow path, when the word has the loaded value.
LockCAS(t)   == LockSlowAcquire(t)
UnlockCAS(t) == UnlockSlowRelease(t) \/ UnlockSlowLockQueue(t)

\* Every other step of a thread that is awake.
Run(t) ==
  \/ LockCAS(t) \/ UnlockCAS(t)
  \/ LockSlowLoad(t) \/ LockSlowAcquireFails(t) \/ LockSlowReload(t)
  \/ LockSlowLockQueue(t) \/ LockSlowLockQueueFails(t) \/ LockSlowLink(t)
  \/ LockSlowRelease(t) \/ LockSlowStore(t) \/ LockSlowPark(t)
  \/ UnlockFast(t) \/ UnlockFastFails(t) \/ UnlockSlowLoad(t) \/ UnlockSlowFails(t)
  \/ UnlockSlowDequeue(t) \/ UnlockSlowStore(t) \/ UnlockSlowClear(t)
  \/ UnlockSlowUnpark(t) \/ UnlockSlowNotify(t)

Next == \E t \in Threads : LockCall(t) \/ Run(t) \/ SpuriousWakeUp(t)

Spec == Init /\ [][Next]_vars

(***************************************************************************)
(* Fairness.  A thread that is awake keeps running, and a critical section *)
(* ends.  A weak compare-and-swap that is retried does not fail forever    *)
(* although the word has the expected value: for the owner that unlocks,   *)
(* and for some one of the threads that lock (nobody is promised the lock: *)
(* barging is allowed).                                                    *)
(***************************************************************************)
Fairness ==
  /\ \A t \in Threads : WF_vars(Run(t))
  /\ SF_vars(\E t \in Threads : UnlockCAS(t))
  /\ SF_vars(\E t \in Threads : LockCAS(t))

FairSpec == Spec /\ Fairness

-----------------------------------------------------------------------------
TypeOK ==
  /\ word \in Word
  /\ pc \in [Threads -> PC]
  /\ cur \in [Threads -> Word]
  /\ spinCount \in [Threads -> 0..SpinLimit]
  /\ queueHead \in [Threads -> Pointer]
  /\ shouldPark \in [Threads -> BOOLEAN]
  /\ nextInQueue \in [Threads -> Pointer]
  /\ queueTail \in [Threads -> Pointer]

HoldsLock(t)  == pc[t] \in HoldsLockPC
HoldsQueue(t) == pc[t] \in HoldsQueuePC

(***************************************************************************)
(* No two threads are between lock() and the moment unlock() gives the     *)
(* lock up: what clients of WordLock (the ParkingLot buckets) rely on.     *)
(***************************************************************************)
MutualExclusion ==
  \A t, u \in Threads : HoldsLock(t) /\ HoldsLock(u) => t = u

(***************************************************************************)
(* The plain stores of lockSlow() and unlockSlow() overwrite the word they *)
(* loaded, never a newer one: "No need for a CAS loop, since we own the    *)
(* queue lock" and "nothing about the lock can change right now".          *)
(***************************************************************************)
NoLostUpdate ==
  \A t \in Threads :
    /\ pc[t] = "lsStore" => word = cur[t]
    /\ pc[t] = "usStore" => word = [locked |-> TRUE, queueLocked |-> TRUE, head |-> queueHead[t]]

\* The thread reached from the head of the queue by n nextInQueue links.
QueueNode[n \in Nat] ==
  IF n = 0 THEN word.head
  ELSE IF QueueNode[n - 1] = NoThread THEN NoThread ELSE nextInQueue[QueueNode[n - 1]]

\* The threads lockSlow() put on the queue and unlockSlow() did not take off.
Enqueued ==
  {t \in Threads :
     /\ pc[t] \in {"lsPark", "lsAsleep"}
     /\ shouldPark[t]
     /\ ~\E u \in Threads : pc[u] \in {"usClear", "usUnpark"} /\ queueHead[u] = t}

(***************************************************************************)
(* Whenever the queue lock is free, the links from the head in the word    *)
(* visit every thread that parked itself and was not taken off, each once, *)
(* and the head's queueTail is the last of them: so the next thread is     *)
(* appended where the dequeuing thread will find it.                       *)
(***************************************************************************)
QueueIntegrity ==
  ~word.queueLocked =>
    LET n == Cardinality(Enqueued) IN
    /\ {QueueNode[i] : i \in 0..(n - 1)} = Enqueued
    /\ QueueNode[n] = NoThread
    /\ n > 0 => queueTail[word.head] = QueueNode[n - 1]

(***************************************************************************)
(* A thread that parked in lockSlow() is eventually woken to contend for   *)
(* the lock again: no unlock() leaves a parked thread behind for good.     *)
(***************************************************************************)
NoLostWakeUp ==
  \A t \in Threads :
    []<>(pc[t] \notin {"lsPark", "lsAsleep"})

\* The owner of the lock as the clients see it.
Owner == IF \E t \in Threads : HoldsLock(t)
           THEN CHOOSE t \in Threads : HoldsLock(t)
           ELSE NoThread

Abstract == INSTANCE Mutex WITH owner <- Owner

(***************************************************************************)
(* WordLock implements the mutex: the lock passes to a thread only when    *)
(* nobody owns it, and only the owner's unlock() makes it free again.      *)
(***************************************************************************)
ImplementsMutex == Abstract!Spec
=============================================================================
