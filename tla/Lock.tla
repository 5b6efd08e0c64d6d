-------------------------------- MODULE Lock --------------------------------
(***************************************************************************)
(* WTF::Lock (WTF/wtf/Lock.h, WTF/wtf/Lock.cpp): the one-byte adaptive     *)
(* mutex of JavaScriptCore.  One bit says that the lock is held, the other *)
(* that threads may be parked on it.  Barging is allowed.                  *)
(*                                                                         *)
(* The queue is the one that ParkingQueue specifies for the address of the *)
(* byte.  Its operations hold the lock of a ParkingLot bucket, so the      *)
(* validation of a park and the callback of an unpark are atomic with the  *)
(* change of the queue.  The bucket may be shared with other addresses:    *)
(* mayHaveMoreThreads may be true although nobody is parked here.  Waking  *)
(* a dequeued thread is a step of its own.                                 *)
(***************************************************************************)
EXTENDS Naturals, Sequences

CONSTANTS Threads,     \* the threads that contend for the lock
          NoThread,    \* no thread
          SpinLimit    \* lockSlow()'s spinLimit

ASSUME ConstantsAssumption ==
  /\ NoThread \notin Threads
  /\ SpinLimit \in Nat

VARIABLES
  byte,       \* m_byte
  queue,      \* the threads parked on the address of m_byte
  pc,         \* where each thread is
  cur,        \* currentByteValue, oldByteValue
  spinCount,  \* local to lockSlow()
  waking      \* the thread an unlocker dequeued and has yet to wake

vars == <<byte, queue, pc, cur, spinCount, waking>>

Byte == [held : BOOLEAN, parked : BOOLEAN]
Zero          == [held |-> FALSE, parked |-> FALSE]
IsHeld        == [held |-> TRUE,  parked |-> FALSE]
HeldAndParked == [held |-> TRUE,  parked |-> TRUE]

\* Control points.  ls...: lockSlow(); tl...: tryLock(); us...: unlockSlow().
LockSlowPC == {"lsLoad", "lsAcquire", "lsSetParked", "lsPark"}
PC == LockSlowPC \cup
  {"idle", "critical", "asleep", "tlLoad", "tlAcquire", "usLoad", "usRelease", "usUnpark", "usWake"}

Init ==
  /\ byte = Zero
  /\ queue = <<>>
  /\ pc = [t \in Threads |-> "idle"]
  /\ cur = [t \in Threads |-> Zero]
  /\ spinCount = [t \in Threads |-> 0]
  /\ waking = [t \in Threads |-> NoThread]

Goto(t, from, to) ==
  /\ pc[t] = from
  /\ pc' = [pc EXCEPT ![t] = to]

(***************************************************************************)
(* lock() and lockSlow().                                                  *)
(***************************************************************************)
LockFast(t) ==
  /\ byte = Zero
  /\ Goto(t, "idle", "critical")
  /\ byte' = IsHeld
  /\ UNCHANGED <<queue, cur, spinCount, waking>>

LockFastFails(t) ==
  /\ Goto(t, "idle", "lsLoad")
  /\ spinCount' = [spinCount EXCEPT ![t] = 0]
  /\ UNCHANGED <<byte, queue, cur, waking>>

\* The lock could not be taken with the loaded value b: spin while nobody is
\* parked, otherwise park, after setting the parked bit if it is not set.
SpinOrPark(t, b) ==
  IF ~b.parked /\ spinCount[t] < SpinLimit
    THEN /\ pc' = [pc EXCEPT ![t] = "lsLoad"]
         /\ spinCount' = [spinCount EXCEPT ![t] = @ + 1]
    ELSE /\ pc' = [pc EXCEPT ![t] = IF b.parked THEN "lsPark" ELSE "lsSetParked"]
         /\ UNCHANGED spinCount

LockSlowLoad(t) ==
  /\ pc[t] = "lsLoad"
  /\ cur' = [cur EXCEPT ![t] = byte]
  /\ IF byte.held
       THEN SpinOrPark(t, byte)
       ELSE pc' = [pc EXCEPT ![t] = "lsAcquire"] /\ UNCHANGED spinCount
  /\ UNCHANGED <<byte, queue, waking>>

LockSlowAcquire(t) ==
  /\ byte = cur[t]
  /\ Goto(t, "lsAcquire", "critical")
  /\ byte' = [byte EXCEPT !.held = TRUE]
  /\ UNCHANGED <<queue, cur, spinCount, waking>>

LockSlowAcquireFails(t) ==
  /\ pc[t] = "lsAcquire"
  /\ SpinOrPark(t, cur[t])
  /\ UNCHANGED <<byte, queue, cur, waking>>

LockSlowSetParked(t) ==
  /\ byte = cur[t]
  /\ Goto(t, "lsSetParked", "lsPark")
  /\ byte' = [byte EXCEPT !.parked = TRUE]
  /\ UNCHANGED <<queue, cur, spinCount, waking>>

LockSlowSetParkedFails(t) ==
  /\ Goto(t, "lsSetParked", "lsLoad")
  /\ UNCHANGED <<byte, queue, cur, spinCount, waking>>

\* compareAndPark(&m_byte, isHeldBit | hasParkedBit).
LockSlowPark(t) ==
  /\ byte = HeldAndParked
  /\ Goto(t, "lsPark", "asleep")
  /\ queue' = Append(queue, t)
  /\ UNCHANGED <<byte, cur, spinCount, waking>>

LockSlowParkInvalid(t) ==
  /\ byte # HeldAndParked
  /\ Goto(t, "lsPark", "lsLoad")
  /\ UNCHANGED <<byte, queue, cur, spinCount, waking>>

(***************************************************************************)
(* tryLock().                                                              *)
(***************************************************************************)
TryLockCall(t) ==
  /\ Goto(t, "idle", "tlLoad")
  /\ UNCHANGED <<byte, queue, cur, spinCount, waking>>

TryLockLoad(t) ==
  /\ Goto(t, "tlLoad", IF byte.held THEN "idle" ELSE "tlAcquire")
  /\ cur' = [cur EXCEPT ![t] = byte]
  /\ UNCHANGED <<byte, queue, spinCount, waking>>

\* Fault: a plain store where the code has a compare-and-swap.
TryLockAcquireStores(t) ==
  /\ Goto(t, "tlAcquire", "critical")
  /\ byte' = [cur[t] EXCEPT !.held = TRUE]
  /\ UNCHANGED <<queue, cur, spinCount, waking>>

TryLockAcquire(t) ==
  /\ byte = cur[t]
  /\ Goto(t, "tlAcquire", "critical")
  /\ byte' = [byte EXCEPT !.held = TRUE]
  /\ UNCHANGED <<queue, cur, spinCount, waking>>

TryLockAcquireFails(t) ==
  /\ Goto(t, "tlAcquire", "tlLoad")
  /\ UNCHANGED <<byte, queue, cur, spinCount, waking>>

(***************************************************************************)
(* unlock() and unlockSlow().                                              *)
(***************************************************************************)
UnlockFast(t) ==
  /\ byte = IsHeld
  /\ Goto(t, "critical", "idle")
  /\ byte' = Zero
  /\ UNCHANGED <<queue, cur, spinCount, waking>>

UnlockFastFails(t) ==
  /\ Goto(t, "critical", "usLoad")
  /\ UNCHANGED <<byte, queue, cur, spinCount, waking>>

UnlockSlowLoad(t) ==
  /\ Goto(t, "usLoad", IF byte = IsHeld THEN "usRelease" ELSE "usUnpark")
  /\ cur' = [cur EXCEPT ![t] = byte]
  /\ UNCHANGED <<byte, queue, spinCount, waking>>

UnlockSlowRelease(t) ==
  /\ byte = IsHeld
  /\ Goto(t, "usRelease", "idle")
  /\ byte' = Zero
  /\ UNCHANGED <<queue, cur, spinCount, waking>>

UnlockSlowReleaseFails(t) ==
  /\ Goto(t, "usRelease", "usLoad")
  /\ UNCHANGED <<byte, queue, cur, spinCount, waking>>

\* Fault: the byte is cleared before the queue is looked at.
UnlockSlowUnparkForgetsOthers(t) ==
  /\ queue # <<>>
  /\ Goto(t, "usUnpark", "usWake")
  /\ waking' = [waking EXCEPT ![t] = Head(queue)]
  /\ queue' = Tail(queue)
  /\ byte' = Zero
  /\ UNCHANGED <<cur, spinCount>>

\* unparkOne() found a parked thread; its callback releases the lock, and leaves
\* the parked bit set if there may be other threads on the queue.
UnlockSlowUnpark(t) ==
  /\ queue # <<>>
  /\ Goto(t, "usUnpark", "usWake")
  /\ waking' = [waking EXCEPT ![t] = Head(queue)]
  /\ queue' = Tail(queue)
  /\ \E mayHaveMoreThreads \in BOOLEAN :
       /\ Tail(queue) # <<>> => mayHaveMoreThreads
       /\ byte' = [held |-> FALSE, parked |-> mayHaveMoreThreads]
  /\ UNCHANGED <<cur, spinCount>>

\* unparkOne() found nobody.
UnlockSlowUnparkNone(t) ==
  /\ queue = <<>>
  /\ Goto(t, "usUnpark", "idle")
  /\ byte' = Zero
  /\ UNCHANGED <<queue, cur, spinCount, waking>>

\* Fault: the thread that was dequeued is not woken.
UnlockSlowWakeForgotten(t) ==
  /\ Goto(t, "usWake", "idle")
  /\ waking' = [waking EXCEPT ![t] = NoThread]
  /\ UNCHANGED <<byte, queue, cur, spinCount>>

UnlockSlowWake(t) ==
  /\ pc[t] = "usWake"
  /\ pc' = [pc EXCEPT ![t] = "idle", ![waking[t]] = "lsLoad"]
  /\ waking' = [waking EXCEPT ![t] = NoThread]
  /\ UNCHANGED <<byte, queue, cur, spinCount>>

-----------------------------------------------------------------------------
\* The client calls lock() or tryLock(); it is free never to do so.
Call(t) == LockFast(t) \/ LockFastFails(t) \/ TryLockCall(t)

\* The compare-and-swaps of the loops, when the byte has the loaded value.
LockCAS(t)   == LockSlowAcquire(t) \/ LockSlowSetParked(t) \/ TryLockAcquire(t)
UnlockCAS(t) == UnlockSlowRelease(t)

Run(t) ==
  \/ LockCAS(t) \/ UnlockCAS(t)
  \/ LockSlowLoad(t) \/ LockSlowAcquireFails(t) \/ LockSlowSetParkedFails(t)
  \/ LockSlowPark(t) \/ LockSlowParkInvalid(t)
  \/ TryLockLoad(t) \/ TryLockAcquireFails(t)
  \/ UnlockFast(t) \/ UnlockFastFails(t) \/ UnlockSlowLoad(t) \/ UnlockSlowReleaseFails(t)
  \/ UnlockSlowUnpark(t) \/ UnlockSlowUnparkNone(t) \/ UnlockSlowWake(t)

Next == \E t \in Threads : Call(t) \/ Run(t)

Spec == Init /\ [][Next]_vars

(***************************************************************************)
(* Fairness: threads that are awake keep running, critical sections end,   *)
(* and a weak compare-and-swap that is retried does not fail forever       *)
(* although the byte has the expected value, for the owner and for some    *)
(* one of the threads that lock.                                           *)
(***************************************************************************)
FairSpec ==
  /\ Spec
  /\ \A t \in Threads : WF_vars(Run(t))
  /\ SF_vars(\E t \in Threads : UnlockCAS(t))
  /\ SF_vars(\E t \in Threads : LockCAS(t))

-----------------------------------------------------------------------------
TypeOK ==
  /\ byte \in Byte
  /\ queue \in Seq(Threads)
  /\ pc \in [Threads -> PC]
  /\ cur \in [Threads -> Byte]
  /\ spinCount \in [Threads -> 0..SpinLimit]
  /\ waking \in [Threads -> Threads \cup {NoThread}]

HoldsLock(t) == pc[t] \in {"critical", "usLoad", "usRelease", "usUnpark"}

(***************************************************************************)
(* No two threads are between lock() (or a successful tryLock()) and the   *)
(* moment unlock() gives the lock up.                                      *)
(***************************************************************************)
MutualExclusion ==
  \A t, u \in Threads : HoldsLock(t) /\ HoldsLock(u) => t = u

(***************************************************************************)
(* As long as a thread is parked the parked bit is set, so that no unlock  *)
(* takes the fast path past it.                                            *)
(***************************************************************************)
ParkedBitCoversQueue == queue # <<>> => byte.parked

(***************************************************************************)
(* The assertions of unlockSlow(): the owner finds the byte held, and the  *)
(* callback of unparkOne() finds both bits set: "We are the only ones that *)
(* can clear either the isHeldBit or the hasParkedBit".                    *)
(***************************************************************************)
UnlockAssertions ==
  \A t \in Threads :
    /\ HoldsLock(t) => byte.held
    /\ pc[t] = "usUnpark" => byte = HeldAndParked

(***************************************************************************)
(* Somebody is responsible for the parked threads: either the lock is held *)
(* (its owner will unpark one) or a thread is on its way to take it.       *)
(***************************************************************************)
SomeoneWillUnpark ==
  queue # <<>> =>
    byte.held \/ \E t \in Threads : pc[t] \in LockSlowPC \cup {"usWake"}

(***************************************************************************)
(* A thread that parked on the lock is eventually woken.                   *)
(***************************************************************************)
NoLostWakeUp == \A t \in Threads : []<>(pc[t] # "asleep")

Owner == IF \E t \in Threads : HoldsLock(t)
           THEN CHOOSE t \in Threads : HoldsLock(t)
           ELSE NoThread

Abstract == INSTANCE Mutex WITH owner <- Owner

(***************************************************************************)
(* Lock implements the mutex.                                              *)
(***************************************************************************)
ImplementsMutex == Abstract!Spec
=============================================================================
