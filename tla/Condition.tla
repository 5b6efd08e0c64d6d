----------------------------- MODULE Condition ------------------------------
(***************************************************************************)
(* WTF::Condition (WTF/wtf/Condition.h): a condition variable of one byte, *)
(* m_hasWaiters, over the ParkingLot queue of its own address.             *)
(*                                                                         *)
(* The clients are the ones every use in JavaScriptCore follows: consumers *)
(* that wait(lock, predicate) or waitUntil(lock, timeout, predicate) for   *)
(* something to do, and producers that make the predicate true while they  *)
(* hold the lock and then notify, before or after they release it.  The    *)
(* lock is an abstract mutex and the queue the one ParkingQueue specifies: *)
(* a thread sleeps while it is on the queue.                               *)
(***************************************************************************)
EXTENDS Naturals, Sequences, SequencesExt

CONSTANTS Consumers, Producers,
          Timed,       \* the consumers that wait with a timeout
          NoClient,    \* the owner of a free lock
          MaxItems     \* how much is produced in all (a bound of the model)

Clients == Consumers \cup Producers

ASSUME ConditionAssumption ==
  /\ Consumers \cap Producers = {}
  /\ NoClient \notin Clients
  /\ Timed \subseteq Consumers
  /\ MaxItems \in Nat

VARIABLES
  hasWaiters,  \* m_hasWaiters
  waiters,     \* the threads parked on the address of m_hasWaiters
  owner,       \* the owner of the client's lock
  items,       \* the client's predicate is items > 0
  produced,    \* how much was produced so far
  at           \* where each thread is

conditionVars == <<hasWaiters, waiters, owner, items, produced, at>>

ConditionInit ==
  /\ hasWaiters = FALSE
  /\ waiters = <<>>
  /\ owner = NoClient
  /\ items = 0 /\ produced = 0
  /\ at = [t \in Clients |-> "idle"]

Move(t, from, to) ==
  /\ at[t] = from
  /\ at' = [at EXCEPT ![t] = to]

Acquire(t, from, to) ==
  /\ owner = NoClient
  /\ owner' = t
  /\ Move(t, from, to)
  /\ UNCHANGED <<hasWaiters, waiters, items, produced>>

(***************************************************************************)
(* A consumer: lock; wait until the predicate holds; take one; unlock.     *)
(***************************************************************************)
ConsumerLock(t) == Acquire(t, "idle", "test")

\* The predicate holds: the consumer takes one and unlocks.
Consume(t) ==
  /\ items > 0
  /\ Move(t, "test", "idle")
  /\ items' = items - 1
  /\ owner' = NoClient
  /\ UNCHANGED <<hasWaiters, waiters, produced>>

\* Fault: nobody learns that a thread waits.
WaitParkSilently(t) ==
  /\ items = 0
  /\ Move(t, "test", "beforeSleep")
  /\ waiters' = Append(waiters, t)
  /\ UNCHANGED <<hasWaiters, owner, items, produced>>

\* waitUntil(): parkConditionally() on the address of m_hasWaiters.
WaitPark(t) ==
  /\ items = 0
  /\ Move(t, "test", "beforeSleep")
  /\ hasWaiters' = TRUE
  /\ waiters' = Append(waiters, t)
  /\ UNCHANGED <<owner, items, produced>>

\* waitUntil() with a timeout in the past: it only releases the lock and takes it.
WaitPastTimeout(t) ==
  /\ items = 0 /\ t \in Timed
  /\ Move(t, "test", "relockTimedOut")
  /\ owner' = NoClient
  /\ UNCHANGED <<hasWaiters, waiters, items, produced>>

\* beforeSleep(): lock.unlock().
WaitUnlock(t) ==
  /\ Move(t, "beforeSleep", "asleep")
  /\ owner' = NoClient
  /\ UNCHANGED <<hasWaiters, waiters, items, produced>>

\* Somebody dequeued the thread: parkConditionally() returns true.
WaitWakeUp(t) ==
  /\ ~Contains(waiters, t)
  /\ Move(t, "asleep", "relock")
  /\ UNCHANGED <<hasWaiters, waiters, owner, items, produced>>

\* The timeout fired while the thread was on the queue: it returns false.
WaitTimeOut(t) ==
  /\ t \in Timed /\ Contains(waiters, t)
  /\ Move(t, "asleep", "relockTimedOut")
  /\ waiters' = Remove(waiters, t)
  /\ UNCHANGED <<hasWaiters, owner, items, produced>>

WaitRelock(t) == Acquire(t, "relock", "test")

WaitRelockTimedOut(t) == Acquire(t, "relockTimedOut", "testTimedOut")

\* "return predicate()": takes one if there is one, else gives up.
WaitTimedOut(t) ==
  /\ Move(t, "testTimedOut", "done")
  /\ owner' = NoClient
  /\ items' = IF items > 0 THEN items - 1 ELSE items
  /\ UNCHANGED <<hasWaiters, waiters, produced>>

(***************************************************************************)
(* A producer: lock; make the predicate true; notifyOne() or notifyAll(),  *)
(* with or without the lock.                                               *)
(***************************************************************************)
ProducerLock(t) == produced < MaxItems /\ Acquire(t, "idle", "produce")

Produce(t) ==
  /\ \E next \in {"notifyOne", "notifyAll", "unlockFirst"} : Move(t, "produce", next)
  /\ items' = items + 1
  /\ produced' = produced + 1
  /\ UNCHANGED <<hasWaiters, waiters, owner>>

ProducerUnlockFirst(t) ==
  /\ \E next \in {"notifyOne", "notifyAll"} : Move(t, "unlockFirst", next)
  /\ owner' = NoClient
  /\ UNCHANGED <<hasWaiters, waiters, items, produced>>

\* The producer is done, and releases the lock if it notified under it.
ProducerDone(t) == owner' = IF owner = t THEN NoClient ELSE owner

(***************************************************************************)
(* notifyOne().                                                            *)
(***************************************************************************)
NotifyOneNobody(t) ==
  /\ ~hasWaiters
  /\ Move(t, "notifyOne", "idle")
  /\ ProducerDone(t)
  /\ UNCHANGED <<hasWaiters, waiters, items, produced>>

NotifyOneLoad(t) ==
  /\ hasWaiters
  /\ Move(t, "notifyOne", "unparkOne")
  /\ UNCHANGED <<hasWaiters, waiters, owner, items, produced>>

\* Fault: m_hasWaiters is cleared although there may be more threads.
NotifyOneUnparkClears(t) ==
  /\ Move(t, "unparkOne", "idle")
  /\ waiters' = IF waiters = <<>> THEN waiters ELSE Tail(waiters)
  /\ hasWaiters' = FALSE
  /\ ProducerDone(t)
  /\ UNCHANGED <<items, produced>>

\* unparkOne() and its callback.  Another address may share the bucket, so
\* mayHaveMoreThreads may be true although this was the last thread.
NotifyOneUnpark(t) ==
  /\ Move(t, "unparkOne", "idle")
  /\ waiters' = IF waiters = <<>> THEN waiters ELSE Tail(waiters)
  /\ \E mayHaveMoreThreads \in BOOLEAN :
       /\ waiters' # <<>> => mayHaveMoreThreads
       /\ waiters = <<>> => ~mayHaveMoreThreads
       /\ hasWaiters' = (mayHaveMoreThreads /\ hasWaiters)
  /\ ProducerDone(t)
  /\ UNCHANGED <<items, produced>>

(***************************************************************************)
(* notifyAll().                                                            *)
(***************************************************************************)
NotifyAllNobody(t) ==
  /\ ~hasWaiters
  /\ Move(t, "notifyAll", "idle")
  /\ ProducerDone(t)
  /\ UNCHANGED <<hasWaiters, waiters, items, produced>>

NotifyAllLoad(t) ==
  /\ hasWaiters
  /\ Move(t, "notifyAll", "clearWaiters")
  /\ UNCHANGED <<hasWaiters, waiters, owner, items, produced>>

NotifyAllClear(t) ==
  /\ Move(t, "clearWaiters", "unparkAll")
  /\ hasWaiters' = FALSE
  /\ UNCHANGED <<waiters, owner, items, produced>>

NotifyAllUnpark(t) ==
  /\ Move(t, "unparkAll", "idle")
  /\ waiters' = <<>>
  /\ ProducerDone(t)
  /\ UNCHANGED <<hasWaiters, items, produced>>

-----------------------------------------------------------------------------
Consumer(t) ==
  \/ ConsumerLock(t) \/ Consume(t) \/ WaitPark(t) \/ WaitUnlock(t) \/ WaitWakeUp(t)
  \/ WaitRelock(t) \/ WaitRelockTimedOut(t) \/ WaitTimedOut(t)

\* The clock decides whether a timeout fires.
TimeOut(t) == WaitPastTimeout(t) \/ WaitTimeOut(t)

ProducerRun(t) ==
  \/ Produce(t) \/ ProducerUnlockFirst(t)
  \/ NotifyOneNobody(t) \/ NotifyOneLoad(t) \/ NotifyOneUnpark(t)
  \/ NotifyAllNobody(t) \/ NotifyAllLoad(t) \/ NotifyAllClear(t) \/ NotifyAllUnpark(t)

ConditionNext ==
  \/ \E t \in Consumers : Consumer(t) \/ TimeOut(t)
  \/ \E t \in Producers : ProducerLock(t) \/ ProducerRun(t)

ConditionSpec == ConditionInit /\ [][ConditionNext]_conditionVars

\* Threads keep running; a producer need not produce, and a timeout need not fire.
ConditionFairSpec ==
  /\ ConditionSpec
  /\ \A t \in Consumers : WF_conditionVars(Consumer(t))
  /\ \A t \in Producers : WF_conditionVars(ProducerRun(t))

-----------------------------------------------------------------------------
Places == {"idle", "test", "beforeSleep", "asleep", "relock", "relockTimedOut", "testTimedOut",
           "done", "produce", "unlockFirst", "notifyOne", "unparkOne", "notifyAll", "clearWaiters",
           "unparkAll"}

ConditionTypeOK ==
  /\ hasWaiters \in BOOLEAN
  /\ waiters \in Seq(Clients)
  /\ owner \in Clients \cup {NoClient}
  /\ items \in 0..produced /\ produced \in 0..MaxItems
  /\ at \in [Clients -> Places]

(***************************************************************************)
(* While a thread waits, notifyOne() and notifyAll() see m_hasWaiters, or  *)
(* a notifyAll() that cleared it is about to wake everybody: "It's totally *)
(* safe for us to set this to false without any locking".                  *)
(***************************************************************************)
WaitersAreAnnounced ==
  waiters # <<>> => hasWaiters \/ \E t \in Producers : at[t] = "unparkAll"

(***************************************************************************)
(* A notification is not lost: it cannot be that forever there is          *)
(* something to do and a thread sleeps waiting for it.                     *)
(***************************************************************************)
NoLostNotification ==
  (items > 0 /\ waiters # <<>>) ~> (items = 0 \/ waiters = <<>>)

=============================================================================
