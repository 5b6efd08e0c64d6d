------------------------- MODULE ParallelHelperPool -------------------------
(***************************************************************************)
(* WTF::ParallelHelperPool: a pool of threads that help the owners of      *)
(* clients with the task each client may have (ParallelHelperPool.cpp).    *)
(* The heap of every VM is such a client; marking and copying are its      *)
(* tasks.                                                                  *)
(*                                                                         *)
(* Everything but the tasks themselves happens with m_lock held, and each  *)
(* stretch between taking and releasing it is one action.  A client is     *)
(* used by one thread, its owner, which is named by the client.  Tasks are *)
(* numbered: 0 is the null task.                                           *)
(***************************************************************************)
EXTENDS Naturals, FiniteSets

CONSTANTS Clients,      \* the clients, and the threads that own them
          MaxThreads,   \* how many helper threads are ever asked for
          MaxTasks      \* how many tasks a client ever sets (a bound of the model)

Helpers == 1..MaxThreads
Runners == Helpers \cup Clients

ASSUME ConstantsAssumption ==
  /\ MaxThreads \in Nat /\ MaxTasks \in Nat
  /\ IsFiniteSet(Clients) /\ Clients \cap Helpers = {}

VARIABLES
  clients,      \* m_clients
  numThreads,   \* m_numThreads
  isDying,      \* m_isDying
  task,         \* ParallelHelperClient::m_task
  numActive,    \* ParallelHelperClient::m_numActive
  claimed,      \* what each thread runs: a set of at most one client and task
  pc,           \* where each thread is
  tasks         \* how many tasks each client has set

pool == <<clients, numThreads, isDying>>
vars == <<pool, task, numActive, claimed, pc, tasks>>

Init ==
  /\ clients = {} /\ numThreads = 0 /\ isDying = FALSE
  /\ task = [c \in Clients |-> 0]
  /\ numActive = [c \in Clients |-> 0]
  /\ claimed = [r \in Runners |-> {}]
  /\ pc = [r \in Runners |-> "none"]
  /\ tasks = [c \in Clients |-> 0]

HasTask(c) == c \in clients /\ task[c] # 0

-----------------------------------------------------------------------------
\* Fault: the threads that sleep are not told.
DidMakeWorkAvailableSilently(pcs, n) ==
  [r \in Runners |-> IF r \in 1..n /\ pcs[r] = "none" THEN "looking" ELSE pcs[r]]

\* didMakeWorkAvailable(): the missing threads are created, the sleeping ones woken.
DidMakeWorkAvailable(pcs, n) ==
  [r \in Runners |-> IF r \in 1..n /\ pcs[r] \in {"none", "asleep"} THEN "looking" ELSE pcs[r]]

\* Fault: the owner that waits is not told.
WorkCompleteSilently(pcs, c) == pcs

\* m_workCompleteCondition.notifyAll(), by the last one to return.
WorkComplete(pcs, c) ==
  IF numActive[c] # 1 THEN pcs
  ELSE [r \in Runners |-> CASE pcs[r] = "finishAsleep" -> "finish"
                            [] pcs[r] = "destroyAsleep" -> "destroy"
                            [] OTHER -> pcs[r]]

\* claimTask(), by the thread r.
ClaimTask(r, c) ==
  /\ HasTask(c)
  /\ numActive' = [numActive EXCEPT ![c] = @ + 1]
  /\ claimed' = [claimed EXCEPT ![r] = {<<c, task[c]>>}]

\* Fault: a thread that returns leaves the task for others to run.
RunTaskEndKeepsTask(r, next) ==
  \E c \in Clients, k \in 1..MaxTasks :
    /\ claimed[r] = {<<c, k>>}
    /\ claimed' = [claimed EXCEPT ![r] = {}]
    /\ numActive' = [numActive EXCEPT ![c] = @ - 1]
    /\ pc' = [WorkComplete(pc, c) EXCEPT ![r] = next]
    /\ UNCHANGED <<pool, task, tasks>>

\* runTask() after the task returned.
RunTaskEnd(r, next) ==
  \E c \in Clients, k \in 1..MaxTasks :
    /\ claimed[r] = {<<c, k>>}
    /\ claimed' = [claimed EXCEPT ![r] = {}]
    /\ task' = [task EXCEPT ![c] = 0]
    /\ numActive' = [numActive EXCEPT ![c] = @ - 1]
    /\ pc' = [WorkComplete(pc, c) EXCEPT ![r] = next]
    /\ UNCHANGED <<pool, tasks>>

-----------------------------------------------------------------------------
(***************************************************************************)
(* The owner of a client.                                                  *)
(***************************************************************************)
ClientCreate(c) ==
  /\ pc[c] = "none" /\ ~isDying
  /\ pc' = [pc EXCEPT ![c] = "idle"]
  /\ clients' = clients \cup {c}
  /\ UNCHANGED <<numThreads, isDying, task, numActive, claimed, tasks>>

SetTask(c) ==
  /\ pc[c] = "idle" /\ tasks[c] < MaxTasks
  /\ tasks' = [tasks EXCEPT ![c] = @ + 1]
  /\ task' = [task EXCEPT ![c] = tasks[c] + 1]
  /\ pc' = DidMakeWorkAvailable([pc EXCEPT ![c] = "offered"], numThreads)
  /\ UNCHANGED <<pool, numActive, claimed>>

\* doSomeHelping() of the client; somebody may have finished the task already.
ClientDoSomeHelping(c) ==
  /\ pc[c] = "offered"
  /\ IF HasTask(c)
       THEN ClaimTask(c, c) /\ pc' = [pc EXCEPT ![c] = "helpingSelf"]
       ELSE pc' = [pc EXCEPT ![c] = "helped"] /\ UNCHANGED <<numActive, claimed>>
  /\ UNCHANGED <<pool, task, tasks>>

ClientHelped(c) == pc[c] = "helpingSelf" /\ RunTaskEnd(c, "helped")

\* doSomeHelping() of the pool, by a thread that has nothing else to do.
PoolDoSomeHelping(c) ==
  /\ pc[c] = "idle"
  /\ \E d \in Clients : ClaimTask(c, d)
  /\ pc' = [pc EXCEPT ![c] = "helpingOther"]
  /\ UNCHANGED <<pool, task, tasks>>

PoolHelped(c) == pc[c] = "helpingOther" /\ RunTaskEnd(c, "idle")

\* Fault: the owner does not wait for the threads that still run the task.
FinishImpatiently(c) ==
  /\ pc[c] \in {"offered", "helped", "finish"}
  /\ task' = [task EXCEPT ![c] = 0]
  /\ pc' = [pc EXCEPT ![c] = "idle"]
  /\ UNCHANGED <<pool, numActive, claimed, tasks>>

\* finish(), from its call up to its return or its wait, and from there when it was woken.
Finish(c) ==
  /\ pc[c] \in {"offered", "helped", "finish"}
  /\ task' = [task EXCEPT ![c] = 0]
  /\ pc' = [pc EXCEPT ![c] = IF numActive[c] = 0 THEN "idle" ELSE "finishAsleep"]
  /\ UNCHANGED <<pool, numActive, claimed, tasks>>

\* Fault: the client is destroyed while threads still run its task.
ClientDestroyImpatiently(c) ==
  /\ pc[c] \in {"idle", "offered", "helped", "destroy"}
  /\ task' = [task EXCEPT ![c] = 0]
  /\ pc' = [pc EXCEPT ![c] = "gone"] /\ clients' = clients \ {c}
  /\ UNCHANGED <<numThreads, isDying, numActive, claimed, tasks>>

\* ~ParallelHelperClient(), which finishes first.
ClientDestroy(c) ==
  /\ pc[c] \in {"idle", "offered", "helped", "destroy"}
  /\ task' = [task EXCEPT ![c] = 0]
  /\ IF numActive[c] = 0
       THEN pc' = [pc EXCEPT ![c] = "gone"] /\ clients' = clients \ {c}
       ELSE pc' = [pc EXCEPT ![c] = "destroyAsleep"] /\ UNCHANGED clients
  /\ UNCHANGED <<numThreads, isDying, numActive, claimed, tasks>>

\* ensureThreads(), by anybody who has the pool.
EnsureThreads(n) ==
  /\ ~isDying /\ n >= numThreads
  /\ numThreads' = n
  /\ pc' = IF \E c \in Clients : HasTask(c) THEN DidMakeWorkAvailable(pc, n) ELSE pc
  /\ UNCHANGED <<clients, isDying, task, numActive, claimed, tasks>>

\* ~ParallelHelperPool(), once no client refers to the pool.
PoolDestroy ==
  /\ \A c \in Clients : pc[c] = "gone"
  /\ ~isDying
  /\ isDying' = TRUE
  /\ pc' = [r \in Runners |-> IF pc[r] = "asleep" THEN "looking" ELSE pc[r]]
  /\ UNCHANGED <<clients, numThreads, task, numActive, claimed, tasks>>

-----------------------------------------------------------------------------
(***************************************************************************)
(* A helper thread: helperThreadBody().                                    *)
(***************************************************************************)
HelperClaim(h) ==
  /\ pc[h] = "looking" /\ ~isDying
  /\ \E c \in Clients : ClaimTask(h, c)
  /\ pc' = [pc EXCEPT ![h] = "helping"]
  /\ UNCHANGED <<pool, task, tasks>>

HelperSleep(h) ==
  /\ pc[h] = "looking" /\ ~isDying /\ \A c \in Clients : ~HasTask(c)
  /\ pc' = [pc EXCEPT ![h] = "asleep"]
  /\ UNCHANGED <<pool, task, numActive, claimed, tasks>>

HelperDone(h) == pc[h] = "helping" /\ RunTaskEnd(h, "looking")

HelperExit(h) ==
  /\ pc[h] = "looking" /\ isDying
  /\ pc' = [pc EXCEPT ![h] = "exited"]
  /\ UNCHANGED <<pool, task, numActive, claimed, tasks>>

-----------------------------------------------------------------------------
Helper(h) == HelperClaim(h) \/ HelperSleep(h) \/ HelperDone(h) \/ HelperExit(h)

\* What an owner may choose to do, and what it has to go on with.
Call(c) == ClientCreate(c) \/ SetTask(c) \/ PoolDoSomeHelping(c) \/ ClientDoSomeHelping(c)
Run(c) == \/ ClientHelped(c) \/ PoolHelped(c) \/ Finish(c)
          \/ ClientDestroy(c) /\ pc[c] # "idle"

\* The pool is gone, and its threads with it.
Terminated == isDying /\ (\A h \in Helpers : pc[h] \in {"none", "exited"}) /\ UNCHANGED vars

Next ==
  \/ \E h \in Helpers : Helper(h)
  \/ \E c \in Clients : Call(c) \/ Run(c) \/ ClientDestroy(c)
  \/ \E n \in 0..MaxThreads : EnsureThreads(n)
  \/ PoolDestroy
  \/ Terminated

Spec == Init /\ [][Next]_vars

\* Threads keep running, and tasks return: they are a "finite-time parallel activity".
FairSpec ==
  /\ Spec
  /\ \A h \in Helpers : WF_vars(Helper(h))
  /\ \A c \in Clients : WF_vars(Run(c))

-----------------------------------------------------------------------------
PC == {"none", "idle", "offered", "helpingSelf", "helped", "helpingOther", "finish", "finishAsleep",
       "destroy", "destroyAsleep", "gone", "looking", "asleep", "helping", "exited"}

TypeOK ==
  /\ clients \subseteq Clients
  /\ numThreads \in 0..MaxThreads
  /\ isDying \in BOOLEAN
  /\ task \in [Clients -> 0..MaxTasks]
  /\ numActive \in [Clients -> 0..Cardinality(Runners)]
  /\ claimed \in [Runners -> SUBSET (Clients \X (1..MaxTasks))]
  /\ pc \in [Runners -> PC]
  /\ tasks \in [Clients -> 0..MaxTasks]

\* The threads that run a task of c.
Inside(c) == {r \in Runners : \E k \in 1..MaxTasks : <<c, k>> \in claimed[r]}

(***************************************************************************)
(* When finish() has returned nobody runs the client's task any more: what *)
(* is on the owner's stack outlives the task (Heap::copyBackingStores()),  *)
(* and the client may be destroyed.                                        *)
(***************************************************************************)
FinishedMeansDone ==
  \A c \in Clients : pc[c] \in {"none", "idle", "helpingOther", "gone"} =>
    Inside(c) = {} /\ task[c] = 0 /\ numActive[c] = 0

(***************************************************************************)
(* The RELEASE_ASSERTs of runTask(): the client of a thread that runs a    *)
(* task exists and counts it, and "no new task could have been installed,  *)
(* since we were still active".                                            *)
(***************************************************************************)
RunTaskAssertions ==
  \A r \in Runners : \A c \in Clients, k \in 1..MaxTasks : claimed[r] = {<<c, k>>} =>
    c \in clients /\ numActive[c] = Cardinality(Inside(c)) /\ task[c] \in {0, k}

(***************************************************************************)
(* "Whenever a thread is idle and it notices that some client has a task,  *)
(* it will run the task": no thread sleeps through a task.                 *)
(***************************************************************************)
NoSleepThroughTask ==
  \A h \in Helpers : pc[h] = "asleep" => \A c \in Clients : ~HasTask(c)

\* finish() and ~ParallelHelperClient() return.
FinishReturns ==
  \A c \in Clients : []<>(pc[c] \notin {"finish", "finishAsleep", "destroy", "destroyAsleep"})

Abstract == INSTANCE ParallelTask WITH
  offered <- [c \in Clients |-> HasTask(c)],
  inside <- [c \in Clients |-> Inside(c)]

\* The pool implements what its clients rely on, however many threads help.
ImplementsParallelTask == Abstract!Spec
=============================================================================
