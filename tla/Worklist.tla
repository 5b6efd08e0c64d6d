------------------------------ MODULE Worklist ------------------------------
(***************************************************************************)
(* JSC::DFG::Worklist (dfg/DFGWorklist.cpp) with DFG::Plan's stages and    *)
(* DFG::Safepoint: the compiler threads that turn plans into code, the VMs *)
(* that enqueue and complete plans, and their collectors, which suspend    *)
(* the compiler threads and cancel the plans whose code died.              *)
(*                                                                         *)
(* A compiler thread compiles only with its m_rightToRun lock; a collector *)
(* holds all of them.  At a safepoint (while LLVM runs) the thread gives   *)
(* the lock back.  What is done with m_lock held is one action: nothing    *)
(* blocks with m_lock held except the waits, which release it.  A plan     *)
(* that has not been created is in stage "New".                            *)
(***************************************************************************)
EXTENDS Naturals, Sequences, SequencesExt, FiniteSets

CONSTANTS VMs,             \* the VMs that share the worklist
          NumThreads,      \* how many compiler threads finishCreation() starts
          Plans,           \* the plans the VMs may create
          VMOf,            \* Plan::vm
          KeyOf,           \* Plan::key()
          NoPlan,          \* the null plan
          Nobody,          \* the owner of a free lock
          MaxPlans,        \* how many plans are created (a bound of the model)
          MaxCollections   \* how often a VM collects (a bound of the model)

Workers == 1..NumThreads

ASSUME ConstantsAssumption ==
  /\ NumThreads \in Nat \ {0}
  /\ VMs \cap Workers = {} /\ Nobody \notin VMs \cup Workers
  /\ NoPlan \notin Plans
  /\ VMOf \in [Plans -> VMs]
  /\ \A p, q \in Plans : KeyOf[p] = KeyOf[q] => VMOf[p] = VMOf[q]
  /\ MaxPlans \in Nat /\ MaxCollections \in Nat

VARIABLES
  plans,            \* m_plans, as a set: a plan knows its key
  queue,            \* m_queue
  readyPlans,       \* m_readyPlans
  activeThreads,    \* m_numberOfActiveThreads
  suspension,       \* the owner of m_suspensionLock
  rightToRun,       \* for each thread, the owner of its m_rightToRun
  safepoint,        \* for each thread, the plan of its m_safepoint
  stage,            \* Plan::stage
  pc, plan,         \* where each compiler thread is, and its plan
  didGetCancelled,  \* its Safepoint::Result
  vmpc,             \* where each VM is
  toSuspend,        \* suspendAllThreads(): how many threads are left
  myReadyPlans,     \* completeAllReadyPlansForVM(): what is left to finalize
  collecting,       \* Heap::isCollecting()
  completed,        \* the plans finalizeAndNotifyCallback() was called for
  collections       \* how often each VM collected

worklist == <<plans, queue, readyPlans, activeThreads>>
locks    == <<suspension, rightToRun>>
threads  == <<pc, plan, didGetCancelled, safepoint>>
vms      == <<vmpc, toSuspend, myReadyPlans, collecting, completed, collections>>
vars     == <<worklist, locks, threads, stage, vms>>

Init ==
  /\ plans = {} /\ queue = <<>> /\ readyPlans = <<>> /\ activeThreads = 0
  /\ suspension = Nobody
  /\ rightToRun = [w \in Workers |-> Nobody]
  /\ safepoint = [w \in Workers |-> NoPlan]
  /\ stage = [p \in Plans |-> "New"]
  /\ pc = [w \in Workers |-> "idle"]
  /\ plan = [w \in Workers |-> NoPlan]
  /\ didGetCancelled = [w \in Workers |-> FALSE]
  /\ vmpc = [v \in VMs |-> "running"]
  /\ toSuspend = [v \in VMs |-> 0]
  /\ myReadyPlans = [v \in VMs |-> <<>>]
  /\ collecting = [v \in VMs |-> FALSE]
  /\ completed = {}
  /\ collections = [v \in VMs |-> 0]

Goto(w, from, to) == pc[w] = from /\ pc' = [pc EXCEPT ![w] = to]
GotoVM(v, from, to) == vmpc[v] = from /\ vmpc' = [vmpc EXCEPT ![v] = to]

-----------------------------------------------------------------------------
(***************************************************************************)
(* A compiler thread: runThread().                                         *)
(***************************************************************************)
\* m_planEnqueued.wait(m_lock).
Sleep(w) ==
  /\ queue = <<>>
  /\ Goto(w, "idle", "asleep")
  /\ UNCHANGED <<worklist, locks, plan, didGetCancelled, safepoint, stage, vms>>

TakePlan(w) ==
  /\ queue # <<>> /\ Head(queue) \in Plans
  /\ Goto(w, "idle", "tookPlan")
  /\ plan' = [plan EXCEPT ![w] = Head(queue)]
  /\ queue' = Tail(queue)
  /\ activeThreads' = activeThreads + 1
  /\ didGetCancelled' = [didGetCancelled EXCEPT ![w] = FALSE]
  /\ UNCHANGED <<plans, readyPlans, locks, safepoint, stage, vms>>

\* The null plan tells the thread to terminate.
Terminate(w) ==
  /\ queue # <<>> /\ Head(queue) = NoPlan
  /\ Goto(w, "idle", "terminated")
  /\ queue' = Tail(queue)
  /\ UNCHANGED <<plans, readyPlans, activeThreads, locks, plan, didGetCancelled, safepoint, stage,
                 vms>>

LockRightToRun(w) ==
  /\ rightToRun[w] = Nobody
  /\ Goto(w, "tookPlan", "owning")
  /\ rightToRun' = [rightToRun EXCEPT ![w] = w]
  /\ UNCHANGED <<worklist, suspension, plan, didGetCancelled, safepoint, stage, vms>>

\* The plan was cancelled: the thread drops it and goes for the next one.
DropCancelled(w) ==
  /\ stage[plan[w]] = "Cancelled"
  /\ pc' = [pc EXCEPT ![w] = "idle"]
  /\ plan' = [plan EXCEPT ![w] = NoPlan]
  /\ activeThreads' = activeThreads - 1
  /\ UNCHANGED <<plans, queue, readyPlans, suspension, didGetCancelled, safepoint, stage, vms>>

CancelledBeforeCompiling(w) ==
  /\ pc[w] = "owning"
  /\ DropCancelled(w)
  /\ rightToRun' = [rightToRun EXCEPT ![w] = Nobody]

NotifyCompiling(w) ==
  /\ Goto(w, "owning", "compiling")
  /\ stage[plan[w]] # "Cancelled"
  /\ stage' = [stage EXCEPT ![plan[w]] = "Compiling"]
  /\ UNCHANGED <<worklist, locks, plan, didGetCancelled, safepoint, vms>>

(***************************************************************************)
(* compileInThread(): the FTL compiles at safepoints, the DFG does not.    *)
(***************************************************************************)
SafepointBegin(w) ==
  /\ Goto(w, "compiling", "safepoint")
  /\ safepoint' = [safepoint EXCEPT ![w] = plan[w]]
  /\ rightToRun' = [rightToRun EXCEPT ![w] = Nobody]
  /\ UNCHANGED <<worklist, suspension, plan, didGetCancelled, stage, vms>>

\* ~Safepoint(), and the look at didGetCancelled() that follows it: CancelPath.
SafepointEnd(w) ==
  /\ rightToRun[w] = Nobody
  /\ Goto(w, "safepoint", IF didGetCancelled[w] THEN "compiled" ELSE "compiling")
  /\ rightToRun' = [rightToRun EXCEPT ![w] = w]
  /\ safepoint' = [safepoint EXCEPT ![w] = NoPlan]
  /\ UNCHANGED <<worklist, suspension, plan, didGetCancelled, stage, vms>>

\* Every other path: compileInThread() returns with a finalizer.
CompileInThreadDone(w) ==
  /\ Goto(w, "compiling", "compiled")
  /\ UNCHANGED <<worklist, locks, plan, didGetCancelled, safepoint, stage, vms>>

CancelledWhileCompiling(w) ==
  /\ pc[w] = "compiled"
  /\ DropCancelled(w)
  /\ rightToRun' = [rightToRun EXCEPT ![w] = Nobody]

NotifyCompiled(w) ==
  /\ Goto(w, "compiled", "released")
  /\ stage[plan[w]] # "Cancelled"
  /\ stage' = [stage EXCEPT ![plan[w]] = "Compiled"]
  /\ rightToRun' = [rightToRun EXCEPT ![w] = Nobody]
  /\ UNCHANGED <<worklist, suspension, plan, didGetCancelled, safepoint, vms>>

\* "We could have been cancelled between releasing rightToRun and acquiring m_lock."
CancelledAfterCompiling(w) ==
  /\ pc[w] = "released"
  /\ DropCancelled(w)
  /\ UNCHANGED rightToRun

\* m_planCompiled.notifyAll().
NotifyPlanCompiled ==
  vmpc' = [v \in VMs |-> CASE vmpc[v] = "asleep" -> "waiting"
                           [] vmpc[v] = "asleepToDie" -> "waitingToDie"
                           [] OTHER -> vmpc[v]]

\* Fault: nobody looks whether the plan was cancelled after the right to run was released.
NotifyReadyUnchecked(w) ==
  /\ Goto(w, "released", "idle")
  /\ stage' = [stage EXCEPT ![plan[w]] = "Ready"]
  /\ readyPlans' = Append(readyPlans, plan[w])
  /\ plan' = [plan EXCEPT ![w] = NoPlan]
  /\ NotifyPlanCompiled
  /\ activeThreads' = activeThreads - 1
  /\ UNCHANGED <<plans, queue, locks, didGetCancelled, safepoint, toSuspend, myReadyPlans,
                 collecting, completed, collections>>

\* Fault: the VMs that wait for the plan are not told.
NotifyReadySilently(w) ==
  /\ Goto(w, "released", "idle")
  /\ stage[plan[w]] # "Cancelled"
  /\ stage' = [stage EXCEPT ![plan[w]] = "Ready"]
  /\ readyPlans' = Append(readyPlans, plan[w])
  /\ plan' = [plan EXCEPT ![w] = NoPlan]
  /\ activeThreads' = activeThreads - 1
  /\ UNCHANGED <<plans, queue, locks, didGetCancelled, safepoint, vms>>

\* runThread() makes the plan ready, under the worklist's lock.
NotifyReady(w) ==
  /\ Goto(w, "released", "idle")
  /\ stage[plan[w]] # "Cancelled"
  /\ stage' = [stage EXCEPT ![plan[w]] = "Ready"]
  /\ readyPlans' = Append(readyPlans, plan[w])
  /\ plan' = [plan EXCEPT ![w] = NoPlan]
  /\ NotifyPlanCompiled
  /\ activeThreads' = activeThreads - 1
  /\ UNCHANGED <<plans, queue, locks, didGetCancelled, safepoint, toSuspend, myReadyPlans,
                 collecting, completed, collections>>

-----------------------------------------------------------------------------
(***************************************************************************)
(* A VM enqueues plans and completes the ones that are ready.              *)
(***************************************************************************)
\* Fault: no thread is woken.
NotifyPlanEnqueuedForgotten == UNCHANGED pc

\* m_planEnqueued.notifyOne(): one of the threads that sleep, if any.
NotifyPlanEnqueued ==
  IF \E w \in Workers : pc[w] = "asleep"
    THEN \E w \in Workers : Goto(w, "asleep", "idle")
    ELSE UNCHANGED pc

\* Plan p is the next one to be created with its key: plans with the same key are alike.
IsNextPlan(p) ==
  /\ stage[p] = "New" /\ p = CHOOSE q \in Plans : stage[q] = "New" /\ KeyOf[q] = KeyOf[p]
  /\ Cardinality({q \in Plans : stage[q] # "New"}) < MaxPlans

\* enqueue(): the caller saw that there is no plan with this key.
Enqueue(v, p) ==
  /\ vmpc[v] = "running" /\ VMOf[p] = v /\ IsNextPlan(p)
  /\ \A q \in plans : KeyOf[q] # KeyOf[p]
  /\ plans' = plans \cup {p}
  /\ queue' = Append(queue, p)
  /\ stage' = [stage EXCEPT ![p] = "Preparing"]
  /\ NotifyPlanEnqueued
  /\ UNCHANGED <<readyPlans, activeThreads, locks, plan, didGetCancelled, safepoint, vms>>

\* One turn of the loop of removeAllReadyPlansForVM() at index r.i.
RemoveReadyPlan(v, r) ==
  LET p == r.ready[r.i] IN
  IF VMOf[p] = v /\ stage[p] = "Ready"
    THEN [r EXCEPT !.ready = Front([r.ready EXCEPT ![r.i] = Last(r.ready)]),
                   !.mine = Append(@, p)]
    ELSE [r EXCEPT !.i = @ + 1]

\* removeAllReadyPlansForVM(): every turn looks at one more plan of m_readyPlans.
ReadyPlansRemoved(v) ==
  LET turn[n \in 0..Len(readyPlans)] ==
        IF n = 0 THEN [i |-> 1, ready |-> readyPlans, mine |-> <<>>]
                 ELSE RemoveReadyPlan(v, turn[n - 1])
  IN  turn[Len(readyPlans)]

\* m_plans.remove(plan->key()).
WithoutKeysOf(removed) == {q \in plans : \A p \in ToSet(removed) : KeyOf[q] # KeyOf[p]}

\* removeAllReadyPlansForVM(): the plans leave m_readyPlans and m_plans.
RemoveAllReadyPlansForVM(v) ==
  LET removed == ReadyPlansRemoved(v) IN
  /\ readyPlans' = removed.ready
  /\ myReadyPlans' = [myReadyPlans EXCEPT ![v] = removed.mine]
  /\ plans' = WithoutKeysOf(removed.mine)
  /\ UNCHANGED <<queue, activeThreads, locks, threads, stage, toSuspend, collecting, completed,
                 collections>>

\* completeAllReadyPlansForVM().
CompleteAllReadyPlansForVM(v) ==
  /\ vmpc[v] \in {"running", "allReady"}
  /\ vmpc' = [vmpc EXCEPT ![v] = "completing"]
  /\ RemoveAllReadyPlansForVM(v)

FinalizePlan(v) ==
  /\ vmpc[v] = "completing" /\ myReadyPlans[v] # <<>>
  /\ completed' = completed \cup {Last(myReadyPlans[v])}
  /\ myReadyPlans' = [myReadyPlans EXCEPT ![v] = Front(@)]
  /\ UNCHANGED <<worklist, locks, threads, stage, vmpc, toSuspend, collecting, collections>>

FinalizeDone(v) ==
  /\ myReadyPlans[v] = <<>>
  /\ GotoVM(v, "completing", "running")
  /\ UNCHANGED <<worklist, locks, threads, stage, toSuspend, myReadyPlans, collecting, completed,
                 collections>>

\* waitUntilAllPlansForVMAreReady(), called by completeAllPlansForVM() or by ~VM().
WaitUntilAllPlansForVMAreReadyCall(v) ==
  /\ \E next \in {"waiting", "waitingToDie"} : GotoVM(v, "running", next)
  /\ UNCHANGED <<worklist, locks, threads, stage, toSuspend, myReadyPlans, collecting, completed,
                 collections>>

AllAreCompiled(v) == \A p \in plans : VMOf[p] = v => stage[p] = "Ready"

\* m_planCompiled.wait(m_lock), if some plan is not ready.
WaitUntilAllPlansForVMAreReady(v) ==
  /\ \/ GotoVM(v, "waiting", IF AllAreCompiled(v) THEN "allReady" ELSE "asleep")
     \/ GotoVM(v, "waitingToDie", IF AllAreCompiled(v) THEN "allReadyToDie" ELSE "asleepToDie")
  /\ UNCHANGED <<worklist, locks, threads, stage, toSuspend, myReadyPlans, collecting, completed,
                 collections>>

\* ~VM(): the plans that are ready are dropped.
DestroyVM(v) ==
  LET removed == ReadyPlansRemoved(v) IN
  /\ GotoVM(v, "allReadyToDie", "destroyed")
  /\ readyPlans' = removed.ready
  /\ plans' = WithoutKeysOf(removed.mine)
  /\ UNCHANGED <<queue, activeThreads, locks, threads, stage, toSuspend, myReadyPlans, collecting,
                 completed, collections>>

\* ~Worklist(), once no VM uses it: as many null plans as threads, and notifyAll().
Destroy ==
  /\ \A v \in VMs : vmpc[v] = "destroyed"
  /\ \A w \in Workers : pc[w] # "terminated"
  /\ ~Contains(queue, NoPlan)
  /\ queue' = queue \o [w \in Workers |-> NoPlan]
  /\ pc' = [w \in Workers |-> IF pc[w] = "asleep" THEN "idle" ELSE pc[w]]
  /\ UNCHANGED <<plans, readyPlans, activeThreads, locks, plan, didGetCancelled, safepoint, stage,
                 vms>>

-----------------------------------------------------------------------------
(***************************************************************************)
(* A collection: Heap::collectImpl().                                      *)
(***************************************************************************)
\* suspendAllThreads().
LockSuspension(v) ==
  /\ collections[v] < MaxCollections /\ suspension = Nobody
  /\ GotoVM(v, "running", "suspending")
  /\ suspension' = v
  /\ toSuspend' = [toSuspend EXCEPT ![v] = NumThreads]
  /\ collections' = [collections EXCEPT ![v] = @ + 1]
  /\ UNCHANGED <<worklist, rightToRun, threads, stage, myReadyPlans, collecting, completed>>

SuspendThread(v) ==
  LET w == toSuspend[v] IN
  /\ vmpc[v] = "suspending" /\ w > 0
  /\ rightToRun[w] = Nobody
  /\ rightToRun' = [rightToRun EXCEPT ![w] = v]
  /\ toSuspend' = [toSuspend EXCEPT ![v] = w - 1]
  /\ UNCHANGED <<worklist, suspension, threads, stage, vmpc, myReadyPlans, collecting, completed,
                 collections>>

\* Fault: the last thread is not suspended.
WillStartCollectionEarly(v) ==
  /\ toSuspend[v] <= 1
  /\ GotoVM(v, "suspending", "collecting")
  /\ collecting' = [collecting EXCEPT ![v] = TRUE]
  /\ UNCHANGED <<worklist, locks, threads, stage, toSuspend, myReadyPlans, completed, collections>>

\* willStartCollection().
WillStartCollection(v) ==
  /\ toSuspend[v] = 0
  /\ GotoVM(v, "suspending", "collecting")
  /\ collecting' = [collecting EXCEPT ![v] = TRUE]
  /\ UNCHANGED <<worklist, locks, threads, stage, toSuspend, myReadyPlans, completed, collections>>

\* One turn of the loop of removeDeadPlans() over m_readyPlans.  It goes on with
\* the next index when it moved the last plan to this one.
RemoveDeadReadyPlan(ready, i, dead) ==
  IF i > Len(ready) THEN ready
  ELSE IF stage[ready[i]] # "Cancelled" /\ ready[i] \notin dead THEN ready
  ELSE Front([ready EXCEPT ![i] = Last(ready)])

\* m_readyPlans after the loop.
LiveReadyPlans(dead) ==
  LET turn[i \in 0..Len(readyPlans)] ==
        IF i = 0 THEN readyPlans ELSE RemoveDeadReadyPlan(turn[i - 1], i, dead)
  IN  turn[Len(readyPlans)]

\* The new queue that removeDeadPlans() builds.
LiveQueue(dead) ==
  LET newQueue[i \in 0..Len(queue)] ==
        IF i = 0 THEN <<>>
        ELSE IF queue[i] \in dead THEN newQueue[i - 1]
        ELSE Append(newQueue[i - 1], queue[i])
  IN  newQueue[Len(queue)]

\* Fault: the queue is not searched for the plans that died.
RemoveDeadPlansNotQueued(v) ==
  \E dead \in SUBSET {p \in plans : VMOf[p] = v} :
    /\ GotoVM(v, "collecting", "cancelling")
    /\ plans' = plans \ dead
    /\ stage' = [p \in Plans |-> IF p \in dead THEN "Cancelled" ELSE stage[p]]
    /\ readyPlans' = LiveReadyPlans(dead)
    /\ UNCHANGED <<queue, activeThreads, locks, threads, toSuspend, myReadyPlans, collecting,
                   completed, collections>>

\* removeDeadPlans(): dead are the plans of v that marking did not reach.
RemoveDeadPlans(v) ==
  \E dead \in SUBSET {p \in plans : VMOf[p] = v} :
    /\ GotoVM(v, "collecting", "cancelling")
    /\ plans' = plans \ dead
    /\ stage' = [p \in Plans |-> IF p \in dead THEN "Cancelled" ELSE stage[p]]
    /\ queue' = IF dead = {} THEN queue ELSE LiveQueue(dead)
    /\ readyPlans' = IF dead = {} THEN readyPlans ELSE LiveReadyPlans(dead)
    /\ UNCHANGED <<activeThreads, locks, threads, toSuspend, myReadyPlans, collecting, completed,
                   collections>>

\* Fault: a thread at a safepoint does not learn that its plan was cancelled.
CancelSafepointsForgotten(v) ==
  /\ GotoVM(v, "cancelling", "finishing")
  /\ UNCHANGED <<worklist, locks, threads, stage, toSuspend, myReadyPlans, collecting, completed,
                 collections>>

\* The second part of removeDeadPlans(): Safepoint::cancel() for the plans of v that
\* are not known to be live and were not cancelled by an earlier collection.
CancelSafepoints(v) ==
  /\ GotoVM(v, "cancelling", "finishing")
  /\ didGetCancelled' = [w \in Workers |->
       \/ didGetCancelled[w]
       \/ /\ safepoint[w] # NoPlan
          /\ VMOf[safepoint[w]] = v
          /\ stage[safepoint[w]] = "Cancelled"]
  /\ UNCHANGED <<worklist, locks, pc, plan, safepoint, stage, toSuspend, myReadyPlans, collecting,
                 completed, collections>>

\* didFinishCollection().
DidFinishCollection(v) ==
  /\ GotoVM(v, "finishing", "resuming")
  /\ collecting' = [collecting EXCEPT ![v] = FALSE]
  /\ UNCHANGED <<worklist, locks, threads, stage, toSuspend, myReadyPlans, completed, collections>>

\* resumeAllThreads(), from the last thread to the first.
ResumeThread(v) ==
  /\ vmpc[v] = "resuming"
  /\ \E w \in Workers :
       /\ rightToRun[w] = v
       /\ \A x \in Workers : rightToRun[x] = v => x <= w
       /\ rightToRun' = [rightToRun EXCEPT ![w] = Nobody]
  /\ UNCHANGED <<worklist, suspension, threads, stage, vms>>

UnlockSuspension(v) ==
  /\ \A w \in Workers : rightToRun[w] # v
  /\ GotoVM(v, "resuming", "running")
  /\ suspension' = Nobody
  /\ UNCHANGED <<worklist, rightToRun, threads, stage, toSuspend, myReadyPlans, collecting, completed,
                 collections>>

-----------------------------------------------------------------------------
Worker(w) ==
  \/ Sleep(w) \/ TakePlan(w) \/ Terminate(w) \/ LockRightToRun(w)
  \/ CancelledBeforeCompiling(w) \/ NotifyCompiling(w)
  \/ SafepointEnd(w) \/ CompileInThreadDone(w)
  \/ CancelledWhileCompiling(w) \/ NotifyCompiled(w)
  \/ CancelledAfterCompiling(w) \/ NotifyReady(w)

\* What a VM may choose to do.
Call(v) ==
  \/ \E p \in Plans : Enqueue(v, p)
  \/ CompleteAllReadyPlansForVM(v) /\ vmpc[v] = "running"
  \/ WaitUntilAllPlansForVMAreReadyCall(v)
  \/ LockSuspension(v)

\* What it has to finish once it has begun.
Run(v) ==
  \/ CompleteAllReadyPlansForVM(v) /\ vmpc[v] = "allReady"
  \/ FinalizePlan(v) \/ FinalizeDone(v) \/ WaitUntilAllPlansForVMAreReady(v) \/ DestroyVM(v)
  \/ SuspendThread(v) \/ WillStartCollection(v) \/ RemoveDeadPlans(v) \/ CancelSafepoints(v)
  \/ DidFinishCollection(v) \/ ResumeThread(v) \/ UnlockSuspension(v)

\* Everybody is done.
Terminated ==
  /\ \A w \in Workers : pc[w] = "terminated"
  /\ UNCHANGED vars

Next ==
  \/ \E w \in Workers : Worker(w) \/ SafepointBegin(w)
  \/ \E v \in VMs : Call(v) \/ Run(v)
  \/ Destroy
  \/ Terminated

Spec == Init /\ [][Next]_vars

\* Threads keep running, and every compilation has finitely many safepoints.
FairSpec ==
  /\ Spec
  /\ \A w \in Workers :
       /\ WF_vars(Worker(w))
       /\ SF_vars(CompileInThreadDone(w))
  /\ \A v \in VMs : WF_vars(Run(v))

-----------------------------------------------------------------------------
Stages == {"New", "Preparing", "Compiling", "Compiled", "Ready", "Cancelled"}
PC == {"idle", "asleep", "tookPlan", "owning", "compiling", "safepoint", "compiled", "released",
       "terminated"}
VMPC == {"running", "waiting", "asleep", "allReady", "waitingToDie", "asleepToDie", "allReadyToDie",
         "completing", "destroyed", "suspending", "collecting", "cancelling", "finishing", "resuming"}
Running == {"owning", "compiling", "compiled"}
Active == Running \cup {"tookPlan", "safepoint", "released"}

TypeOK ==
  /\ plans \subseteq Plans
  /\ queue \in Seq(Plans \cup {NoPlan}) /\ readyPlans \in Seq(Plans)
  /\ activeThreads \in 0..NumThreads
  /\ suspension \in VMs \cup {Nobody}
  /\ rightToRun \in [Workers -> VMs \cup Workers \cup {Nobody}]
  /\ safepoint \in [Workers -> Plans \cup {NoPlan}]
  /\ stage \in [Plans -> Stages]
  /\ pc \in [Workers -> PC]
  /\ plan \in [Workers -> Plans \cup {NoPlan}]
  /\ didGetCancelled \in [Workers -> BOOLEAN]
  /\ vmpc \in [VMs -> VMPC]
  /\ toSuspend \in [VMs -> 0..NumThreads]
  /\ myReadyPlans \in [VMs -> Seq(Plans)]
  /\ collecting \in [VMs -> BOOLEAN]
  /\ completed \subseteq Plans
  /\ collections \in [VMs -> 0..MaxCollections]

(***************************************************************************)
(* RELEASE_ASSERT(!plan->vm.heap.isCollecting()), before and after         *)
(* compileInThread() and after notifyCompiled(): no thread works on the    *)
(* code of a VM that collects, except at a safepoint.                      *)
(***************************************************************************)
NoCompilingDuringCollection ==
  \A w \in Workers : pc[w] \in Running => ~collecting[VMOf[plan[w]]]

(***************************************************************************)
(* RELEASE_ASSERT((path == CancelPath) == (stage == Cancelled)): a thread  *)
(* whose plan is cancelled while it compiles finds out at the end of the   *)
(* safepoint, and no other thread does.                                    *)
(***************************************************************************)
CancelPathAssertion ==
  \A w \in Workers : pc[w] = "compiled" => (didGetCancelled[w] <=> stage[plan[w]] = "Cancelled")

(***************************************************************************)
(* Every plan in m_plans is in exactly one place: in the queue, in the     *)
(* hands of one thread, or ready; and no plan outside m_plans is in the    *)
(* queue, ready to be completed, or compiled without being cancelled.      *)
(***************************************************************************)
Places(p) ==
  Cardinality({i \in DOMAIN queue : queue[i] = p}) +
  Cardinality({w \in Workers : plan[w] = p}) +
  Cardinality({i \in DOMAIN readyPlans : readyPlans[i] = p})

PlansAccountedFor ==
  \A p \in Plans :
    /\ p \in plans => Places(p) = 1 /\ stage[p] # "Cancelled"
    /\ p \notin plans /\ stage[p] # "Cancelled" => Places(p) = 0
    /\ Contains(queue, p) => stage[p] = "Preparing"

(***************************************************************************)
(* ~VM(): "Make sure concurrent compilations are done": when a VM is gone  *)
(* no thread compiles for it, at a safepoint or not.                       *)
(***************************************************************************)
CompilationsDoneAtDestruction ==
  \A w \in Workers :
    pc[w] \in {"compiling", "safepoint", "compiled"} => vmpc[VMOf[plan[w]]] # "destroyed"

(***************************************************************************)
(* A VM that waits for its plans, because it completes all of them or is   *)
(* destroyed, gets there.                                                  *)
(***************************************************************************)
WaitingVMGoesOn ==
  \A v \in VMs : []<>(vmpc[v] \notin {"waiting", "asleep", "waitingToDie", "asleepToDie"})

\* Every plan that is enqueued becomes ready or is cancelled.
EveryPlanIsCompiled ==
  \A p \in Plans : []<>(stage[p] \notin {"Preparing", "Compiling", "Compiled"})

\* Where a plan is in its life; the first line that applies.
State(p) ==
  IF stage[p] = "New" THEN "absent"
  ELSE IF stage[p] = "Cancelled" THEN "cancelled"
  ELSE IF p \in completed THEN "completed"
  ELSE IF stage[p] = "Ready" THEN "ready"
  ELSE "pending"

Abstract == INSTANCE PlanLifecycle WITH
  state <- [p \in Plans |-> State(p)],
  collecting <- {v \in VMs : collecting[v]}

(***************************************************************************)
(* The worklist implements PlanLifecycle: a plan that was cancelled is     *)
(* never completed, none is completed twice, and a plan is completed only  *)
(* while its VM does not collect.                                          *)
(***************************************************************************)
ImplementsPlanLifecycle == Abstract!Spec
=============================================================================
