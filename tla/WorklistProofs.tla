--------------------------- MODULE WorklistProofs ---------------------------
(***************************************************************************)
(* For any VMs, compiler threads and plans: no thread compiles for a VM    *)
(* that collects, a thread takes the CancelPath exactly when its plan was  *)
(* cancelled, every plan is accounted for, and the worklist implements     *)
(* PlanLifecycle.                                                          *)
(*                                                                         *)
(* IInv is about the locks: a thread that runs owns its m_rightToRun, the  *)
(* owner of m_suspensionLock has locked the m_rightToRun of all threads    *)
(* beyond toSuspend, and a VM that collects has locked all of them.        *)
(* PlanInv is about the plans, and rests on it.  The loops over m_queue    *)
(* and m_readyPlans are recursive functions: what they compute is proved   *)
(* by induction on their turns.                                            *)
(***************************************************************************)
EXTENDS Worklist, TLAPS, NaturalsInduction, FiniteSetTheorems

Suspending == {"suspending", "collecting", "cancelling", "finishing", "resuming"}
Collecting == {"collecting", "cancelling", "finishing"}

Types ==
  /\ pc \in [Workers -> PC]
  /\ vmpc \in [VMs -> VMPC]
  /\ rightToRun \in [Workers -> VMs \cup Workers \cup {Nobody}]
  /\ toSuspend \in [VMs -> 0..NumThreads]
  /\ collecting \in [VMs -> BOOLEAN]

\* m_suspensionLock: at most one VM suspends threads.
OneSuspends == \A v \in VMs : vmpc[v] \in Suspending => suspension = v

\* A thread that runs owns its right to run.
RunnersOwn == \A w \in Workers : pc[w] \in Running => rightToRun[w] = w

\* What suspendAllThreads() has locked so far.
SuspendedSoFar ==
  \A v \in VMs : \A w \in Workers :
    /\ vmpc[v] = "suspending" /\ w > toSuspend[v] => rightToRun[w] = v
    /\ vmpc[v] \in Collecting => rightToRun[w] = v

CollectingAsTold == \A v \in VMs : collecting[v] => vmpc[v] \in Collecting

\* A thread that is active has a plan.
PlansHeld == plan \in [Workers -> Plans \cup {NoPlan}] /\ \A w \in Workers : pc[w] \in Active => plan[w] \in Plans

IInv == Types /\ OneSuspends /\ RunnersOwn /\ SuspendedSoFar /\ CollectingAsTold /\ PlansHeld

USE ConstantsAssumption

LEMMA WorkersNotVMs == \A w \in Workers, v \in VMs : w # v /\ w # Nobody /\ v # Nobody
  BY DEF Workers

LEMMA InitIInv == Init => IInv
  BY DEF Init, IInv, Types, OneSuspends, RunnersOwn, SuspendedSoFar, CollectingAsTold, PC, VMPC,
         Suspending, Collecting, Running, Active, PlansHeld, Workers
LEMMA NextIInv == IInv /\ [Next]_vars => IInv'
<1> SUFFICES ASSUME IInv, [Next]_vars PROVE IInv'
  OBVIOUS
<1> USE WorkersNotVMs DEF IInv, Types, OneSuspends, RunnersOwn, SuspendedSoFar, CollectingAsTold,
        PlansHeld, PC, VMPC, Suspending, Collecting, Running, Active, Goto, GotoVM, worklist, locks,
        threads, vms
<1>1. ASSUME NEW w \in Workers, Worker(w) \/ SafepointBegin(w) PROVE IInv'
  <2>1. CASE Sleep(w)
    BY <2>1 DEF Sleep
  <2>2. CASE TakePlan(w)
    BY <2>2 DEF TakePlan
  <2>3. CASE Terminate(w)
    BY <2>3 DEF Terminate
  <2>4. CASE LockRightToRun(w)
    BY <2>4 DEF LockRightToRun
  <2>5. CASE CancelledBeforeCompiling(w)
    BY <2>5 DEF CancelledBeforeCompiling, DropCancelled
  <2>6. CASE NotifyCompiling(w)
    BY <2>6 DEF NotifyCompiling
  <2>7. CASE SafepointEnd(w)
    BY <2>7 DEF SafepointEnd
  <2>8. CASE CompileInThreadDone(w)
    BY <2>8 DEF CompileInThreadDone
  <2>9. CASE CancelledWhileCompiling(w)
    BY <2>9 DEF CancelledWhileCompiling, DropCancelled
  <2>10. CASE NotifyCompiled(w)
    BY <2>10 DEF NotifyCompiled
  <2>11. CASE CancelledAfterCompiling(w)
    BY <2>11 DEF CancelledAfterCompiling, DropCancelled
  <2>12. CASE NotifyReady(w)
    BY <2>12 DEF NotifyReady, NotifyPlanCompiled
  <2>13. CASE SafepointBegin(w)
    BY <2>13 DEF SafepointBegin
  <2> QED
    BY <1>1, <2>1, <2>2, <2>3, <2>4, <2>5, <2>6, <2>7, <2>8, <2>9, <2>10, <2>11, <2>12, <2>13 DEF Worker
<1>2. ASSUME NEW v \in VMs, Call(v) \/ Run(v) PROVE IInv'
  <2>1. CASE FinalizePlan(v)
    BY <2>1 DEF FinalizePlan
  <2>2. CASE FinalizeDone(v)
    BY <2>2 DEF FinalizeDone
  <2>3. CASE WaitUntilAllPlansForVMAreReady(v)
    BY <2>3 DEF WaitUntilAllPlansForVMAreReady, AllAreCompiled
  <2>4. CASE DestroyVM(v)
    BY <2>4 DEF DestroyVM
  <2>5. CASE SuspendThread(v)
    <3>1. toSuspend[v] \in Workers /\ rightToRun[toSuspend[v]] = Nobody
      BY <2>5 DEF SuspendThread, Workers
    <3>2. \A w \in Workers : w > toSuspend'[v] => w = toSuspend[v] \/ w > toSuspend[v]
      BY <2>5 DEF SuspendThread, Workers
    <3>3. \A u \in VMs : u # v => vmpc[u] \notin Suspending
      BY <2>5 DEF SuspendThread
    <3>4. Types' /\ RunnersOwn'
      BY <2>5, <3>1 DEF SuspendThread, Workers
    <3>5. OneSuspends' /\ CollectingAsTold' /\ PlansHeld'
      BY <2>5 DEF SuspendThread
    <3>6. SuspendedSoFar'
      BY <2>5, <3>1, <3>2, <3>3 DEF SuspendThread
    <3> QED
      BY <3>4, <3>5, <3>6
  <2>6. CASE WillStartCollection(v)
    <3>1. \A w \in Workers : w > toSuspend[v]
      BY <2>6 DEF WillStartCollection, Workers
    <3> QED
      BY <2>6, <3>1 DEF WillStartCollection
  <2>7. CASE RemoveDeadPlans(v)
    <3>1. /\ GotoVM(v, "collecting", "cancelling")
          /\ UNCHANGED <<locks, threads, toSuspend, collecting>>
      BY <2>7, Zenon DEF RemoveDeadPlans
    <3> QED
      BY <3>1
  <2>8. CASE CancelSafepoints(v)
    BY <2>8 DEF CancelSafepoints
  <2>9. CASE DidFinishCollection(v)
    BY <2>9 DEF DidFinishCollection
  <2>10. CASE ResumeThread(v)
    <3>1. PICK x \in Workers : rightToRun[x] = v /\ rightToRun' = [rightToRun EXCEPT ![x] = Nobody]
      BY <2>10 DEF ResumeThread
    <3>2. \A u \in VMs : u # v => vmpc[u] \notin Suspending
      BY <2>10 DEF ResumeThread
    <3>3. Types' /\ RunnersOwn'
      BY <2>10, <3>1 DEF ResumeThread
    <3>4. OneSuspends' /\ CollectingAsTold' /\ PlansHeld'
      BY <2>10 DEF ResumeThread
    <3>5. SuspendedSoFar'
      BY <2>10, <3>1, <3>2 DEF ResumeThread
    <3> QED
      BY <3>3, <3>4, <3>5
  <2>11. CASE UnlockSuspension(v)
    BY <2>11 DEF UnlockSuspension
  <2>12. CASE CompleteAllReadyPlansForVM(v)
    BY <2>12 DEF CompleteAllReadyPlansForVM, RemoveAllReadyPlansForVM
  <2>13. CASE WaitUntilAllPlansForVMAreReadyCall(v)
    BY <2>13 DEF WaitUntilAllPlansForVMAreReadyCall
  <2>14. CASE LockSuspension(v)
    <3>1. \A u \in VMs : vmpc[u] \notin Suspending
      BY <2>14 DEF LockSuspension
    <3>2. \A w \in Workers : ~(w > toSuspend'[v])
      BY <2>14 DEF LockSuspension, Workers
    <3>3. Types'
      BY <2>14 DEF LockSuspension
    <3> QED
      BY <2>14, <3>1, <3>2, <3>3 DEF LockSuspension
  <2>15. ASSUME NEW p \in Plans, Enqueue(v, p) PROVE IInv'
    <3>1. NotifyPlanEnqueued /\ UNCHANGED <<locks, plan, safepoint, vms>>
      BY <2>15, Zenon DEF Enqueue
    <3> QED
      BY <3>1 DEF NotifyPlanEnqueued
  <2> QED
    BY <1>2, <2>1, <2>2, <2>3, <2>4, <2>5, <2>6, <2>7, <2>8, <2>9, <2>10, <2>11, <2>12, <2>13, <2>14, <2>15 DEF Call, Run
<1>3. CASE Destroy
  BY <1>3 DEF Destroy
<1>4. CASE UNCHANGED vars
  BY <1>4 DEF vars
<1> QED
  BY <1>1, <1>2, <1>3, <1>4 DEF Next, Terminated

LEMMA IInvImplies == IInv => NoCompilingDuringCollection
<1> SUFFICES ASSUME IInv, NEW w \in Workers, pc[w] \in Running PROVE ~collecting[VMOf[plan[w]]]
  BY DEF NoCompilingDuringCollection
<1>1. plan[w] \in Plans /\ VMOf[plan[w]] \in VMs
  BY DEF IInv, PlansHeld, Active
<1>2. rightToRun[w] = w
  BY DEF IInv, RunnersOwn
<1> QED
  BY <1>1, <1>2, WorkersNotVMs DEF IInv, CollectingAsTold, SuspendedSoFar

\* The RELEASE_ASSERTs of runThread() never fail: no compiler thread works on the code
\* of a VM that collects, for any number of VMs, threads and plans.
THEOREM NoCompilingDuringCollectionAlways == Spec => []NoCompilingDuringCollection
  BY InitIInv, NextIInv, IInvImplies, PTL DEF Spec

-----------------------------------------------------------------------------
(***************************************************************************)
(* Where the plans are.  The second invariant says of every plan where it  *)
(* is and in which stage it may be there; it needs the first one, because  *)
(* a plan is cancelled only while no thread runs.                          *)
(***************************************************************************)
ElementsOf(s) == {s[i] : i \in DOMAIN s} \ {NoPlan}
Once(s) == \A i, j \in DOMAIN s : s[i] = s[j] /\ s[i] # NoPlan => i = j

PlanTypes ==
  /\ plans \subseteq Plans
  /\ queue \in Seq(Plans \cup {NoPlan}) /\ readyPlans \in Seq(Plans)
  /\ safepoint \in [Workers -> Plans \cup {NoPlan}]
  /\ stage \in [Plans -> Stages]
  /\ didGetCancelled \in [Workers -> BOOLEAN]
  /\ myReadyPlans \in [VMs -> Seq(Plans)]
  /\ completed \subseteq Plans

\* A plan is queued, held or ready at most once, and in at most one of these ways.
Separate ==
  /\ Once(queue) /\ Once(readyPlans)
  /\ \A w, x \in Workers : plan[w] = plan[x] /\ plan[w] # NoPlan => w = x
  /\ ElementsOf(queue) \cap ElementsOf(readyPlans) = {}
  /\ \A w \in Workers : plan[w] \notin ElementsOf(queue) \cup ElementsOf(readyPlans)

\* The stages of the plans that are queued, held and ready; only a cancelled one may be
\* missing from m_plans.
QueuedStages == \A p \in ElementsOf(queue) : stage[p] = "Preparing" /\ p \in plans
HeldStages ==
  \A w \in Workers : plan[w] # NoPlan =>
    /\ pc[w] \in Active
    /\ stage[plan[w]] \in {"Preparing", "Compiling", "Compiled", "Cancelled"}
    /\ stage[plan[w]] # "Cancelled" => plan[w] \in plans
ReadyStages ==
  \A p \in ElementsOf(readyPlans) :
    stage[p] = "Cancelled" \/ (stage[p] = "Ready" /\ p \in plans)

\* Every plan in m_plans is somewhere, alone with its key.
PlansSomewhere ==
  \A p \in plans :
    /\ stage[p] \notin {"New", "Cancelled"}
    /\ p \in ElementsOf(queue) \cup ElementsOf(readyPlans) \/ \E w \in Workers : plan[w] = p
    /\ \A q \in plans : KeyOf[q] = KeyOf[p] => q = p

\* The plans that a VM is about to finalize, and those it has finalized.
BeingCompleted ==
  /\ \A v \in VMs :
       /\ Once(myReadyPlans[v])
       /\ myReadyPlans[v] # <<>> => vmpc[v] = "completing"
       /\ \A p \in ElementsOf(myReadyPlans[v]) :
            VMOf[p] = v /\ stage[p] = "Ready" /\ p \notin plans /\ p \notin completed
  /\ \A p \in completed : stage[p] = "Ready" /\ p \notin plans

\* What a thread knows of the cancellation of its plan: at a safepoint it may be late
\* only between the two parts of removeDeadPlans().
CancellationKnown ==
  \A w \in Workers :
    /\ pc[w] \in {"tookPlan", "owning"} => ~didGetCancelled[w]
    /\ pc[w] \in {"compiling", "compiled"} => (didGetCancelled[w] <=> stage[plan[w]] = "Cancelled")
    /\ safepoint[w] = IF pc[w] = "safepoint" THEN plan[w] ELSE NoPlan
    /\ pc[w] = "safepoint" =>
         /\ didGetCancelled[w] => stage[plan[w]] = "Cancelled"
         /\ stage[plan[w]] = "Cancelled" => didGetCancelled[w] \/ vmpc[VMOf[plan[w]]] = "cancelling"

ToldAsCollecting == \A v \in VMs : vmpc[v] \in Collecting => collecting[v]

PlanInv ==
  /\ PlanTypes /\ Separate
  /\ QueuedStages /\ HeldStages /\ ReadyStages /\ PlansSomewhere
  /\ BeingCompleted /\ CancellationKnown /\ ToldAsCollecting

(***************************************************************************)
(* What the operations on queues do to their elements.                     *)
(***************************************************************************)
LEMMA AppendElements ==
  ASSUME NEW T, NEW s \in Seq(T), NEW x \in T, x \notin ElementsOf(s), Once(s)
  PROVE  /\ Append(s, x) \in Seq(T)
         /\ Once(Append(s, x))
         /\ ElementsOf(Append(s, x)) = (ElementsOf(s) \cup {x}) \ {NoPlan}
<1> DEFINE t == Append(s, x)
           n == Len(s)
<1>1. n \in Nat /\ DOMAIN s = 1..n /\ DOMAIN t = 1..(n + 1) /\ t \in Seq(T)
  OBVIOUS
<1>2. t[n + 1] = x /\ \A i \in 1..n : t[i] = s[i]
  OBVIOUS
<1> HIDE DEF t, n
<1>3. \A i \in 1..n : s[i] # NoPlan => s[i] # x
  BY <1>1 DEF ElementsOf
<1>4. Once(t)
  BY <1>1, <1>2, <1>3 DEF Once
<1>5. ElementsOf(t) = (ElementsOf(s) \cup {x}) \ {NoPlan}
  BY <1>1, <1>2 DEF ElementsOf
<1> QED
  BY <1>1, <1>4, <1>5 DEF t

LEMMA TailElements ==
  ASSUME NEW T, NEW s \in Seq(T), s # <<>>, Once(s)
  PROVE  /\ Head(s) \in T /\ Tail(s) \in Seq(T)
         /\ Once(Tail(s))
         /\ ElementsOf(Tail(s)) = ElementsOf(s) \ {Head(s)}
         /\ Head(s) # NoPlan => Head(s) \in ElementsOf(s)
<1> DEFINE t == Tail(s)
           n == Len(s)
<1>1. n \in Nat \ {0} /\ DOMAIN s = 1..n /\ DOMAIN t = 1..(n - 1) /\ t \in Seq(T) /\ Head(s) = s[1] /\ s[1] \in T
  OBVIOUS
<1>2. \A i \in 1..(n - 1) : t[i] = s[i + 1]
  OBVIOUS
<1> HIDE DEF t, n
<1>3. \A i \in 2..n : i - 1 \in 1..(n - 1) /\ t[i - 1] = s[i]
  BY <1>1, <1>2
<1>4. Once(t)
  <2> SUFFICES ASSUME NEW i \in 1..(n - 1), NEW j \in 1..(n - 1), t[i] = t[j], t[i] # NoPlan PROVE i = j
    BY <1>1 DEF Once
  <2>1. i + 1 \in 1..n /\ j + 1 \in 1..n /\ s[i + 1] = s[j + 1] /\ s[i + 1] # NoPlan
    BY <1>1, <1>2
  <2>2. i + 1 = j + 1
    BY <1>1, <2>1 DEF Once
  <2> QED BY <2>2
<1>5. ASSUME NEW x \in ElementsOf(t) PROVE x \in ElementsOf(s) \ {s[1]}
  <2>1. PICK i \in 1..(n - 1) : x = t[i]
    BY <1>1 DEF ElementsOf
  <2>2. x # NoPlan /\ x = s[i + 1] /\ i + 1 \in 1..n /\ 1 \in 1..n /\ i + 1 # 1
    BY <1>1, <1>2, <2>1 DEF ElementsOf
  <2>3. x \in ElementsOf(s)
    BY <1>1, <2>2 DEF ElementsOf
  <2> QED BY <1>1, <2>2, <2>3 DEF Once
<1>6. ASSUME NEW x \in ElementsOf(s) \ {s[1]} PROVE x \in ElementsOf(t)
  <2>1. PICK i \in 1..n : x = s[i]
    BY <1>1 DEF ElementsOf
  <2>2. x # NoPlan /\ i \in 2..n
    BY <1>1, <2>1 DEF ElementsOf
  <2>3. i - 1 \in DOMAIN t /\ t[i - 1] = x
    BY <1>1, <1>3, <2>1, <2>2
  <2> QED BY <2>2, <2>3 DEF ElementsOf
<1>7. 1 \in DOMAIN s
  BY <1>1
<1>8. s[1] # NoPlan => s[1] \in ElementsOf(s)
  BY <1>7 DEF ElementsOf
<1> QED
  BY <1>1, <1>4, <1>5, <1>6, <1>8 DEF t

LEMMA FrontElements ==
  ASSUME NEW T, NEW s \in Seq(T), s # <<>>, Once(s)
  PROVE  /\ Last(s) \in T /\ Front(s) \in Seq(T)
         /\ Once(Front(s))
         /\ ElementsOf(Front(s)) = ElementsOf(s) \ {Last(s)}
         /\ Last(s) # NoPlan => Last(s) \in ElementsOf(s)
<1> DEFINE t == Front(s)
           n == Len(s)
<1>1. /\ n \in Nat \ {0} /\ DOMAIN s = 1..n /\ DOMAIN t = 1..(n - 1) /\ t \in Seq(T)
      /\ Last(s) = s[n] /\ s[n] \in T
  BY DEF Front, Last
<1>2. \A i \in 1..(n - 1) : t[i] = s[i]
  BY DEF Front
<1> HIDE DEF t, n
<1>3. Once(t)
  BY <1>1, <1>2 DEF Once
<1>4. ElementsOf(t) \subseteq ElementsOf(s) \ {s[n]}
  BY <1>1, <1>2 DEF ElementsOf, Once
<1>5. ElementsOf(s) \ {s[n]} \subseteq ElementsOf(t)
  BY <1>1, <1>2 DEF ElementsOf
<1>6. n \in DOMAIN s
  BY <1>1
<1>7. s[n] # NoPlan => s[n] \in ElementsOf(s)
  BY <1>6 DEF ElementsOf
<1> QED
  BY <1>1, <1>3, <1>4, <1>5, <1>7 DEF t

\* m_readyPlans[i] = m_readyPlans.last(); m_readyPlans.removeLast().
SwapRemove(s, i) == Front([s EXCEPT ![i] = Last(s)])

LEMMA SwapRemoveElements ==
  ASSUME NEW T, NEW s \in Seq(T), NEW i \in 1..Len(s), Once(s)
  PROVE  /\ SwapRemove(s, i) \in Seq(T) /\ Len(SwapRemove(s, i)) = Len(s) - 1
         /\ Once(SwapRemove(s, i))
         /\ ElementsOf(SwapRemove(s, i)) = ElementsOf(s) \ {s[i]}
<1> DEFINE u == [s EXCEPT ![i] = Last(s)]
           t == SwapRemove(s, i)
           n == Len(s)
<1>1. n \in Nat \ {0} /\ i \in 1..n /\ DOMAIN s = 1..n /\ Last(s) = s[n] /\ s[n] \in T
  BY DEF Last
<1>2. u \in Seq(T) /\ Len(u) = n /\ \A j \in 1..n : u[j] = IF j = i THEN s[n] ELSE s[j]
  BY <1>1
<1>3. t = Front(u)
  BY DEF SwapRemove
<1> HIDE DEF u
<1>4. t \in Seq(T) /\ Len(t) = n - 1 /\ DOMAIN t = 1..(n - 1) /\ \A j \in 1..(n - 1) : t[j] = u[j]
  BY <1>3, <1>1, <1>2 DEF Front
<1> HIDE DEF t, n
<1>5. \A j \in 1..(n - 1) : t[j] = IF j = i THEN s[n] ELSE s[j]
  BY <1>1, <1>2, <1>4
<1>6. Once(t)
  BY <1>1, <1>4, <1>5 DEF Once
<1>7. ElementsOf(t) \subseteq ElementsOf(s) \ {s[i]}
  BY <1>1, <1>4, <1>5 DEF ElementsOf, Once
<1>8. ASSUME NEW x \in ElementsOf(s) \ {s[i]} PROVE x \in ElementsOf(t)
  <2>1. PICK j \in 1..n : x = s[j]
    BY <1>1 DEF ElementsOf
  <2>2. x # NoPlan /\ j # i
    BY <2>1 DEF ElementsOf
  <2>3. CASE j = n
    <3>1. i \in 1..(n - 1) /\ t[i] = x
      BY <1>1, <1>5, <2>1, <2>2, <2>3
    <3> QED BY <3>1, <1>4, <2>2 DEF ElementsOf
  <2>4. CASE j # n
    <3>1. j \in 1..(n - 1) /\ t[j] = x
      BY <1>1, <1>5, <2>1, <2>2, <2>4
    <3> QED BY <3>1, <1>4, <2>2 DEF ElementsOf
  <2> QED BY <2>3, <2>4
<1> QED
  BY <1>4, <1>6, <1>7, <1>8 DEF t, n

\* The null plans of ~Worklist() are not elements.
LEMMA NullPlansElements ==
  ASSUME NEW s \in Seq(Plans \cup {NoPlan}), Once(s)
  PROVE  LET t == s \o [w \in Workers |-> NoPlan] IN
         t \in Seq(Plans \cup {NoPlan}) /\ Once(t) /\ ElementsOf(t) = ElementsOf(s)
<1> DEFINE u == [w \in Workers |-> NoPlan]
           t == s \o u
           n == Len(s)
<1>1. u \in Seq(Plans \cup {NoPlan}) /\ Len(u) = NumThreads /\ \A j \in 1..NumThreads : u[j] = NoPlan
  BY DEF Workers
<1> HIDE DEF u
<1>2. n \in Nat /\ DOMAIN s = 1..n /\ t \in Seq(Plans \cup {NoPlan}) /\ DOMAIN t = 1..(n + NumThreads)
  BY <1>1
<1>3. \A j \in 1..(n + NumThreads) : t[j] = IF j <= n THEN s[j] ELSE u[j - n]
  BY <1>1, <1>2
<1> HIDE DEF t, n
<1>4. \A j \in 1..(n + NumThreads) : t[j] = IF j <= n THEN s[j] ELSE NoPlan
  BY <1>1, <1>2, <1>3
<1>5. Once(t)
  BY <1>2, <1>4 DEF Once
<1>6. ElementsOf(t) = ElementsOf(s)
  BY <1>2, <1>4 DEF ElementsOf
<1> QED
  BY <1>2, <1>5, <1>6 DEF t, u

(***************************************************************************)
(* Induction over the natural numbers, and loops.                          *)
(***************************************************************************)
LEMMA LeastNumber ==
  ASSUME NEW T \in SUBSET Nat, T # {}
  PROVE  \E m \in T : \A k \in T : m <= k
<1> DEFINE R == {ss \in Nat \X Nat : ss[1] < ss[2]}
<1>1. IsWellFoundedOn(R, Nat)
  BY NatLessThanWellFounded DEF OpToRel
<1>2. \A x, y \in Nat : <<y, x>> \in R <=> y < x
  OBVIOUS
<1> HIDE DEF R
<1>3. PICK x \in T : \A y \in T : <<y, x>> \notin R
  BY <1>1, WFMin
<1>4. x \in Nat /\ \A y \in T : y \in Nat /\ ~(y < x)
  BY <1>2, <1>3
<1> QED
  BY <1>4

LEMMA SetInduction ==
  ASSUME NEW S, 0 \in S, \A n \in Nat : n \in S => n + 1 \in S
  PROVE  Nat \subseteq S
<1> SUFFICES ASSUME NEW x \in Nat, x \notin S PROVE FALSE
  OBVIOUS
<1> DEFINE T == {n \in Nat : n \notin S}
<1>1. PICK m \in T : \A k \in T : m <= k
  BY LeastNumber
<1>2. m - 1 \in Nat /\ m - 1 \notin T
  BY <1>1
<1> QED
  BY <1>2

\* A loop of n turns over states in S has a sequence of states.
IsLoop(f, s0, step, n) == f[0] = s0 /\ \A i \in 1..n : f[i] = step[<<i, f[i - 1]>>]

LEMMA LoopExists ==
  ASSUME NEW S, NEW s0 \in S, NEW step \in [Nat \X S -> S], NEW n \in Nat
  PROVE  \E f \in [0..n -> S] : IsLoop(f, s0, step, n)
<1> DEFINE Loop(f, m) == f[0] = s0 /\ \A i \in 1..m : f[i] = step[<<i, f[i - 1]>>]
           M == {m \in Nat : \E f \in [0..m -> S] : Loop(f, m)}
<1>1. 0 \in M
  <2> DEFINE g == [i \in 0..0 |-> s0]
  <2>1. g \in [0..0 -> S] /\ Loop(g, 0)
    OBVIOUS
  <2> QED BY <2>1
<1>2. ASSUME NEW m \in Nat, m \in M PROVE m + 1 \in M
  <2>1. PICK f \in [0..m -> S] : Loop(f, m)
    BY <1>2
  <2> DEFINE x == step[<<m + 1, f[m]>>]
             g == [i \in 0..(m + 1) |-> IF i = m + 1 THEN x ELSE f[i]]
  <2>2. <<m + 1, f[m]>> \in Nat \X S
    OBVIOUS
  <2>3. x \in S
    BY <2>2
  <2> HIDE DEF x
  <2>4. g \in [0..(m + 1) -> S]
    BY <2>3
  <2>5. g[0] = s0 /\ \A i \in 0..m : g[i] = f[i]
    BY <2>1
  <2>6. g[m + 1] = x
    OBVIOUS
  <2> HIDE DEF g
  <2>7. ASSUME NEW i \in 1..(m + 1) PROVE g[i] = step[<<i, g[i - 1]>>]
    <3>1. CASE i = m + 1
      <4>1. i - 1 = m /\ g[m] = f[m]
        BY <2>5, <3>1
      <4> QED BY <2>6, <3>1, <4>1 DEF x
    <3>2. CASE i # m + 1
      <4>1. i \in 1..m /\ i \in 0..m /\ i - 1 \in 0..m
        BY <3>2
      <4>2. f[i] = step[<<i, f[i - 1]>>]
        BY <2>1, <4>1
      <4> QED BY <2>5, <4>1, <4>2
    <3> QED BY <3>1, <3>2
  <2>8. Loop(g, m + 1)
    BY <2>5, <2>7
  <2> QED BY <2>4, <2>8
<1> HIDE DEF M
<1>3. Nat \subseteq M
  BY <1>1, <1>2, SetInduction
<1>4. n \in M
  BY <1>3
<1> QED
  BY <1>4 DEF M, IsLoop

\* The turns of the loop that builds the new queue.
LEMMA LiveQueueLoop ==
  ASSUME NEW dead, NEW T, queue \in Seq(T)
  PROVE  \E f :
           /\ f[0] = <<>> /\ LiveQueue(dead) = f[Len(queue)]
           /\ \A i \in 1..Len(queue) :
                f[i] = IF queue[i] \in dead THEN f[i - 1] ELSE Append(f[i - 1], queue[i])
<1> DEFINE n == Len(queue)
           Is(f) == f = [i \in 0..n |-> IF i = 0 THEN <<>>
                                        ELSE IF queue[i] \in dead THEN f[i - 1]
                                        ELSE Append(f[i - 1], queue[i])]
           Turn(i, s) == IF i \in 1..n /\ queue[i] \notin dead THEN Append(s, queue[i]) ELSE s
           step == [z \in Nat \X Seq(T) |-> Turn(z[1], z[2])]
<1>1. n \in Nat /\ \A i \in 1..n : queue[i] \in T
  OBVIOUS
<1>2. LiveQueue(dead) = (CHOOSE f : Is(f))[n]
  BY DEF LiveQueue
<1> HIDE DEF n
<1>3. ASSUME NEW i \in Nat, NEW s \in Seq(T) PROVE Turn(i, s) \in Seq(T)
  BY <1>1
<1> HIDE DEF Turn
<1>4. step \in [Nat \X Seq(T) -> Seq(T)] /\ \A i \in Nat, s \in Seq(T) : step[<<i, s>>] = Turn(i, s)
  BY <1>3
<1> HIDE DEF step
<1>5. <<>> \in Seq(T)
  OBVIOUS
<1>6. PICK g \in [0..n -> Seq(T)] : g[0] = <<>> /\ \A i \in 1..n : g[i] = step[<<i, g[i - 1]>>]
  <2>1. \E f \in [0..n -> Seq(T)] : IsLoop(f, <<>>, step, n)
    BY <1>1, <1>4, <1>5, LoopExists
  <2> QED BY <2>1 DEF IsLoop
<1>7. ASSUME NEW i \in 1..n PROVE g[i] = Turn(i, g[i - 1])
  <2>1. i \in Nat /\ i - 1 \in 0..n
    BY <1>1
  <2>2. g[i - 1] \in Seq(T)
    BY <2>1
  <2> QED BY <1>4, <1>6, <2>1, <2>2
<1>8. \A i \in 1..n : g[i] = IF queue[i] \in dead THEN g[i - 1] ELSE Append(g[i - 1], queue[i])
  BY <1>7 DEF Turn
<1>9. ASSUME NEW i \in 0..n
      PROVE  g[i] = IF i = 0 THEN <<>>
                    ELSE IF queue[i] \in dead THEN g[i - 1] ELSE Append(g[i - 1], queue[i])
  <2>1. i = 0 \/ i \in 1..n
    BY <1>1
  <2>2. CASE i = 0
    BY <1>6, <2>2
  <2>3. CASE i # 0
    BY <1>8, <2>1, <2>3, Zenon
  <2> QED BY <2>2, <2>3
<1>10. Is(g)
  BY <1>9
<1>11. PICK f : Is(f) /\ LiveQueue(dead) = f[n]
  BY <1>2, <1>10
<1>12. f[0] = <<>>
  BY <1>1, <1>11
<1>13. ASSUME NEW i \in 1..n
       PROVE  f[i] = IF queue[i] \in dead THEN f[i - 1] ELSE Append(f[i - 1], queue[i])
  <2>1. i \in 0..n /\ i # 0
    BY <1>1
  <2> QED BY <1>11, <2>1, Zenon
<1> QED
  BY <1>11, <1>12, <1>13 DEF n

\* What every turn of a loop preserves holds of all its states.
LEMMA LoopStays ==
  ASSUME NEW n \in Nat, NEW Good, NEW f, f[0] \in Good[0],
         \A i \in 1..n : f[i - 1] \in Good[i - 1] => f[i] \in Good[i]
  PROVE  \A i \in 0..n : f[i] \in Good[i]
<1> DEFINE M == {i \in Nat : i <= n => f[i] \in Good[i]}
<1>1. 0 \in M
  OBVIOUS
<1>2. ASSUME NEW i \in Nat, i \in M PROVE i + 1 \in M
  <2> SUFFICES ASSUME i + 1 <= n PROVE f[i + 1] \in Good[i + 1]
    OBVIOUS
  <2>1. i + 1 \in 1..n /\ (i + 1) - 1 = i /\ i <= n
    OBVIOUS
  <2>2. f[i] \in Good[i]
    BY <1>2, <2>1
  <2> QED BY <2>1, <2>2
<1> HIDE DEF M
<1>3. Nat \subseteq M
  BY <1>1, <1>2, SetInduction
<1> QED
  BY <1>3 DEF M

\* The new queue has the plans of the old one that did not die, each once.
LEMMA LiveQueueElements ==
  ASSUME queue \in Seq(Plans \cup {NoPlan}), Once(queue), NEW dead \in SUBSET Plans
  PROVE  /\ LiveQueue(dead) \in Seq(Plans \cup {NoPlan}) /\ Once(LiveQueue(dead))
         /\ ElementsOf(LiveQueue(dead)) = ElementsOf(queue) \ dead
<1> DEFINE T == Plans \cup {NoPlan}
           n == Len(queue)
           So(i) == {queue[j] : j \in 1..i} \ (dead \cup {NoPlan})
           Good == [i \in 0..n |-> {s \in Seq(T) : Once(s) /\ ElementsOf(s) = So(i)}]
<1>1. n \in Nat /\ DOMAIN queue = 1..n /\ \A i \in 1..n : queue[i] \in T
  OBVIOUS
<1>2. PICK f : /\ f[0] = <<>> /\ LiveQueue(dead) = f[n]
               /\ \A i \in 1..n : f[i] = IF queue[i] \in dead THEN f[i - 1] ELSE Append(f[i - 1], queue[i])
  BY LiveQueueLoop
<1> HIDE DEF n, T
<1>3. <<>> \in Seq(T) /\ Once(<<>>) /\ ElementsOf(<<>>) = {} /\ So(0) = {}
  BY DEF Once, ElementsOf
<1>4. f[0] \in Good[0]
  BY <1>1, <1>2, <1>3
<1>5. ASSUME NEW i \in 1..n, f[i - 1] \in Good[i - 1] PROVE f[i] \in Good[i]
  <2> DEFINE s == f[i - 1]
             x == queue[i]
  <2>1. i \in 0..n /\ i - 1 \in 0..n /\ i \in Nat
    BY <1>1
  <2>2. s \in Seq(T) /\ Once(s) /\ ElementsOf(s) = So(i - 1)
    BY <1>5, <2>1
  <2>3. \A j \in 1..i : j = i \/ j \in 1..(i - 1)
    BY <2>1
  <2>4. So(i) = (So(i - 1) \cup {x}) \ (dead \cup {NoPlan})
    BY <2>1, <2>3
  <2>5. x \notin So(i - 1)
    <3> SUFFICES ASSUME x \in So(i - 1) PROVE FALSE
      OBVIOUS
    <3>1. PICK j \in 1..(i - 1) : x = queue[j]
      OBVIOUS
    <3>2. x # NoPlan /\ j \in 1..n /\ j # i
      BY <1>1
    <3> QED BY <1>1, <3>1, <3>2 DEF Once
  <2>6. f[i] = IF x \in dead THEN s ELSE Append(s, x)
    BY <1>2
  <2>7. x \in T
    BY <1>1
  <2> HIDE DEF s, x
  <2>8. \A z \in dead \cup {NoPlan} : z \notin So(i - 1)
    OBVIOUS
  <2> HIDE DEF So
  <2>9. f[i] \in Seq(T) /\ Once(f[i]) /\ ElementsOf(f[i]) = So(i)
    <3>1. CASE x \in dead
      BY <2>2, <2>4, <2>6, <2>8, <3>1
    <3>2. CASE x \notin dead
      <4>1. Append(s, x) \in Seq(T) /\ Once(Append(s, x)) /\ ElementsOf(Append(s, x)) = (So(i - 1) \cup {x}) \ {NoPlan}
        BY <2>2, <2>5, <2>7, AppendElements
      <4>2. (So(i - 1) \cup {x}) \ {NoPlan} = So(i)
        BY <2>4, <2>8, <3>2
      <4> QED BY <2>6, <3>2, <4>1, <4>2
    <3> QED BY <3>1, <3>2
  <2> QED BY <2>1, <2>9
<1> HIDE DEF Good
<1>6. \A i \in 0..n : f[i] \in Good[i]
  BY <1>1, <1>4, <1>5, LoopStays
<1>7. f[n] \in Good[n]
  BY <1>1, <1>6
<1>8. n \in 0..n
  BY <1>1
<1>9. So(n) = ElementsOf(queue) \ dead
  BY <1>1 DEF ElementsOf
<1> HIDE DEF So
<1>10. f[n] \in Seq(T) /\ Once(f[n]) /\ ElementsOf(f[n]) = So(n)
  BY <1>7, <1>8 DEF Good
<1> QED
  BY <1>2, <1>9, <1>10 DEF T

\* One turn of the loop over m_readyPlans.
LEMMA RemoveDeadReadyPlanElements ==
  ASSUME NEW s \in Seq(Plans), NEW i \in Nat \ {0}, NEW dead
  PROVE  LET t == RemoveDeadReadyPlan(s, i, dead) IN
         /\ t \in Seq(Plans)
         /\ Once(s) =>
              /\ Once(t) /\ ElementsOf(t) \subseteq ElementsOf(s)
              /\ \A p \in ElementsOf(s) \ ElementsOf(t) : p \in dead \/ stage[p] = "Cancelled"
<1> DEFINE t == RemoveDeadReadyPlan(s, i, dead)
<1>1. CASE i > Len(s) \/ (stage[s[i]] # "Cancelled" /\ s[i] \notin dead)
  <2>1. t = s
    BY <1>1 DEF RemoveDeadReadyPlan
  <2> QED BY <2>1
<1>2. CASE ~(i > Len(s)) /\ ~(stage[s[i]] # "Cancelled" /\ s[i] \notin dead)
  <2>1. t = SwapRemove(s, i)
    BY <1>2 DEF RemoveDeadReadyPlan, SwapRemove
  <2>2. i \in 1..Len(s)
    BY <1>2
  <2>3. t \in Seq(Plans)
    BY <2>1, <2>2 DEF SwapRemove, Front, Last
  <2>4. ASSUME Once(s) PROVE Once(t) /\ ElementsOf(t) = ElementsOf(s) \ {s[i]}
    BY <2>1, <2>2, <2>4, SwapRemoveElements
  <2> HIDE DEF t
  <2>5. s[i] \in dead \/ stage[s[i]] = "Cancelled"
    BY <1>2
  <2>6. ASSUME Once(s)
        PROVE  /\ Once(t) /\ ElementsOf(t) \subseteq ElementsOf(s)
               /\ \A p \in ElementsOf(s) \ ElementsOf(t) : p \in dead \/ stage[p] = "Cancelled"
    BY <2>4, <2>5, <2>6
  <2> QED BY <2>3, <2>6 DEF t
<1> QED
  BY <1>1, <1>2

\* The turns of that loop.
LEMMA LiveReadyPlansLoop ==
  ASSUME NEW dead, readyPlans \in Seq(Plans)
  PROVE  \E f :
           /\ f[0] = readyPlans /\ LiveReadyPlans(dead) = f[Len(readyPlans)]
           /\ \A i \in 1..Len(readyPlans) : f[i] = RemoveDeadReadyPlan(f[i - 1], i, dead)
<1> DEFINE n == Len(readyPlans)
           Is(f) == f = [i \in 0..n |-> IF i = 0 THEN readyPlans
                                        ELSE RemoveDeadReadyPlan(f[i - 1], i, dead)]
           Turn(i, s) == IF i = 0 THEN s ELSE RemoveDeadReadyPlan(s, i, dead)
           step == [z \in Nat \X Seq(Plans) |-> Turn(z[1], z[2])]
<1>1. n \in Nat
  OBVIOUS
<1>2. LiveReadyPlans(dead) = (CHOOSE f : Is(f))[n]
  BY DEF LiveReadyPlans
<1> HIDE DEF n
<1>3. ASSUME NEW i \in Nat, NEW s \in Seq(Plans) PROVE Turn(i, s) \in Seq(Plans)
  <2>1. CASE i = 0
    BY <2>1
  <2>2. CASE i # 0
    BY <2>2, RemoveDeadReadyPlanElements
  <2> QED BY <2>1, <2>2
<1> HIDE DEF Turn
<1>4. /\ step \in [Nat \X Seq(Plans) -> Seq(Plans)]
      /\ \A i \in Nat, s \in Seq(Plans) : step[<<i, s>>] = Turn(i, s)
  BY <1>3
<1> HIDE DEF step
<1>5. PICK g \in [0..n -> Seq(Plans)] : g[0] = readyPlans /\ \A i \in 1..n : g[i] = step[<<i, g[i - 1]>>]
  <2>1. \E f \in [0..n -> Seq(Plans)] : IsLoop(f, readyPlans, step, n)
    BY <1>1, <1>4, LoopExists
  <2> QED BY <2>1 DEF IsLoop
<1>6. ASSUME NEW i \in 1..n PROVE g[i] = RemoveDeadReadyPlan(g[i - 1], i, dead)
  <2>1. i \in Nat /\ i # 0 /\ i - 1 \in 0..n
    BY <1>1
  <2>2. g[i - 1] \in Seq(Plans)
    BY <2>1
  <2> QED BY <1>4, <1>5, <2>1, <2>2 DEF Turn
<1>7. ASSUME NEW i \in 0..n
      PROVE  g[i] = IF i = 0 THEN readyPlans ELSE RemoveDeadReadyPlan(g[i - 1], i, dead)
  <2>1. i = 0 \/ i \in 1..n
    BY <1>1
  <2> QED BY <1>5, <1>6, <2>1
<1>8. Is(g)
  BY <1>7
<1>9. PICK f : Is(f) /\ LiveReadyPlans(dead) = f[n]
  BY <1>2, <1>8
<1>10. f[0] = readyPlans
  BY <1>1, <1>9
<1>11. ASSUME NEW i \in 1..n PROVE f[i] = RemoveDeadReadyPlan(f[i - 1], i, dead)
  <2>1. i \in 0..n /\ i # 0
    BY <1>1
  <2> QED BY <1>9, <2>1, Zenon
<1> QED
  BY <1>9, <1>10, <1>11 DEF n

\* The loop loses no ready plan that did not die; it may keep one that did.
LEMMA LiveReadyPlansElements ==
  ASSUME readyPlans \in Seq(Plans), Once(readyPlans), NEW dead
  PROVE  /\ LiveReadyPlans(dead) \in Seq(Plans) /\ Once(LiveReadyPlans(dead))
         /\ ElementsOf(LiveReadyPlans(dead)) \subseteq ElementsOf(readyPlans)
         /\ \A p \in ElementsOf(readyPlans) \ ElementsOf(LiveReadyPlans(dead)) :
              p \in dead \/ stage[p] = "Cancelled"
<1> DEFINE n == Len(readyPlans)
           Fine(s) == /\ Once(s) /\ ElementsOf(s) \subseteq ElementsOf(readyPlans)
                      /\ \A p \in ElementsOf(readyPlans) \ ElementsOf(s) :
                           p \in dead \/ stage[p] = "Cancelled"
           Good == [i \in 0..n |-> {s \in Seq(Plans) : Fine(s)}]
<1>1. n \in Nat
  OBVIOUS
<1>2. PICK f : /\ f[0] = readyPlans /\ LiveReadyPlans(dead) = f[n]
               /\ \A i \in 1..n : f[i] = RemoveDeadReadyPlan(f[i - 1], i, dead)
  BY LiveReadyPlansLoop
<1> HIDE DEF n
<1>3. Fine(readyPlans)
  OBVIOUS
<1>4. f[0] \in Good[0]
  BY <1>1, <1>2, <1>3
<1>5. ASSUME NEW i \in 1..n, f[i - 1] \in Good[i - 1] PROVE f[i] \in Good[i]
  <2> DEFINE s == f[i - 1]
  <2>1. i \in 0..n /\ i - 1 \in 0..n /\ i \in Nat \ {0}
    BY <1>1
  <2>2. s \in Seq(Plans) /\ Fine(s)
    BY <1>5, <2>1
  <2>3. f[i] = RemoveDeadReadyPlan(s, i, dead)
    BY <1>2
  <2> HIDE DEF s
  <2>4. f[i] \in Seq(Plans) /\ Fine(f[i])
    BY <2>1, <2>2, <2>3, RemoveDeadReadyPlanElements
  <2> QED BY <2>1, <2>4
<1> HIDE DEF Good
<1>6. \A i \in 0..n : f[i] \in Good[i]
  BY <1>1, <1>4, <1>5, LoopStays
<1>7. f[n] \in Good[n] /\ n \in 0..n
  BY <1>1, <1>6
<1>8. f[n] \in Seq(Plans) /\ Fine(f[n])
  BY <1>7 DEF Good
<1> QED
  BY <1>2, <1>8

\* removeAllReadyPlansForVM() after n turns: r.ready and r.mine share out the ready plans.
Removal == [i : Nat, ready : Seq(Plans), mine : Seq(Plans)]
RemovedSoFar(v, n, r) ==
  /\ r \in Removal /\ r.i # 0
  /\ r.i + Len(r.mine) = n + 1 /\ Len(r.ready) + Len(r.mine) = Len(readyPlans)
  /\ Once(r.ready) /\ Once(r.mine)
  /\ ElementsOf(r.ready) \cap ElementsOf(r.mine) = {}
  /\ ElementsOf(r.ready) \cup ElementsOf(r.mine) = ElementsOf(readyPlans)
  /\ \A p \in ElementsOf(r.mine) : VMOf[p] = v /\ stage[p] = "Ready"

LEMMA RemoveReadyPlanTurn ==
  ASSUME readyPlans \in Seq(Plans), NEW v, NEW n \in 1..Len(readyPlans), NEW r,
         RemovedSoFar(v, n - 1, r)
  PROVE  RemovedSoFar(v, n, RemoveReadyPlan(v, r))
<1> DEFINE p == r.ready[r.i]
           a == r.i
           b == Len(r.mine)
           c == Len(r.ready)
           k == Len(readyPlans)
<1>1. r \in Removal /\ r.i # 0 /\ r.i \in Nat /\ r.ready \in Seq(Plans) /\ r.mine \in Seq(Plans) /\ n \in Nat
  BY DEF RemovedSoFar, Removal
<1>2. Len(readyPlans) \in Nat /\ Len(r.mine) \in Nat /\ Len(r.ready) \in Nat
  BY <1>1
<1>3. a + b = (n - 1) + 1 /\ c + b = k /\ n \in 1..k /\ a \in Nat /\ a # 0 /\ b \in Nat /\ c \in Nat /\ k \in Nat
  BY <1>1, <1>2 DEF RemovedSoFar
<1> HIDE DEF a, b, c, k
<1>4. a \in 1..c
  BY <1>3
<1>5. r.i \in 1..Len(r.ready)
  BY <1>4 DEF a, c
<1>6. Once(r.ready)
  BY DEF RemovedSoFar
<1>7. p \in Plans /\ p # NoPlan
  BY <1>1, <1>5
<1>8. p \in ElementsOf(r.ready)
  BY <1>1, <1>5, <1>7 DEF ElementsOf
<1> HIDE DEF p
<1>9. CASE VMOf[p] = v /\ stage[p] = "Ready"
  <2> DEFINE ready == SwapRemove(r.ready, r.i)
             mine == Append(r.mine, p)
             t == [i |-> r.i, ready |-> ready, mine |-> mine]
  <2>1. RemoveReadyPlan(v, r) = t
    BY <1>1, <1>9 DEF RemoveReadyPlan, SwapRemove, Removal, p
  <2>2. ready \in Seq(Plans) /\ Len(ready) = Len(r.ready) - 1 /\ Once(ready) /\ ElementsOf(ready) = ElementsOf(r.ready) \ {p}
    BY <1>1, <1>5, <1>6, SwapRemoveElements DEF p
  <2>3. p \notin ElementsOf(r.mine)
    BY <1>8 DEF RemovedSoFar
  <2>4. mine \in Seq(Plans) /\ Once(mine) /\ ElementsOf(mine) = (ElementsOf(r.mine) \cup {p}) \ {NoPlan}
    BY <1>1, <1>7, <2>3, AppendElements DEF RemovedSoFar
  <2>5. Len(mine) = Len(r.mine) + 1
    BY <1>1
  <2> HIDE DEF ready, mine
  <2>6. NoPlan \notin ElementsOf(r.mine)
    BY DEF ElementsOf
  <2>7. t \in Removal /\ t.i = r.i /\ t.ready = ready /\ t.mine = mine
    BY <1>1, <2>2, <2>4 DEF Removal
  <2> HIDE DEF t
  <2>8. t.i + Len(t.mine) = n + 1 /\ Len(t.ready) + Len(t.mine) = Len(readyPlans)
    <3>1. t.i = a /\ Len(t.mine) = b + 1 /\ Len(t.ready) = c - 1 /\ Len(readyPlans) = k
      BY <2>2, <2>5, <2>7 DEF a, b, c, k
    <3> QED BY <1>3, <3>1
  <2>9. /\ ElementsOf(t.ready) \cap ElementsOf(t.mine) = {}
        /\ ElementsOf(t.ready) \cup ElementsOf(t.mine) = ElementsOf(readyPlans)
        /\ \A q \in ElementsOf(t.mine) : VMOf[q] = v /\ stage[q] = "Ready"
    BY <1>7, <1>8, <1>9, <2>2, <2>4, <2>6, <2>7 DEF RemovedSoFar
  <2>10. RemovedSoFar(v, n, t)
    BY <1>1, <2>2, <2>4, <2>7, <2>8, <2>9 DEF RemovedSoFar
  <2> QED BY <2>1, <2>10
<1>10. CASE ~(VMOf[p] = v /\ stage[p] = "Ready")
  <2> DEFINE t == [i |-> r.i + 1, ready |-> r.ready, mine |-> r.mine]
  <2>1. RemoveReadyPlan(v, r) = t
    BY <1>1, <1>10 DEF RemoveReadyPlan, Removal, p
  <2>2. t \in Removal /\ t.i = r.i + 1 /\ t.ready = r.ready /\ t.mine = r.mine
    BY <1>1 DEF Removal
  <2> HIDE DEF t
  <2>3. t.i + Len(t.mine) = n + 1 /\ t.i # 0
    <3>1. t.i = a + 1 /\ Len(t.mine) = b
      BY <2>2 DEF a, b
    <3> QED BY <1>3, <3>1
  <2>4. RemovedSoFar(v, n, t)
    BY <2>2, <2>3 DEF RemovedSoFar
  <2> QED BY <2>1, <2>4
<1> QED
  BY <1>9, <1>10

LEMMA ReadyPlansRemovedElements ==
  ASSUME readyPlans \in Seq(Plans), Once(readyPlans), NEW v
  PROVE  RemovedSoFar(v, Len(readyPlans), ReadyPlansRemoved(v))
<1> DEFINE n == Len(readyPlans)
           r0 == [i |-> 1, ready |-> readyPlans, mine |-> <<>>]
           Is(f) == f = [i \in 0..n |-> IF i = 0 THEN r0 ELSE RemoveReadyPlan(v, f[i - 1])]
           Turn(i, r) == IF i \in 1..n /\ RemovedSoFar(v, i - 1, r) THEN RemoveReadyPlan(v, r) ELSE r
           step == [z \in Nat \X Removal |-> Turn(z[1], z[2])]
           Good == [i \in 0..n |-> {r \in Removal : RemovedSoFar(v, i, r)}]
<1>1. n \in Nat /\ n = Len(readyPlans)
  OBVIOUS
<1>2. ReadyPlansRemoved(v) = (CHOOSE f : Is(f))[n]
  BY DEF ReadyPlansRemoved
<1> HIDE DEF n
<1>3. RemovedSoFar(v, 0, r0)
  <2>1. Once(<<>>) /\ ElementsOf(<<>>) = {} /\ <<>> \in Seq(Plans) /\ Len(<<>>) = 0
    BY DEF Once, ElementsOf
  <2>2. r0 \in Removal /\ r0.i = 1 /\ r0.ready = readyPlans /\ r0.mine = <<>>
    BY <2>1 DEF Removal
  <2> HIDE DEF r0
  <2>3. r0.i + Len(r0.mine) = 0 + 1 /\ Len(r0.ready) + Len(r0.mine) = Len(readyPlans)
    BY <1>1, <2>1, <2>2
  <2> QED BY <2>1, <2>2, <2>3 DEF RemovedSoFar
<1> HIDE DEF r0
<1>4. \A i \in 1..n : \A r : RemovedSoFar(v, i - 1, r) => RemovedSoFar(v, i, RemoveReadyPlan(v, r))
  BY <1>1, RemoveReadyPlanTurn
<1>5. \A i : \A r : RemovedSoFar(v, i, r) => r \in Removal
  BY DEF RemovedSoFar
<1>6. ASSUME NEW i \in Nat, NEW r \in Removal PROVE Turn(i, r) \in Removal
  BY <1>4, <1>5
<1> HIDE DEF Turn
<1>7. /\ step \in [Nat \X Removal -> Removal]
      /\ \A i \in Nat, r \in Removal : step[<<i, r>>] = Turn(i, r)
  BY <1>6
<1> HIDE DEF step
<1>8. r0 \in Removal
  BY <1>3, <1>5
<1>9. PICK g \in [0..n -> Removal] : g[0] = r0 /\ \A i \in 1..n : g[i] = step[<<i, g[i - 1]>>]
  <2>1. \E f \in [0..n -> Removal] : IsLoop(f, r0, step, n)
    BY <1>1, <1>7, <1>8, LoopExists
  <2> QED BY <2>1 DEF IsLoop
<1>10. ASSUME NEW f, f[0] = r0,
              \A i \in 1..n : f[i - 1] \in Good[i - 1] => f[i] = RemoveReadyPlan(v, f[i - 1])
       PROVE  \A i \in 0..n : f[i] \in Good[i]
  <2>1. f[0] \in Good[0]
    BY <1>1, <1>3, <1>8, <1>10
  <2>2. ASSUME NEW i \in 1..n, f[i - 1] \in Good[i - 1] PROVE f[i] \in Good[i]
    <3>1. i \in 0..n /\ i - 1 \in 0..n
      BY <1>1
    <3>2. RemovedSoFar(v, i - 1, f[i - 1]) /\ f[i] = RemoveReadyPlan(v, f[i - 1])
      BY <1>10, <2>2, <3>1
    <3>3. RemovedSoFar(v, i, f[i])
      BY <1>4, <3>2
    <3>4. f[i] \in Removal
      BY <1>5, <3>3
    <3> QED BY <3>1, <3>3, <3>4
  <2> HIDE DEF Good
  <2> QED BY <1>1, <2>1, <2>2, LoopStays
<1>11. ASSUME NEW i \in 1..n PROVE g[i - 1] \in Removal /\ g[i] = Turn(i, g[i - 1])
  <2>1. i \in Nat /\ i - 1 \in 0..n
    BY <1>1
  <2>2. g[i - 1] \in Removal
    BY <2>1
  <2> QED BY <1>7, <1>9, <2>1, <2>2
<1>12. ASSUME NEW i \in 1..n, g[i - 1] \in Good[i - 1] PROVE g[i] = RemoveReadyPlan(v, g[i - 1])
  <2>1. i - 1 \in 0..n
    BY <1>1
  <2>2. RemovedSoFar(v, i - 1, g[i - 1])
    BY <1>12, <2>1
  <2> QED BY <1>11, <2>2 DEF Turn
<1>13. \A i \in 0..n : g[i] \in Good[i]
  BY <1>9, <1>10, <1>12
<1>14. ASSUME NEW i \in 0..n PROVE g[i] = IF i = 0 THEN r0 ELSE RemoveReadyPlan(v, g[i - 1])
  <2>1. i = 0 \/ (i \in 1..n /\ i - 1 \in 0..n)
    BY <1>1
  <2> HIDE DEF Good
  <2> QED BY <1>9, <1>12, <1>13, <2>1
<1>15. Is(g)
  BY <1>14
<1>16. PICK f : Is(f) /\ ReadyPlansRemoved(v) = f[n]
  BY <1>2, <1>15
<1>17. f[0] = r0
  BY <1>1, <1>16
<1>18. ASSUME NEW i \in 1..n PROVE f[i] = RemoveReadyPlan(v, f[i - 1])
  <2>1. i \in 0..n /\ i # 0
    BY <1>1
  <2> QED BY <1>16, <2>1, Zenon
<1>19. \A i \in 0..n : f[i] \in Good[i]
  BY <1>10, <1>17, <1>18
<1>20. f[n] \in Good[n] /\ n \in 0..n
  BY <1>1, <1>19
<1>21. RemovedSoFar(v, n, f[n])
  BY <1>20
<1> QED
  BY <1>1, <1>16, <1>21

(***************************************************************************)
(* PlanInv is kept by the steps that move plans.                           *)
(***************************************************************************)
LEMMA NoPlanNotElement == \A s : NoPlan \notin ElementsOf(s)
  BY DEF ElementsOf

LEMMA InitPlanInv == Init => PlanInv
<1>1. <<>> \in Seq(Plans) /\ <<>> \in Seq(Plans \cup {NoPlan}) /\ ElementsOf(<<>>) = {} /\ Once(<<>>)
  BY DEF ElementsOf, Once
<1> QED
  BY <1>1 DEF Init, PlanInv, PlanTypes, Separate, QueuedStages, HeldStages, ReadyStages,
     PlansSomewhere, BeingCompleted, CancellationKnown, ToldAsCollecting, Stages, Collecting, Active, Running

LEMMA WorkerPlanInv ==
  ASSUME IInv, PlanInv, NEW w \in Workers, Worker(w) \/ SafepointBegin(w)
  PROVE  PlanInv'
<1> USE WorkersNotVMs, NoPlanNotElement DEF Goto, GotoVM, worklist, locks, threads, vms, IInv, Types,
        PC, VMPC, Running, Active, Suspending, Collecting, Stages, PlanInv, PlanTypes, PlansHeld,
        Separate, QueuedStages, HeldStages, ReadyStages, PlansSomewhere, BeingCompleted,
        CancellationKnown, ToldAsCollecting
<1>1. CASE Sleep(w)
  BY <1>1 DEF Sleep
<1>2. CASE LockRightToRun(w)
  BY <1>2 DEF LockRightToRun
<1>3. CASE CancelledBeforeCompiling(w)
  BY <1>3 DEF CancelledBeforeCompiling, DropCancelled
<1>4. CASE NotifyCompiling(w)
  BY <1>4 DEF NotifyCompiling
<1>5. CASE SafepointBegin(w)
  BY <1>5 DEF SafepointBegin
<1>6. CASE SafepointEnd(w)
  BY <1>6 DEF SafepointEnd, SuspendedSoFar
<1>7. CASE CompileInThreadDone(w)
  BY <1>7 DEF CompileInThreadDone
<1>8. CASE CancelledWhileCompiling(w)
  BY <1>8 DEF CancelledWhileCompiling, DropCancelled
<1>9. CASE NotifyCompiled(w)
  BY <1>9 DEF NotifyCompiled
<1>10. CASE CancelledAfterCompiling(w)
  BY <1>10 DEF CancelledAfterCompiling, DropCancelled
<1>11. CASE TakePlan(w)
  <2> DEFINE p == Head(queue)
  <2>1. /\ p \in Plans /\ queue' \in Seq(Plans \cup {NoPlan}) /\ Once(queue')
        /\ ElementsOf(queue') = ElementsOf(queue) \ {p} /\ p \in ElementsOf(queue)
    BY <1>11, TailElements DEF TakePlan
  <2>2. /\ plan' = [plan EXCEPT ![w] = p] /\ pc[w] = "idle" /\ pc' = [pc EXCEPT ![w] = "tookPlan"]
        /\ didGetCancelled' = [didGetCancelled EXCEPT ![w] = FALSE] /\ plan[w] = NoPlan
        /\ UNCHANGED <<plans, readyPlans, locks, safepoint, stage, vms>>
    BY <1>11 DEF TakePlan
  <2> HIDE DEF p
  <2> QED
    BY <2>1, <2>2
<1>12. CASE Terminate(w)
  <2>1. /\ queue' \in Seq(Plans \cup {NoPlan}) /\ Once(queue')
        /\ ElementsOf(queue') = ElementsOf(queue) \ {NoPlan}
    BY <1>12, TailElements DEF Terminate
  <2>2. /\ Goto(w, "idle", "terminated")
        /\ UNCHANGED <<plans, readyPlans, locks, plan, didGetCancelled, safepoint, stage, vms>>
    BY <1>12 DEF Terminate
  <2> QED
    BY <2>1, <2>2
<1>13. CASE NotifyReady(w)
  <2> DEFINE p == plan[w]
  <2>1. p \in Plans /\ p # NoPlan /\ p \notin ElementsOf(readyPlans) /\ p \notin ElementsOf(queue) /\ p \in plans
    BY <1>13 DEF NotifyReady
  <2>2. /\ readyPlans' \in Seq(Plans) /\ Once(readyPlans')
        /\ ElementsOf(readyPlans') = (ElementsOf(readyPlans) \cup {p}) \ {NoPlan}
    BY <1>13, <2>1, AppendElements DEF NotifyReady
  <2>3. /\ Goto(w, "released", "idle")
        /\ stage' = [stage EXCEPT ![p] = "Ready"] /\ stage[p] # "Cancelled"
        /\ plan' = [plan EXCEPT ![w] = NoPlan]
        /\ NotifyPlanCompiled
        /\ UNCHANGED <<plans, queue, locks, didGetCancelled, safepoint, toSuspend, myReadyPlans,
                       collecting, completed, collections>>
    BY <1>13 DEF NotifyReady
  <2>4. ElementsOf(readyPlans') = ElementsOf(readyPlans) \cup {p}
    BY <2>1, <2>2
  <2>5. \A v \in VMs : vmpc'[v] \in VMPC /\ (vmpc[v] = "completing" => vmpc'[v] = "completing")
                       /\ (vmpc'[v] \in Collecting <=> vmpc[v] \in Collecting)
                       /\ (vmpc'[v] = "cancelling" <=> vmpc[v] = "cancelling")
    BY <2>3 DEF NotifyPlanCompiled
  <2>6. PlanTypes'
    BY <2>1, <2>2, <2>3
  <2>7. Separate'
    BY <2>1, <2>2, <2>3, <2>4
  <2>8. QueuedStages' /\ HeldStages' /\ ReadyStages'
    BY <2>1, <2>3, <2>4
  <2>9. PlansSomewhere'
    BY <2>1, <2>3, <2>4
  <2>10. BeingCompleted' /\ ToldAsCollecting'
    BY <2>1, <2>3, <2>5
  <2>11. CancellationKnown'
    BY <2>1, <2>3, <2>5
  <2> QED
    BY <2>6, <2>7, <2>8, <2>9, <2>10, <2>11
<1> QED
  BY <1>1, <1>2, <1>3, <1>4, <1>5, <1>6, <1>7, <1>8, <1>9, <1>10, <1>11, <1>12, <1>13 DEF Worker

\* enqueue(): a new plan is nowhere yet.
LEMMA EnqueuePlanInv ==
  ASSUME IInv, PlanInv, NEW v \in VMs, NEW p \in Plans, Enqueue(v, p)
  PROVE  PlanInv'
<1> USE WorkersNotVMs, NoPlanNotElement DEF Goto, GotoVM, worklist, locks, threads, vms, IInv, Types,
        PC, VMPC, Running, Active, Suspending, Collecting, Stages, PlanInv, PlanTypes, PlansHeld,
        Separate, QueuedStages, HeldStages, ReadyStages, PlansSomewhere, BeingCompleted,
        CancellationKnown, ToldAsCollecting
<1>1. stage[p] = "New" /\ VMOf[p] = v /\ vmpc[v] = "running" /\ \A q \in plans : KeyOf[q] # KeyOf[p]
  BY DEF Enqueue, IsNextPlan
<1>2. /\ plans' = plans \cup {p} /\ stage' = [stage EXCEPT ![p] = "Preparing"]
      /\ queue' = Append(queue, p)
      /\ UNCHANGED <<readyPlans, activeThreads, locks, plan, didGetCancelled, safepoint, vms>>
  BY DEF Enqueue
<1>3. p \notin plans /\ p \notin ElementsOf(queue) /\ p \notin ElementsOf(readyPlans) /\ p # NoPlan
  BY <1>1
<1>4. \A x \in Workers : plan[x] # p
  BY <1>1, <1>3
<1>5. /\ queue' \in Seq(Plans \cup {NoPlan}) /\ Once(queue')
      /\ ElementsOf(queue') = ElementsOf(queue) \cup {p}
  <2>1. /\ queue' \in Seq(Plans \cup {NoPlan}) /\ Once(queue')
        /\ ElementsOf(queue') = (ElementsOf(queue) \cup {p}) \ {NoPlan}
    BY <1>2, <1>3, AppendElements
  <2> QED BY <1>3, <2>1
<1>6. \A x \in Workers : pc'[x] = pc[x] \/ (pc[x] = "asleep" /\ pc'[x] = "idle")
  <2>1. NotifyPlanEnqueued
    BY Zenon DEF Enqueue
  <2> QED BY <2>1 DEF NotifyPlanEnqueued
<1>7. PlanTypes'
  BY <1>1, <1>2, <1>5
<1>8. Separate'
  BY <1>2, <1>3, <1>4, <1>5
<1>9. QueuedStages' /\ ReadyStages'
  BY <1>2, <1>3, <1>5
<1>10. HeldStages'
  <2>1. ASSUME NEW x \in Workers, plan[x] # NoPlan
        PROVE  pc[x] \in Active /\ pc'[x] = pc[x] /\ plan[x] \in Plans /\ stage'[plan[x]] = stage[plan[x]]
    BY <1>2, <1>4, <1>6, <2>1
  <2> QED BY <1>2, <2>1
<1>11. PlansSomewhere'
  BY <1>1, <1>2, <1>3, <1>5
<1>12. p \notin completed /\ \A u \in VMs : p \notin ElementsOf(myReadyPlans[u])
  BY <1>1
<1>13. \A u \in VMs : \A q \in ElementsOf(myReadyPlans[u]) : q \in Plans
  BY DEF ElementsOf
<1>14. BeingCompleted' /\ ToldAsCollecting'
  BY <1>1, <1>2, <1>3, <1>12, <1>13
<1>15. CancellationKnown'
  BY <1>2, <1>4, <1>6
<1> QED
  BY <1>7, <1>8, <1>9, <1>11, <1>14, <1>15, <1>10

LEMMA DestroyPlanInv ==
  ASSUME IInv, PlanInv, Destroy
  PROVE  PlanInv'
<1> USE WorkersNotVMs, NoPlanNotElement DEF Goto, GotoVM, worklist, locks, threads, vms, IInv, Types,
        PC, VMPC, Running, Active, Suspending, Collecting, Stages, PlanInv, PlanTypes, PlansHeld,
        Separate, QueuedStages, HeldStages, ReadyStages, PlansSomewhere, BeingCompleted,
        CancellationKnown, ToldAsCollecting
<1>1. queue' \in Seq(Plans \cup {NoPlan}) /\ Once(queue') /\ ElementsOf(queue') = ElementsOf(queue)
  BY NullPlansElements DEF Destroy
<1>2. /\ pc' = [w \in Workers |-> IF pc[w] = "asleep" THEN "idle" ELSE pc[w]]
      /\ UNCHANGED <<plans, readyPlans, activeThreads, locks, plan, didGetCancelled, safepoint, stage, vms>>
  BY DEF Destroy
<1> QED
  BY <1>1, <1>2

\* The plans that leave m_plans with their keys are the ones that were removed.
LEMMA WithoutKeysOfRemoved ==
  ASSUME PlanInv, NEW v, NEW n, NEW r, RemovedSoFar(v, n, r)
  PROVE  /\ WithoutKeysOf(r.mine) = plans \ ElementsOf(r.mine)
         /\ ElementsOf(r.mine) \subseteq plans
<1>1. r.mine \in Seq(Plans) /\ \A p \in Plans : p # NoPlan
  BY DEF RemovedSoFar, Removal
<1>2. ToSet(r.mine) = ElementsOf(r.mine)
  BY <1>1 DEF ToSet, ElementsOf
<1>3. ElementsOf(r.mine) \subseteq plans
  BY DEF RemovedSoFar, PlanInv, ReadyStages
<1>4. WithoutKeysOf(r.mine) = {q \in plans : \A p \in ElementsOf(r.mine) : KeyOf[q] # KeyOf[p]}
  BY <1>2 DEF WithoutKeysOf
<1>5. \A p, q \in plans : KeyOf[q] = KeyOf[p] => q = p
  BY DEF PlanInv, PlansSomewhere
<1> QED
  BY <1>3, <1>4, <1>5

\* The plans that leave m_readyPlans leave m_plans too.
LEMMA RemoveReadyPlanInv ==
  ASSUME IInv, PlanInv, NEW v \in VMs, CompleteAllReadyPlansForVM(v) \/ DestroyVM(v)
  PROVE  PlanInv'
<1> USE WorkersNotVMs, NoPlanNotElement DEF Goto, GotoVM, worklist, locks, threads, vms, IInv, Types,
        PC, VMPC, Running, Active, Suspending, Collecting, Stages, PlanInv, PlanTypes, PlansHeld,
        Separate, QueuedStages, HeldStages, ReadyStages, PlansSomewhere, BeingCompleted,
        CancellationKnown, ToldAsCollecting
<1> DEFINE r == ReadyPlansRemoved(v)
<1>1. RemovedSoFar(v, Len(readyPlans), r)
  BY ReadyPlansRemovedElements
<1>2. /\ r.ready \in Seq(Plans) /\ r.mine \in Seq(Plans) /\ Once(r.ready) /\ Once(r.mine)
      /\ ElementsOf(r.ready) \cap ElementsOf(r.mine) = {}
      /\ ElementsOf(r.ready) \cup ElementsOf(r.mine) = ElementsOf(readyPlans)
      /\ \A p \in ElementsOf(r.mine) : VMOf[p] = v /\ stage[p] = "Ready"
  BY <1>1 DEF RemovedSoFar, Removal
<1>3. WithoutKeysOf(r.mine) = plans \ ElementsOf(r.mine) /\ ElementsOf(r.mine) \subseteq plans
  BY <1>1, WithoutKeysOfRemoved
<1> HIDE DEF r
<1>4. readyPlans' = r.ready /\ plans' = WithoutKeysOf(r.mine)
  BY DEF CompleteAllReadyPlansForVM, RemoveAllReadyPlansForVM, DestroyVM, r
<1>5. UNCHANGED <<queue, activeThreads, locks, threads, stage, toSuspend, collecting, completed, collections>>
  BY DEF CompleteAllReadyPlansForVM, RemoveAllReadyPlansForVM, DestroyVM
<1>6. /\ vmpc[v] \in {"running", "allReady", "allReadyToDie"}
      /\ \/ /\ vmpc' = [vmpc EXCEPT ![v] = "completing"]
            /\ myReadyPlans' = [myReadyPlans EXCEPT ![v] = r.mine]
         \/ vmpc' = [vmpc EXCEPT ![v] = "destroyed"] /\ myReadyPlans' = myReadyPlans
  BY DEF CompleteAllReadyPlansForVM, RemoveAllReadyPlansForVM, DestroyVM, r
<1>7. ASSUME vmpc' = [vmpc EXCEPT ![v] = "completing"], myReadyPlans' = [myReadyPlans EXCEPT ![v] = r.mine]
       PROVE  BeingCompleted' /\ myReadyPlans' \in [VMs -> Seq(Plans)]
  <2>1. myReadyPlans' \in [VMs -> Seq(Plans)]
    BY <1>2, <1>7
  <2>2. BeingCompleted'
    <3>1. \A u \in VMs : u # v => myReadyPlans'[u] = myReadyPlans[u] /\ vmpc'[u] = vmpc[u]
      BY <1>7
    <3>2. myReadyPlans'[v] = r.mine /\ vmpc'[v] = "completing"
      BY <1>7
    <3>3. \A p \in ElementsOf(r.mine) : p \notin completed /\ p \notin plans'
      BY <1>3, <1>4
    <3>4. plans' \subseteq plans /\ UNCHANGED <<stage, completed>>
      BY <1>3, <1>4, <1>5
    <3>5. ASSUME NEW u \in VMs
          PROVE  /\ Once(myReadyPlans'[u]) /\ (myReadyPlans'[u] # <<>> => vmpc'[u] = "completing")
                 /\ \A p \in ElementsOf(myReadyPlans'[u]) :
                      VMOf[p] = u /\ stage'[p] = "Ready" /\ p \notin plans' /\ p \notin completed'
      <4>1. CASE u = v
        BY <1>2, <3>2, <3>3, <3>4, <4>1
      <4>2. CASE u # v
        BY <3>1, <3>4, <4>2
      <4> QED BY <4>1, <4>2
    <3> QED BY <3>4, <3>5
  <2> QED BY <2>1, <2>2
<1>8. ASSUME vmpc' = [vmpc EXCEPT ![v] = "destroyed"], myReadyPlans' = myReadyPlans
       PROVE  BeingCompleted' /\ myReadyPlans' \in [VMs -> Seq(Plans)]
  <2>1. myReadyPlans' \in [VMs -> Seq(Plans)]
    BY <1>8
  <2>2. BeingCompleted'
    BY <1>3, <1>4, <1>5, <1>6, <1>8
  <2> QED BY <2>1, <2>2
<1>9. BeingCompleted' /\ myReadyPlans' \in [VMs -> Seq(Plans)]
  BY <1>6, <1>7, <1>8
<1>10. PlanTypes'
  BY <1>2, <1>3, <1>4, <1>5, <1>9
<1>11. Separate'
  BY <1>2, <1>4, <1>5
<1>12. QueuedStages' /\ ReadyStages'
  BY <1>2, <1>3, <1>4, <1>5
<1>13. HeldStages'
  BY <1>2, <1>3, <1>4, <1>5
<1>14. PlansSomewhere'
  BY <1>2, <1>3, <1>4, <1>5
<1>15. CancellationKnown' /\ ToldAsCollecting'
  BY <1>5, <1>6
<1> QED
  BY <1>10, <1>11, <1>12, <1>13, <1>14, <1>9, <1>15

LEMMA FinalizePlanPlanInv ==
  ASSUME IInv, PlanInv, NEW v \in VMs, FinalizePlan(v)
  PROVE  PlanInv'
<1> DEFINE s == myReadyPlans[v]
           p == Last(s)
<1>1. s \in Seq(Plans) /\ s # <<>> /\ Once(s)
  BY DEF FinalizePlan, PlanInv, PlanTypes, BeingCompleted
<1> HIDE DEF s
<1>2. /\ p \in Plans /\ Front(s) \in Seq(Plans) /\ Once(Front(s))
      /\ ElementsOf(Front(s)) = ElementsOf(s) \ {p}
      /\ p # NoPlan => p \in ElementsOf(s)
  <2>1. /\ Last(s) \in Plans /\ Front(s) \in Seq(Plans) /\ Once(Front(s))
        /\ ElementsOf(Front(s)) = ElementsOf(s) \ {Last(s)}
        /\ Last(s) # NoPlan => Last(s) \in ElementsOf(s)
    BY <1>1, FrontElements
  <2> QED BY <2>1, Zenon
<1> USE WorkersNotVMs, NoPlanNotElement DEF Goto, GotoVM, worklist, locks, threads, vms, IInv, Types,
        PC, VMPC, Running, Active, Suspending, Collecting, Stages, PlanInv, PlanTypes, PlansHeld,
        Separate, QueuedStages, HeldStages, ReadyStages, PlansSomewhere, BeingCompleted,
        CancellationKnown, ToldAsCollecting
<1>3. /\ completed' = completed \cup {p} /\ myReadyPlans' = [myReadyPlans EXCEPT ![v] = Front(s)]
      /\ vmpc[v] = "completing"
      /\ UNCHANGED <<worklist, locks, threads, stage, vmpc, toSuspend, collecting, collections>>
  BY DEF FinalizePlan, s
<1>4. p \in ElementsOf(s) /\ VMOf[p] = v /\ stage[p] = "Ready" /\ p \notin plans /\ p \notin completed
  BY <1>2 DEF s
<1> HIDE DEF p
<1>5. \A u \in VMs : u # v => p \notin ElementsOf(myReadyPlans[u])
  BY <1>4
<1>6. /\ PlanTypes' /\ Separate' /\ QueuedStages' /\ HeldStages' /\ ReadyStages' /\ PlansSomewhere'
      /\ CancellationKnown' /\ ToldAsCollecting'
  BY <1>2, <1>3
<1>7. BeingCompleted'
  BY <1>2, <1>3, <1>4, <1>5 DEF s
<1> QED
  BY <1>6, <1>7

\* A collection cancels plans while no thread runs.
LEMMA RemoveDeadPlansPlanInv ==
  ASSUME IInv, PlanInv, NEW v \in VMs, RemoveDeadPlans(v)
  PROVE  PlanInv'
<1> USE WorkersNotVMs, NoPlanNotElement DEF Goto, GotoVM, worklist, locks, threads, vms, IInv, Types,
        PC, VMPC, Running, Active, Suspending, Collecting, Stages, PlanInv, PlanTypes, PlansHeld,
        Separate, QueuedStages, HeldStages, ReadyStages, PlansSomewhere, BeingCompleted,
        CancellationKnown, ToldAsCollecting
<1>1. PICK dead \in SUBSET {p \in plans : VMOf[p] = v} :
        /\ GotoVM(v, "collecting", "cancelling")
        /\ plans' = plans \ dead
        /\ stage' = [p \in Plans |-> IF p \in dead THEN "Cancelled" ELSE stage[p]]
        /\ queue' = IF dead = {} THEN queue ELSE LiveQueue(dead)
        /\ readyPlans' = IF dead = {} THEN readyPlans ELSE LiveReadyPlans(dead)
        /\ UNCHANGED <<activeThreads, locks, threads, toSuspend, myReadyPlans, collecting, completed,
                       collections>>
  BY Zenon DEF RemoveDeadPlans
<1>2. queue' \in Seq(Plans \cup {NoPlan}) /\ Once(queue') /\ ElementsOf(queue') = ElementsOf(queue) \ dead
  <2>1. CASE dead = {}
    BY <1>1, <2>1
  <2>2. CASE dead # {}
    <3>1. queue' = LiveQueue(dead) /\ dead \in SUBSET Plans
      BY <1>1, <2>2
    <3> QED BY <3>1, LiveQueueElements
  <2> QED BY <2>1, <2>2
<1>3. /\ readyPlans' \in Seq(Plans) /\ Once(readyPlans')
      /\ ElementsOf(readyPlans') \subseteq ElementsOf(readyPlans)
      /\ \A p \in ElementsOf(readyPlans) \ ElementsOf(readyPlans') : p \in dead \/ stage[p] = "Cancelled"
  <2>1. CASE dead = {}
    BY <1>1, <2>1
  <2>2. CASE dead # {}
    <3>1. readyPlans' = LiveReadyPlans(dead)
      BY <1>1, <2>2
    <3> QED BY <3>1, LiveReadyPlansElements
  <2> QED BY <2>1, <2>2
<1>4. \A p \in Plans : stage'[p] = IF p \in dead THEN "Cancelled" ELSE stage[p]
  BY <1>1
<1>5. \A x \in Workers : pc[x] \notin Running
  BY <1>1 DEF RunnersOwn, SuspendedSoFar
<1>6. PlanTypes'
  BY <1>1, <1>2, <1>3
<1>7. Separate'
  BY <1>1, <1>2, <1>3
<1>8. QueuedStages'
  BY <1>1, <1>2, <1>4
<1>9. HeldStages'
  BY <1>1, <1>4
<1>10. ReadyStages'
  <2>1. \A p \in ElementsOf(readyPlans) : p \in Plans
    BY DEF ElementsOf
  <2> QED BY <1>1, <1>3, <1>4, <2>1
<1>11. PlansSomewhere'
  BY <1>1, <1>2, <1>3, <1>4
<1>12. BeingCompleted'
  <2>1. \A u \in VMs : \A p \in ElementsOf(myReadyPlans[u]) : p \in Plans /\ p \notin dead
    BY <1>1 DEF ElementsOf
  <2> QED BY <1>1, <1>4, <2>1
<1>13. CancellationKnown' /\ ToldAsCollecting'
  BY <1>1, <1>4, <1>5
<1> QED
  BY <1>6, <1>7, <1>8, <1>9, <1>10, <1>11, <1>12, <1>13

LEMMA VMPlanInv ==
  ASSUME IInv, PlanInv, NEW v \in VMs, Call(v) \/ Run(v)
  PROVE  PlanInv'
<1> USE WorkersNotVMs, NoPlanNotElement DEF Goto, GotoVM, worklist, locks, threads, vms, IInv, Types,
        PC, VMPC, Running, Active, Suspending, Collecting, Stages, PlanInv, PlanTypes, PlansHeld,
        Separate, QueuedStages, HeldStages, ReadyStages, PlansSomewhere, BeingCompleted,
        CancellationKnown, ToldAsCollecting
<1>1. CASE FinalizeDone(v)
  BY <1>1 DEF FinalizeDone
<1>2. CASE WaitUntilAllPlansForVMAreReady(v)
  BY <1>2 DEF WaitUntilAllPlansForVMAreReady, AllAreCompiled
<1>3. CASE SuspendThread(v)
  BY <1>3 DEF SuspendThread
<1>4. CASE WillStartCollection(v)
  BY <1>4 DEF WillStartCollection
<1>5. CASE CancelSafepoints(v)
  BY <1>5 DEF CancelSafepoints
<1>6. CASE DidFinishCollection(v)
  BY <1>6 DEF DidFinishCollection
<1>7. CASE ResumeThread(v)
  BY <1>7 DEF ResumeThread
<1>8. CASE UnlockSuspension(v)
  BY <1>8 DEF UnlockSuspension
<1>9. CASE WaitUntilAllPlansForVMAreReadyCall(v)
  BY <1>9 DEF WaitUntilAllPlansForVMAreReadyCall
<1>10. CASE LockSuspension(v)
  BY <1>10 DEF LockSuspension
<1>11. CASE CompleteAllReadyPlansForVM(v) \/ DestroyVM(v)
  BY <1>11, RemoveReadyPlanInv
<1>12. CASE FinalizePlan(v)
  BY <1>12, FinalizePlanPlanInv
<1>13. CASE RemoveDeadPlans(v)
  BY <1>13, RemoveDeadPlansPlanInv
<1>14. CASE \E p \in Plans : Enqueue(v, p)
  BY <1>14, EnqueuePlanInv
<1> QED
  BY <1>1, <1>2, <1>3, <1>4, <1>5, <1>6, <1>7, <1>8, <1>9, <1>10, <1>11, <1>12, <1>13, <1>14 DEF Call, Run

LEMMA NextPlanInv == IInv /\ PlanInv /\ [Next]_vars => PlanInv'
<1> SUFFICES ASSUME IInv, PlanInv, [Next]_vars PROVE PlanInv'
  OBVIOUS
<1>1. CASE UNCHANGED vars
  BY <1>1 DEF vars, worklist, locks, threads, vms, PlanInv, PlanTypes, Separate, QueuedStages, HeldStages,
     ReadyStages, PlansSomewhere, BeingCompleted, CancellationKnown, ToldAsCollecting
<1> QED
  BY <1>1, WorkerPlanInv, VMPlanInv, DestroyPlanInv DEF Next, Terminated

\* Where the plans are, always.
LEMMA PlanInvAlways == Spec => [](IInv /\ PlanInv)
<1>1. Init => IInv /\ PlanInv
  BY InitIInv, InitPlanInv
<1>2. (IInv /\ PlanInv) /\ [Next]_vars => (IInv /\ PlanInv)'
  BY NextIInv, NextPlanInv
<1> QED
  BY <1>1, <1>2, PTL DEF Spec

\* The RELEASE_ASSERT of Plan::compileInThread() never fails: a thread that ends its
\* compilation took the CancelPath exactly when its plan was cancelled.
THEOREM CancelPathAssertionAlways == Spec => []CancelPathAssertion
<1>1. PlanInv => CancelPathAssertion
  BY DEF PlanInv, CancellationKnown, CancelPathAssertion
<1> QED
  BY <1>1, PlanInvAlways, PTL

\* How often a plan occurs in a sequence in which every plan occurs at most once.
LEMMA Occurrences ==
  ASSUME NEW s, Once(s), NEW p, p # NoPlan
  PROVE  Cardinality({i \in DOMAIN s : s[i] = p}) = IF p \in ElementsOf(s) THEN 1 ELSE 0
<1> DEFINE P == {i \in DOMAIN s : s[i] = p}
<1>1. CASE p \in ElementsOf(s)
  <2>1. PICK i \in DOMAIN s : s[i] = p
    BY <1>1 DEF ElementsOf
  <2>2. P = {i}
    BY <2>1 DEF Once
  <2> QED BY <1>1, <2>2, FS_Singleton
<1>2. CASE p \notin ElementsOf(s)
  <2>1. P = {}
    BY <1>2 DEF ElementsOf
  <2> QED BY <1>2, <2>1, FS_EmptySet
<1> QED
  BY <1>1, <1>2

LEMMA Holders ==
  ASSUME PlanInv, NEW p \in Plans
  PROVE  Cardinality({w \in Workers : plan[w] = p}) = IF \E w \in Workers : plan[w] = p THEN 1 ELSE 0
<1> DEFINE P == {w \in Workers : plan[w] = p}
<1>1. p # NoPlan
  OBVIOUS
<1>2. CASE \E w \in Workers : plan[w] = p
  <2>1. PICK w \in Workers : plan[w] = p
    BY <1>2
  <2>2. P = {w}
    BY <1>1, <2>1 DEF PlanInv, Separate
  <2> QED BY <1>2, <2>2, FS_Singleton
<1>3. CASE ~\E w \in Workers : plan[w] = p
  <2>1. P = {}
    BY <1>3
  <2> QED BY <1>3, <2>1, FS_EmptySet
<1> QED
  BY <1>2, <1>3

\* Every plan in m_plans is queued, held by one thread or ready, once, and no other plan
\* that is not cancelled is: whatever cancels, completes or drops plans, for any number
\* of them.
THEOREM PlansAccountedForAlways == Spec => []PlansAccountedFor
<1>1. ASSUME PlanInv PROVE PlansAccountedFor
  <2> SUFFICES ASSUME NEW p \in Plans
               PROVE  /\ p \in plans => Places(p) = 1 /\ stage[p] # "Cancelled"
                      /\ p \notin plans /\ stage[p] # "Cancelled" => Places(p) = 0
                      /\ Contains(queue, p) => stage[p] = "Preparing"
    BY DEF PlansAccountedFor
  <2> DEFINE Q == p \in ElementsOf(queue)
             R == p \in ElementsOf(readyPlans)
             H == \E w \in Workers : plan[w] = p
  <2>1. p # NoPlan /\ Once(queue) /\ Once(readyPlans)
    BY <1>1 DEF PlanInv, Separate
  <2>2. Places(p) = (IF Q THEN 1 ELSE 0) + (IF H THEN 1 ELSE 0) + (IF R THEN 1 ELSE 0)
    BY <1>1, <2>1, Occurrences, Holders DEF Places
  <2>3. ~(Q /\ R) /\ ~(Q /\ H) /\ ~(R /\ H)
    BY <1>1 DEF PlanInv, Separate
  <2>4. ASSUME p \in plans PROVE Places(p) = 1 /\ stage[p] # "Cancelled"
    <3>1. stage[p] # "Cancelled" /\ (Q \/ R \/ H)
      BY <1>1, <2>4 DEF PlanInv, PlansSomewhere
    <3> HIDE DEF Q, R, H
    <3> QED BY <2>2, <2>3, <3>1
  <2>5. ASSUME p \notin plans, stage[p] # "Cancelled" PROVE Places(p) = 0
    <3>1. ~Q /\ ~R /\ ~H
      BY <1>1, <2>1, <2>5 DEF PlanInv, QueuedStages, ReadyStages, HeldStages
    <3> HIDE DEF Q, R, H
    <3> QED BY <2>2, <3>1
  <2>6. ASSUME Contains(queue, p) PROVE stage[p] = "Preparing"
    <3>1. queue \in Seq(Plans \cup {NoPlan})
      BY <1>1 DEF PlanInv, PlanTypes
    <3>2. Q
      BY <2>1, <2>6, <3>1 DEF Contains, ElementsOf
    <3> QED BY <1>1, <3>2 DEF PlanInv, QueuedStages
  <2> QED BY <2>4, <2>5, <2>6
<1> QED
  BY <1>1, PlanInvAlways, PTL

-----------------------------------------------------------------------------
(***************************************************************************)
(* The worklist implements PlanLifecycle, step by step.                    *)
(***************************************************************************)
Lives == [p \in Plans |-> State(p)]
Collectors == {v \in VMs : collecting[v]}

LEMMA LivesUnchanged ==
  ASSUME UNCHANGED <<stage, completed>> PROVE Lives' = Lives
  BY DEF Lives, State

LEMMA CollectorsUnchanged ==
  ASSUME UNCHANGED collecting PROVE Collectors' = Collectors
  BY DEF Collectors

\* A plan that is held and not cancelled is pending, in whatever stage.
LEMMA PendingPlan ==
  ASSUME IInv, PlanInv, NEW w \in Workers, pc[w] \in Active, stage[plan[w]] # "Cancelled"
  PROVE  plan[w] \in Plans /\ plan[w] \notin completed /\ Lives[plan[w]] = "pending"
<1>1. plan[w] \in Plans /\ plan[w] # NoPlan
  BY DEF IInv, PlansHeld
<1>2. stage[plan[w]] \in {"Preparing", "Compiling", "Compiled"} /\ plan[w] \in plans
  BY <1>1 DEF PlanInv, HeldStages
<1>3. plan[w] \notin completed
  BY <1>2 DEF PlanInv, BeingCompleted
<1> QED
  BY <1>1, <1>2, <1>3 DEF Lives, State

\* One plan changes its stage.
LEMMA LivesChanged ==
  ASSUME PlanInv, NEW p \in Plans, NEW to \in Stages, p \notin completed,
         stage' = [stage EXCEPT ![p] = to], UNCHANGED completed
  PROVE  Lives' = [Lives EXCEPT ![p] = IF to = "New" THEN "absent"
                                       ELSE IF to = "Cancelled" THEN "cancelled"
                                       ELSE IF to = "Ready" THEN "ready" ELSE "pending"]
<1> DEFINE x == IF to = "New" THEN "absent" ELSE IF to = "Cancelled" THEN "cancelled"
                ELSE IF to = "Ready" THEN "ready" ELSE "pending"
<1>1. stage \in [Plans -> Stages]
  BY DEF PlanInv, PlanTypes
<1>2. stage'[p] = to /\ \A q \in Plans : q # p => stage'[q] = stage[q]
  BY <1>1
<1>3. State(p)' = x
  BY <1>2 DEF State
<1>4. \A q \in Plans : q # p => State(q)' = State(q)
  BY <1>2 DEF State
<1> HIDE DEF x
<1>5. Lives' = [Lives EXCEPT ![p] = x]
  BY <1>3, <1>4 DEF Lives
<1> QED
  BY <1>5 DEF x

LEMMA InitRefines == Init => Abstract!Init
  BY DEF Init, Abstract!Init, State

LEMMA NextRefines == IInv /\ PlanInv /\ [Next]_vars => [Abstract!Next]_<<Lives, Collectors>>
<1> SUFFICES ASSUME IInv, PlanInv, [Next]_vars PROVE [Abstract!Next]_<<Lives, Collectors>>
  OBVIOUS
<1> USE DEF Goto, GotoVM, worklist, locks, threads, vms
<1>1. ASSUME UNCHANGED <<stage, completed, collecting>> PROVE UNCHANGED <<Lives, Collectors>>
  BY <1>1, LivesUnchanged, CollectorsUnchanged
<1>2. ASSUME NEW w \in Workers, Worker(w) \/ SafepointBegin(w) PROVE [Abstract!Next]_<<Lives, Collectors>>
  <2>1. CASE NotifyCompiling(w) \/ NotifyCompiled(w)
    <3>1. /\ pc[w] \in Active /\ stage[plan[w]] # "Cancelled" /\ UNCHANGED <<completed, collecting>>
          /\ \/ stage' = [stage EXCEPT ![plan[w]] = "Compiling"]
             \/ stage' = [stage EXCEPT ![plan[w]] = "Compiled"]
      BY <2>1 DEF NotifyCompiling, NotifyCompiled, Active, Running
    <3>2. plan[w] \in Plans /\ plan[w] \notin completed /\ Lives[plan[w]] = "pending"
      BY <3>1, PendingPlan
    <3>3. "Compiling" \in Stages /\ "Compiled" \in Stages
      BY DEF Stages
    <3>4. Lives' = [Lives EXCEPT ![plan[w]] = "pending"]
      BY <3>1, <3>2, <3>3, LivesChanged
    <3>5. Lives' = Lives
      BY <3>2, <3>4 DEF Lives
    <3> QED BY <3>1, <3>5, CollectorsUnchanged
  <2>2. CASE NotifyReady(w)
    <3>1. /\ pc[w] \in Active /\ stage[plan[w]] # "Cancelled" /\ UNCHANGED <<completed, collecting>>
          /\ stage' = [stage EXCEPT ![plan[w]] = "Ready"]
      BY <2>2 DEF NotifyReady, Active, Running
    <3>2. plan[w] \in Plans /\ plan[w] \notin completed /\ Lives[plan[w]] = "pending"
      BY <3>1, PendingPlan
    <3>3. "Ready" \in Stages
      BY DEF Stages
    <3>4. Lives' = [Lives EXCEPT ![plan[w]] = "ready"]
      BY <3>1, <3>2, <3>3, LivesChanged
    <3>5. Abstract!BecomeReady(plan[w])
      BY <3>1, <3>2, <3>4, CollectorsUnchanged DEF Abstract!BecomeReady, Abstract!Becomes, Lives, Collectors
    <3> QED BY <3>2, <3>5 DEF Abstract!Next
  <2>3. CASE ~(NotifyCompiling(w) \/ NotifyCompiled(w) \/ NotifyReady(w))
    <3>1. UNCHANGED <<stage, completed, collecting>>
      BY <1>2, <2>3 DEF Worker, Sleep, TakePlan, Terminate, LockRightToRun, CancelledBeforeCompiling, DropCancelled,
         SafepointBegin, SafepointEnd, CompileInThreadDone, CancelledWhileCompiling, CancelledAfterCompiling
    <3> QED BY <1>1, <3>1
  <2> QED BY <2>1, <2>2, <2>3
<1>3. ASSUME NEW v \in VMs, NEW p \in Plans, Enqueue(v, p) PROVE [Abstract!Next]_<<Lives, Collectors>>
  <2>1. /\ stage[p] = "New" /\ VMOf[p] = v /\ vmpc[v] = "running" /\ UNCHANGED <<completed, collecting>>
        /\ stage' = [stage EXCEPT ![p] = "Preparing"]
    BY <1>3 DEF Enqueue, IsNextPlan
  <2>2. p \notin completed /\ ~collecting[v] /\ "Preparing" \in Stages
    BY <2>1 DEF PlanInv, BeingCompleted, IInv, CollectingAsTold, Collecting, Stages
  <2>3. Lives[p] = "absent"
    BY <2>1 DEF Lives, State
  <2>4. Lives' = [Lives EXCEPT ![p] = "pending"]
    BY <2>1, <2>2, LivesChanged
  <2>5. Abstract!Request(p)
    BY <2>1, <2>2, <2>3, <2>4, CollectorsUnchanged DEF Abstract!Request, Abstract!Becomes, Lives, Collectors
  <2> QED BY <2>5 DEF Abstract!Next
<1>4. ASSUME NEW v \in VMs, Call(v) \/ Run(v) PROVE [Abstract!Next]_<<Lives, Collectors>>
  <2>1. CASE \E p \in Plans : Enqueue(v, p)
    BY <1>3, <2>1
  <2>2. CASE FinalizePlan(v)
    <3>1. myReadyPlans[v] \in Seq(Plans) /\ myReadyPlans[v] # <<>> /\ Once(myReadyPlans[v])
      BY <2>2 DEF FinalizePlan, PlanInv, PlanTypes, BeingCompleted
    <3>2. PICK p \in Plans : p = Last(myReadyPlans[v]) /\ p \in ElementsOf(myReadyPlans[v])
      <4>1. /\ Last(myReadyPlans[v]) \in Plans
            /\ Last(myReadyPlans[v]) # NoPlan => Last(myReadyPlans[v]) \in ElementsOf(myReadyPlans[v])
        BY <3>1, FrontElements
      <4> QED BY <4>1
    <3>3. completed' = completed \cup {p} /\ UNCHANGED <<stage, collecting>> /\ vmpc[v] = "completing"
      BY <2>2, <3>2 DEF FinalizePlan
    <3>4. VMOf[p] = v /\ stage[p] = "Ready" /\ p \notin completed /\ ~collecting[v]
      BY <3>3, <3>2 DEF PlanInv, BeingCompleted, IInv, CollectingAsTold, Collecting
    <3>5. State(p) = "ready" /\ State(p)' = "completed" /\ \A q \in Plans : q # p => State(q)' = State(q)
      BY <3>3, <3>2, <3>4 DEF State
    <3>6. Lives' = [Lives EXCEPT ![p] = "completed"] /\ Lives[p] = "ready"
      BY <3>2, <3>5 DEF Lives
    <3>7. Abstract!Complete(p)
      BY <3>3, <3>4, <3>6, CollectorsUnchanged DEF Abstract!Complete, Abstract!Becomes, Lives, Collectors
    <3> QED BY <3>2, <3>7 DEF Abstract!Next
  <2>3. CASE WillStartCollection(v)
    <3>1. collecting' = [collecting EXCEPT ![v] = TRUE] /\ UNCHANGED <<stage, completed>>
      BY <2>3 DEF WillStartCollection
    <3>2. Collectors' = Collectors \cup {v} /\ Lives' = Lives
      BY <3>1, LivesUnchanged DEF Collectors, IInv, Types
    <3>3. Abstract!StartCollection(v)
      BY <3>2 DEF Abstract!StartCollection, Lives, Collectors
    <3> QED BY <3>3 DEF Abstract!Next
  <2>4. CASE DidFinishCollection(v)
    <3>1. collecting' = [collecting EXCEPT ![v] = FALSE] /\ UNCHANGED <<stage, completed>>
      BY <2>4 DEF DidFinishCollection
    <3>2. Collectors' = Collectors \ {v} /\ Lives' = Lives
      BY <3>1, LivesUnchanged DEF Collectors, IInv, Types
    <3>3. Abstract!FinishCollection(v)
      BY <3>2 DEF Abstract!FinishCollection, Lives, Collectors
    <3> QED BY <3>3 DEF Abstract!Next
  <2>5. CASE RemoveDeadPlans(v)
    <3>1. PICK dead \in SUBSET {p \in plans : VMOf[p] = v} :
            /\ vmpc[v] = "collecting"
            /\ stage' = [p \in Plans |-> IF p \in dead THEN "Cancelled" ELSE stage[p]]
            /\ UNCHANGED <<collecting, completed>>
      BY <2>5, Zenon DEF RemoveDeadPlans
    <3>2. v \in Collectors /\ dead \in SUBSET Plans
      BY <3>1 DEF PlanInv, ToldAsCollecting, Collecting, PlanTypes, Collectors
    <3>3. \A p \in dead : VMOf[p] = v /\ Lives[p] \in {"pending", "ready"}
      BY <3>1, <3>2 DEF PlanInv, PlansSomewhere, BeingCompleted, Lives, State
    <3>4. Lives' = [p \in Plans |-> IF p \in dead THEN "cancelled" ELSE Lives[p]]
      BY <3>1 DEF Lives, State
    <3>5. Abstract!Cancel(v, dead)
      BY <3>1, <3>2, <3>3, <3>4, CollectorsUnchanged DEF Abstract!Cancel, Lives, Collectors
    <3> QED BY <3>2, <3>5 DEF Abstract!Next
  <2>6. CASE /\ ~\E p \in Plans : Enqueue(v, p)
             /\ ~(FinalizePlan(v) \/ WillStartCollection(v) \/ DidFinishCollection(v) \/ RemoveDeadPlans(v))
    <3>1. UNCHANGED <<stage, completed, collecting>>
      BY <1>4, <2>6 DEF Call, Run, CompleteAllReadyPlansForVM, RemoveAllReadyPlansForVM, FinalizeDone,
         WaitUntilAllPlansForVMAreReadyCall, WaitUntilAllPlansForVMAreReady, DestroyVM, LockSuspension,
         SuspendThread, CancelSafepoints, ResumeThread, UnlockSuspension
    <3> QED BY <1>1, <3>1
  <2> QED BY <2>1, <2>2, <2>3, <2>4, <2>5, <2>6
<1>5. CASE Destroy \/ UNCHANGED vars
  <2>1. UNCHANGED <<stage, completed, collecting>>
    BY <1>5 DEF Destroy, vars
  <2> QED BY <1>1, <2>1
<1> QED
  BY <1>2, <1>4, <1>5 DEF Next, Terminated

\* The worklist implements the life of a plan: a plan that was cancelled is never
\* completed, none is completed twice, and a plan is completed only while its VM does
\* not collect, for any number of VMs, threads and plans.
THEOREM WorklistImplementsPlanLifecycle == Spec => ImplementsPlanLifecycle
<1>1. Init => Abstract!Init
  BY InitRefines
<1>2. IInv /\ PlanInv /\ [Next]_vars => [Abstract!Next]_<<Lives, Collectors>>
  BY NextRefines
<1> QED
  BY <1>1, <1>2, PlanInvAlways, PTL DEF Spec, ImplementsPlanLifecycle, Abstract!Spec, Lives, Collectors

-----------------------------------------------------------------------------
(***************************************************************************)
(* m_numberOfActiveThreads counts the threads that have a plan, which      *)
(* ~Worklist() asserts to be none in the end.                              *)
(***************************************************************************)
ActiveWorkers == {w \in Workers : pc[w] \in Active}
CountInv ==
  /\ activeThreads = Cardinality(ActiveWorkers)
  /\ suspension \in VMs \cup {Nobody}
  /\ collections \in [VMs -> 0..MaxCollections]

LEMMA ActiveWorkersFinite ==
  /\ IsFiniteSet(ActiveWorkers) /\ Cardinality(ActiveWorkers) \in 0..NumThreads
<1>1. IsFiniteSet(Workers) /\ Cardinality(Workers) = NumThreads
  BY FS_Interval DEF Workers
<1>2. ActiveWorkers \subseteq Workers
  BY DEF ActiveWorkers
<1>3. IsFiniteSet(ActiveWorkers) /\ Cardinality(ActiveWorkers) <= NumThreads /\ Cardinality(ActiveWorkers) \in Nat
  BY <1>1, <1>2, FS_Subset, FS_CardinalityType
<1> QED
  BY <1>3

LEMMA InitCountInv == Init => CountInv
<1> SUFFICES ASSUME Init PROVE CountInv
  OBVIOUS
<1>1. ActiveWorkers = {}
  BY DEF Init, ActiveWorkers, Active, Running
<1> QED
  BY <1>1, FS_EmptySet DEF Init, CountInv

LEMMA NextCountInv == IInv /\ CountInv /\ [Next]_vars => CountInv'
<1> SUFFICES ASSUME IInv, CountInv, [Next]_vars PROVE CountInv'
  OBVIOUS
<1> USE DEF Goto, GotoVM, worklist, locks, threads, vms, CountInv
<1>1. ASSUME ActiveWorkers' = ActiveWorkers, UNCHANGED <<activeThreads, suspension, collections>> PROVE CountInv'
  BY <1>1
<1>2. ASSUME NEW w \in Workers, Worker(w) \/ SafepointBegin(w) PROVE CountInv'
  <2>1. pc \in [Workers -> PC] /\ UNCHANGED <<suspension, collections>>
    BY <1>2 DEF IInv, Types, Worker, SafepointBegin, Sleep, TakePlan, Terminate, LockRightToRun, CancelledBeforeCompiling,
       DropCancelled, NotifyCompiling, SafepointEnd, CompileInThreadDone, CancelledWhileCompiling, NotifyCompiled,
       CancelledAfterCompiling, NotifyReady
  <2>2. CASE TakePlan(w)
    <3>1. ActiveWorkers' = ActiveWorkers \cup {w} /\ w \notin ActiveWorkers
      BY <2>1, <2>2 DEF TakePlan, ActiveWorkers, Active, Running
    <3>2. Cardinality(ActiveWorkers') = Cardinality(ActiveWorkers) + 1
      BY <3>1, ActiveWorkersFinite, FS_AddElement
    <3> QED BY <2>1, <2>2, <3>2 DEF TakePlan
  <2>3. CASE CancelledBeforeCompiling(w) \/ CancelledWhileCompiling(w) \/ CancelledAfterCompiling(w) \/ NotifyReady(w)
    <3>1. ActiveWorkers' = ActiveWorkers \ {w} /\ w \in ActiveWorkers
      BY <2>1, <2>3 DEF CancelledBeforeCompiling, CancelledWhileCompiling, CancelledAfterCompiling, DropCancelled,
         NotifyReady, ActiveWorkers, Active, Running
    <3>2. Cardinality(ActiveWorkers') = Cardinality(ActiveWorkers) - 1
      BY <3>1, ActiveWorkersFinite, FS_RemoveElement
    <3>3. activeThreads' = activeThreads - 1
      BY <2>3 DEF CancelledBeforeCompiling, CancelledWhileCompiling, CancelledAfterCompiling, DropCancelled, NotifyReady
    <3> QED BY <2>1, <3>2, <3>3
  <2>4. CASE ~(TakePlan(w) \/ CancelledBeforeCompiling(w) \/ CancelledWhileCompiling(w) \/ CancelledAfterCompiling(w) \/ NotifyReady(w))
    <3>1. ActiveWorkers' = ActiveWorkers /\ UNCHANGED activeThreads
      BY <1>2, <2>1, <2>4 DEF Worker, SafepointBegin, Sleep, Terminate, LockRightToRun, NotifyCompiling, SafepointEnd,
         CompileInThreadDone, NotifyCompiled, ActiveWorkers, Active, Running
    <3> QED BY <1>1, <2>1, <3>1
  <2> QED BY <2>2, <2>3, <2>4
<1>3. ASSUME NEW v \in VMs, NEW p \in Plans, Enqueue(v, p) PROVE CountInv'
  <2>1. NotifyPlanEnqueued /\ UNCHANGED <<activeThreads, suspension, collections>>
    BY <1>3, Zenon DEF Enqueue
  <2>2. ActiveWorkers' = ActiveWorkers
    BY <2>1 DEF NotifyPlanEnqueued, IInv, Types, ActiveWorkers, Active, Running
  <2> QED BY <1>1, <2>1, <2>2
<1>4. ASSUME NEW v \in VMs, Call(v) \/ Run(v) PROVE CountInv'
  <2>1. CASE \E p \in Plans : Enqueue(v, p)
    BY <1>3, <2>1
  <2>2. CASE LockSuspension(v)
    <3>1. UNCHANGED <<pc, activeThreads>> /\ suspension' = v /\ collections' \in [VMs -> 0..MaxCollections]
      BY <2>2 DEF LockSuspension
    <3> QED BY <3>1 DEF ActiveWorkers
  <2>3. CASE UnlockSuspension(v)
    <3>1. UNCHANGED <<pc, activeThreads, collections>> /\ suspension' = Nobody
      BY <2>3 DEF UnlockSuspension
    <3> QED BY <3>1 DEF ActiveWorkers
  <2>4. CASE ~(LockSuspension(v) \/ UnlockSuspension(v)) /\ ~\E p \in Plans : Enqueue(v, p)
    <3>1. UNCHANGED <<pc, activeThreads, suspension, collections>>
      BY <1>4, <2>4 DEF Call, Run, CompleteAllReadyPlansForVM, RemoveAllReadyPlansForVM, FinalizePlan, FinalizeDone,
         WaitUntilAllPlansForVMAreReadyCall, WaitUntilAllPlansForVMAreReady, DestroyVM, WillStartCollection,
         RemoveDeadPlans, SuspendThread, CancelSafepoints, DidFinishCollection, ResumeThread
    <3> QED BY <3>1 DEF ActiveWorkers
  <2> QED BY <2>1, <2>2, <2>3, <2>4
<1>5. CASE Destroy
  <2>1. ActiveWorkers' = ActiveWorkers
    BY <1>5 DEF Destroy, IInv, Types, ActiveWorkers, Active, Running
  <2> QED BY <1>1, <1>5, <2>1 DEF Destroy
<1>6. CASE UNCHANGED vars
  BY <1>6 DEF vars, ActiveWorkers
<1> QED
  BY <1>2, <1>4, <1>5, <1>6 DEF Next, Terminated

\* Every variable has its type; in particular m_numberOfActiveThreads never underflows
\* and never exceeds the number of threads.
THEOREM TypeCorrect == Spec => []TypeOK
<1>1. Init => IInv /\ CountInv
  BY InitIInv, InitCountInv
<1>2. (IInv /\ CountInv) /\ [Next]_vars => (IInv /\ CountInv)'
  BY NextIInv, NextCountInv
<1>3. IInv /\ PlanInv /\ CountInv => TypeOK
  BY ActiveWorkersFinite DEF IInv, Types, PlansHeld, PlanInv, PlanTypes, CountInv, TypeOK
<1>4. Spec => [](IInv /\ CountInv)
  BY <1>1, <1>2, PTL DEF Spec
<1> QED
  BY <1>3, <1>4, PlanInvAlways, PTL
=============================================================================
