---------------------- MODULE ParallelHelperPoolProofs ----------------------
(***************************************************************************)
(* Proofs about ParallelHelperPool for any finite set of clients and any   *)
(* number of threads and tasks: type correctness, what finish() promises,  *)
(* the assertions of runTask(), that no thread sleeps through a task, and  *)
(* that the pool implements ParallelTask.                                  *)
(*                                                                         *)
(* The inductive invariant says who runs what: a thread has claimed a task *)
(* exactly where it runs one, the task is that of an existing client which *)
(* has no other task, m_numActive counts the threads that run it, and a    *)
(* client whose owner is not using it is at rest.                          *)
(***************************************************************************)
EXTENDS ParallelHelperPool, FiniteSetTheorems, TLAPS

OwnerPC == {"none", "idle", "offered", "helpingSelf", "helped", "helpingOther", "finish", "finishAsleep",
            "destroy", "destroyAsleep", "gone"}
HelperPC == {"none", "looking", "asleep", "helping", "exited"}
Running == {"helpingSelf", "helpingOther", "helping"}

Types ==
  /\ clients \subseteq Clients
  /\ numThreads \in 0..MaxThreads
  /\ isDying \in BOOLEAN
  /\ task \in [Clients -> 0..MaxTasks]
  /\ numActive \in [Clients -> Nat]
  /\ claimed \in [Runners -> SUBSET (Clients \X (1..MaxTasks))]
  /\ pc \in [Runners -> PC]
  /\ tasks \in [Clients -> 0..MaxTasks]
  /\ \A c \in Clients : pc[c] \in OwnerPC
  /\ \A h \in Helpers : pc[h] \in HelperPC

\* A client is in m_clients from its construction to its destruction.
ClientsExist == \A c \in Clients : c \in clients <=> pc[c] \notin {"none", "gone"}

\* A thread has claimed something exactly where it runs a task.
ClaimsMatch ==
  \A r \in Runners :
    IF pc[r] \in Running
      THEN \E c \in Clients, k \in 1..MaxTasks : claimed[r] = {<<c, k>>}
      ELSE claimed[r] = {}

\* What is claimed is the task of an existing client that has no other.
ClaimsValid ==
  \A r \in Runners, c \in Clients, k \in 1..MaxTasks :
    <<c, k>> \in claimed[r] => c \in clients /\ task[c] \in {0, k}

Counted == \A c \in Clients : numActive[c] = Cardinality(Inside(c))

AtRest ==
  \A c \in Clients : pc[c] \in {"none", "idle", "helpingOther", "gone"} => task[c] = 0 /\ Inside(c) = {}

IInv == Types /\ ClientsExist /\ ClaimsMatch /\ ClaimsValid /\ Counted /\ AtRest

USE ConstantsAssumption

-----------------------------------------------------------------------------
LEMMA RunnersFinite == IsFiniteSet(Runners)
<1>1. IsFiniteSet(1..MaxThreads)
  BY FS_Interval
<1>2. IsFiniteSet(Clients)
  BY ConstantsAssumption
<1> QED
  BY <1>1, <1>2, FS_Union DEF Runners, Helpers

LEMMA InsideFinite == \A c : IsFiniteSet(Inside(c)) /\ Cardinality(Inside(c)) \in 0..Cardinality(Runners)
<1> TAKE c
<1>1. Inside(c) \in SUBSET Runners
  BY DEF Inside
<1>2. IsFiniteSet(Inside(c)) /\ Cardinality(Inside(c)) <= Cardinality(Runners)
  BY <1>1, RunnersFinite, FS_Subset
<1>3. Cardinality(Inside(c)) \in Nat /\ Cardinality(Runners) \in Nat
  BY <1>2, RunnersFinite, FS_CardinalityType
<1> QED
  BY <1>2, <1>3

\* A step that leaves what is claimed alone leaves the counting alone.
LEMMA SameClaims ==
  ASSUME Counted, UNCHANGED <<claimed, numActive>>
  PROVE  Counted' /\ \A c \in Clients : Inside(c)' = Inside(c)
  BY DEF Counted, Inside

\* A thread that claims the task of c is the one more that runs it.
LEMMA ClaimCounts ==
  ASSUME IInv, NEW r \in Runners, NEW c \in Clients, pc[r] \notin Running, ClaimTask(r, c)
  PROVE  /\ \A d \in Clients : r \notin Inside(d)
         /\ Inside(c)' = Inside(c) \cup {r}
         /\ \A d \in Clients : d # c => Inside(d)' = Inside(d)
         /\ numActive' \in [Clients -> Nat]
         /\ Counted'
<1> USE DEF IInv, Types
<1>1. claimed[r] = {} /\ task[c] \in 1..MaxTasks
  BY DEF ClaimsMatch, ClaimTask, HasTask
<1>2. \A d \in Clients : r \notin Inside(d)
  BY <1>1 DEF Inside
<1>3. /\ claimed' = [claimed EXCEPT ![r] = {<<c, task[c]>>}]
      /\ numActive' = [numActive EXCEPT ![c] = @ + 1]
  BY DEF ClaimTask
<1>4. Inside(c)' = Inside(c) \cup {r}
  BY <1>1, <1>3 DEF Inside
<1>5. \A d \in Clients : d # c => Inside(d)' = Inside(d)
  BY <1>1, <1>3 DEF Inside
<1>6. Cardinality(Inside(c)') = Cardinality(Inside(c)) + 1
  BY <1>2, <1>4, InsideFinite, FS_AddElement
<1>7. Counted'
  BY <1>3, <1>5, <1>6 DEF Counted
<1> QED
  BY <1>2, <1>3, <1>4, <1>5, <1>7

\* A thread that returns is the one less that runs its task.
LEMMA ReturnCounts ==
  ASSUME IInv, NEW r \in Runners, NEW c \in Clients, NEW k \in 1..MaxTasks, claimed[r] = {<<c, k>>},
         claimed' = [claimed EXCEPT ![r] = {}], numActive' = [numActive EXCEPT ![c] = @ - 1]
  PROVE  /\ r \in Inside(c)
         /\ Inside(c)' = Inside(c) \ {r}
         /\ \A d \in Clients : d # c => Inside(d)' = Inside(d)
         /\ numActive' \in [Clients -> Nat]
         /\ Counted'
<1> USE DEF IInv, Types
<1>1. r \in Inside(c)
  BY DEF Inside
<1>2. Inside(c)' = Inside(c) \ {r}
  BY DEF Inside
<1>3. \A d \in Clients : d # c => Inside(d)' = Inside(d)
  BY DEF Inside
<1>4. Cardinality(Inside(c)') = Cardinality(Inside(c)) - 1 /\ Cardinality(Inside(c)) # 0
  <2>1. IsFiniteSet(Inside(c))
    BY InsideFinite
  <2>2. Cardinality(Inside(c)) # 0
    BY <1>1, <2>1, FS_EmptySet
  <2>3. Cardinality(Inside(c) \ {r}) = Cardinality(Inside(c)) - 1
    BY <1>1, <2>1, FS_RemoveElement
  <2> QED
    BY <1>2, <2>2, <2>3
<1>5. numActive' \in [Clients -> Nat]
  BY <1>4 DEF Counted
<1>6. Counted'
  BY <1>3, <1>4 DEF Counted
<1> QED
  BY <1>1, <1>2, <1>3, <1>5, <1>6

-----------------------------------------------------------------------------
LEMMA InitIInv == Init => IInv
<1> SUFFICES ASSUME Init PROVE IInv
  OBVIOUS
<1>1. Types
  <2>1. pc \in [Runners -> PC] /\ \A r \in Runners : pc[r] = "none"
    BY DEF Init, PC
  <2>2. (\A c \in Clients : pc[c] \in OwnerPC) /\ \A h \in Helpers : pc[h] \in HelperPC
    BY <2>1 DEF Runners, OwnerPC, HelperPC
  <2>3. /\ task \in [Clients -> 0..MaxTasks] /\ tasks \in [Clients -> 0..MaxTasks]
        /\ numActive \in [Clients -> Nat] /\ numThreads \in 0..MaxThreads
    BY DEF Init
  <2>4. claimed \in [Runners -> SUBSET (Clients \X (1..MaxTasks))]
    BY DEF Init
  <2> QED
    BY <2>1, <2>2, <2>3, <2>4 DEF Init, Types
<1>1a. ClientsExist /\ ClaimsMatch /\ ClaimsValid
  BY DEF Init, ClientsExist, ClaimsMatch, ClaimsValid, Running, Runners
<1>2. \A c \in Clients : Inside(c) = {}
  BY DEF Init, Inside
<1>3. Counted /\ AtRest
  BY <1>2, FS_EmptySet DEF Init, Counted, AtRest
<1> QED
  BY <1>1, <1>1a, <1>3 DEF IInv

-----------------------------------------------------------------------------
\* The two ways to change many threads' control at once.
LEMMA WakeHelpers ==
  ASSUME NEW pcs \in [Runners -> PC], NEW n \in 0..MaxThreads,
         \A c \in Clients : pcs[c] \in OwnerPC, \A h \in Helpers : pcs[h] \in HelperPC
  PROVE  LET new == DidMakeWorkAvailable(pcs, n) IN
         /\ new \in [Runners -> PC]
         /\ \A c \in Clients : new[c] = pcs[c]
         /\ \A h \in Helpers : new[h] \in HelperPC
         /\ \A r \in Runners : new[r] \in Running <=> pcs[r] \in Running
         /\ \A r \in Runners : new[r] = "asleep" => pcs[r] = "asleep"
<1>1. \A r \in 1..n : r \in Helpers /\ r \notin Clients
  BY DEF Helpers
<1> QED
  BY <1>1 DEF DidMakeWorkAvailable, PC, OwnerPC, HelperPC, Running, Runners

LEMMA WakeOwners ==
  ASSUME NEW pcs \in [Runners -> PC], NEW c \in Clients,
         \A d \in Clients : pcs[d] \in OwnerPC, \A h \in Helpers : pcs[h] \in HelperPC
  PROVE  LET new == WorkComplete(pcs, c) IN
         /\ new \in [Runners -> PC]
         /\ \A h \in Helpers : new[h] = pcs[h]
         /\ \A d \in Clients : new[d] \in OwnerPC
         /\ \A r \in Runners : new[r] \in Running <=> pcs[r] \in Running
         /\ \A r \in Runners : new[r] # pcs[r] => new[r] \in {"finish", "destroy"}
         /\ \A r \in Runners : new[r] # pcs[r] => pcs[r] \in {"finishAsleep", "destroyAsleep"}
<1>1. CASE numActive[c] # 1
  BY <1>1 DEF WorkComplete
<1>2. CASE numActive[c] = 1
  <2> DEFINE new == WorkComplete(pcs, c)
  <2>1. new = [r \in Runners |-> CASE pcs[r] = "finishAsleep" -> "finish"
                                   [] pcs[r] = "destroyAsleep" -> "destroy"
                                   [] OTHER -> pcs[r]]
    BY <1>2 DEF WorkComplete
  <2>2. \A r \in Runners : \/ pcs[r] = "finishAsleep" /\ new[r] = "finish"
                           \/ pcs[r] = "destroyAsleep" /\ new[r] = "destroy"
                           \/ pcs[r] \notin {"finishAsleep", "destroyAsleep"} /\ new[r] = pcs[r]
    BY <2>1
  <2>3. DOMAIN new = Runners /\ new = [r \in Runners |-> new[r]]
    BY <2>1
  <2>4. \A r \in Runners : new[r] \in PC
    BY <2>2 DEF PC
  <2>5. \A h \in Helpers : new[h] = pcs[h]
    BY <2>2 DEF HelperPC, Runners
  <2>6. \A d \in Clients : new[d] \in OwnerPC
    BY <2>2 DEF OwnerPC, Runners
  <2>7. new \in [Runners -> PC]
    BY <2>3, <2>4
  <2>8. \A r \in Runners : new[r] \in Running <=> pcs[r] \in Running
    BY <2>2 DEF Running
  <2>9. \A r \in Runners : new[r] # pcs[r] => /\ new[r] \in {"finish", "destroy"}
                                              /\ pcs[r] \in {"finishAsleep", "destroyAsleep"}
    BY <2>2
  <2> QED
    BY <2>5, <2>6, <2>7, <2>8, <2>9
<1> QED
  BY <1>1, <1>2

\* A thread claims a task.
LEMMA ClaimIInv ==
  ASSUME IInv, NEW r \in Runners, NEW c \in Clients, pc[r] \notin Running, ClaimTask(r, c),
         NEW p \in Running, pc' = [pc EXCEPT ![r] = p], UNCHANGED <<pool, task, tasks>>,
         \/ r \in Helpers /\ p = "helping"
         \/ r \in Clients /\ pc[r] = "idle" /\ p = "helpingOther"
         \/ r \in Clients /\ pc[r] = "offered" /\ p = "helpingSelf"
  PROVE  IInv'
<1>1. /\ \A d \in Clients : d # c => Inside(d)' = Inside(d)
      /\ numActive' \in [Clients -> Nat]
      /\ Counted'
  BY ClaimCounts
<1>2. claimed' = [claimed EXCEPT ![r] = {<<c, task[c]>>}] /\ c \in clients /\ task[c] \in 1..MaxTasks
  BY DEF ClaimTask, HasTask, IInv, Types
<1>3. r \in Helpers => r \notin Clients
  OBVIOUS
<1>4. Types'
  <2>1. claimed' \in [Runners -> SUBSET (Clients \X (1..MaxTasks))]
    BY <1>2 DEF IInv, Types
  <2>2. pc' \in [Runners -> PC]
    BY DEF IInv, Types, PC, Running
  <2>3. (\A d \in Clients : pc'[d] \in OwnerPC) /\ \A h \in Helpers : pc'[h] \in HelperPC
    BY <1>3 DEF IInv, Types, OwnerPC, HelperPC, Running, Runners
  <2> QED
    BY <1>1, <2>1, <2>2, <2>3 DEF IInv, Types, pool
<1>5. ClientsExist'
  BY <1>3 DEF IInv, Types, ClientsExist, Running, pool, Runners
<1>6. ClaimsMatch'
  BY <1>2 DEF IInv, Types, ClaimsMatch
<1>7. ClaimsValid'
  BY <1>2 DEF IInv, Types, ClaimsValid, pool
<1>8. AtRest'
  <2> SUFFICES ASSUME NEW d \in Clients, pc'[d] \in {"none", "idle", "helpingOther", "gone"}
               PROVE  task'[d] = 0 /\ Inside(d)' = {}
    BY DEF AtRest
  <2>1. pc[d] \in {"none", "idle", "helpingOther", "gone"}
    BY <1>3 DEF IInv, Types, Runners
  <2>2. task[d] = 0 /\ Inside(d) = {}
    BY <2>1 DEF IInv, AtRest
  <2>3. d # c
    BY <2>2, <1>2
  <2> QED
    BY <1>1, <2>2, <2>3
<1> QED
  BY <1>1, <1>4, <1>5, <1>6, <1>7, <1>8 DEF IInv

\* A thread returns from a task.
LEMMA ReturnIInv ==
  ASSUME IInv, NEW r \in Runners, NEW next, RunTaskEnd(r, next),
         \/ r \in Helpers /\ pc[r] = "helping" /\ next = "looking"
         \/ r \in Clients /\ pc[r] = "helpingSelf" /\ next = "helped"
         \/ r \in Clients /\ pc[r] = "helpingOther" /\ next = "idle"
  PROVE  IInv'
<1> PICK c \in Clients, k \in 1..MaxTasks :
      /\ claimed[r] = {<<c, k>>}
      /\ claimed' = [claimed EXCEPT ![r] = {}]
      /\ task' = [task EXCEPT ![c] = 0]
      /\ numActive' = [numActive EXCEPT ![c] = @ - 1]
      /\ pc' = [WorkComplete(pc, c) EXCEPT ![r] = next]
      /\ UNCHANGED <<pool, tasks>>
  BY DEF RunTaskEnd
<1>1. /\ r \in Inside(c)
      /\ Inside(c)' = Inside(c) \ {r}
      /\ \A d \in Clients : d # c => Inside(d)' = Inside(d)
      /\ numActive' \in [Clients -> Nat]
      /\ Counted'
  BY ReturnCounts
<1> DEFINE woken == WorkComplete(pc, c)
<1>2. /\ woken \in [Runners -> PC]
      /\ \A h \in Helpers : woken[h] = pc[h]
      /\ \A d \in Clients : woken[d] \in OwnerPC
      /\ \A q \in Runners : woken[q] \in Running <=> pc[q] \in Running
      /\ \A q \in Runners : woken[q] # pc[q] => woken[q] \in {"finish", "destroy"}
      /\ \A q \in Runners : woken[q] # pc[q] => pc[q] \in {"finishAsleep", "destroyAsleep"}
  BY WakeOwners DEF IInv, Types
<1>3. pc' = [woken EXCEPT ![r] = next]
  OBVIOUS
<1> HIDE DEF woken
<1>4. r \in Helpers => r \notin Clients
  OBVIOUS
<1>5. Types'
  <2>1. claimed' \in [Runners -> SUBSET (Clients \X (1..MaxTasks))]
    BY DEF IInv, Types
  <2>2. pc' \in [Runners -> PC]
    BY <1>2, <1>3 DEF PC
  <2>3. (\A d \in Clients : pc'[d] \in OwnerPC) /\ \A h \in Helpers : pc'[h] \in HelperPC
    BY <1>2, <1>3, <1>4 DEF IInv, Types, OwnerPC, HelperPC, Runners
  <2>4. task' \in [Clients -> 0..MaxTasks]
    BY DEF IInv, Types
  <2> QED
    BY <1>1, <2>1, <2>2, <2>3, <2>4 DEF IInv, Types, pool
<1>6. ClientsExist'
  BY <1>2, <1>3, <1>4 DEF IInv, Types, ClientsExist, pool, Runners
<1>7. ClaimsMatch'
  BY <1>2, <1>3 DEF IInv, Types, ClaimsMatch, Running
<1>8. ClaimsValid'
  BY DEF IInv, Types, ClaimsValid, pool
<1>9. AtRest'
  <2> SUFFICES ASSUME NEW d \in Clients, pc'[d] \in {"none", "idle", "helpingOther", "gone"}
               PROVE  task'[d] = 0 /\ Inside(d)' = {}
    BY DEF AtRest
  <2>1. pc[d] \in {"none", "idle", "helpingOther", "gone"}
    BY <1>2, <1>3, <1>4 DEF IInv, Types, Runners
  <2>2. task[d] = 0 /\ Inside(d) = {}
    BY <2>1 DEF IInv, AtRest
  <2> QED
    BY <1>1, <2>2 DEF IInv, Types
<1> QED
  BY <1>1, <1>5, <1>6, <1>7, <1>8, <1>9 DEF IInv

\* A step of one thread that claims nothing and changes nobody else's control.
LEMMA OwnIInv ==
  ASSUME IInv, UNCHANGED <<claimed, numActive>>, Types', ClientsExist',
         \A r \in Runners : pc'[r] \in Running <=> pc[r] \in Running,
         \A c \in Clients : (task'[c] \in {0, task[c]} \/ Inside(c) = {}) /\ (c \in clients => c \in clients' \/ Inside(c) = {}),
         \A c \in Clients : pc'[c] \in {"none", "idle", "helpingOther", "gone"} => task'[c] = 0 /\ Inside(c) = {}
  PROVE  IInv'
<1>1. Counted' /\ \A c \in Clients : Inside(c)' = Inside(c)
  BY SameClaims DEF IInv
<1>2. ClaimsMatch'
  BY DEF IInv, ClaimsMatch
<1>3. ClaimsValid'
  BY DEF IInv, ClaimsValid, Inside
<1>4. AtRest'
  BY <1>1 DEF AtRest
<1> QED
  BY <1>1, <1>2, <1>3, <1>4 DEF IInv

LEMMA NextIInv == IInv /\ [Next]_vars => IInv'
<1> SUFFICES ASSUME IInv, [Next]_vars PROVE IInv'
  OBVIOUS
<1>0. /\ \A h \in Helpers : h \in Runners /\ h \notin Clients
      /\ \A c \in Clients : c \in Runners /\ c \notin Helpers
  BY DEF Runners
<1>1. ASSUME NEW c \in Clients, ClientCreate(c) PROVE IInv'
  <2>1. Types' /\ ClientsExist'
    BY <1>0, <1>1 DEF ClientCreate, IInv, Types, ClientsExist, PC, OwnerPC, HelperPC
  <2> QED
    BY <1>0, <1>1, <2>1, OwnIInv DEF ClientCreate, IInv, Types, AtRest, Running
<1>2. ASSUME NEW c \in Clients, SetTask(c) PROVE IInv'
  <2> DEFINE pcs == [pc EXCEPT ![c] = "offered"]
  <2>1. /\ pcs \in [Runners -> PC]
        /\ \A d \in Clients : pcs[d] \in OwnerPC
        /\ \A h \in Helpers : pcs[h] \in HelperPC
        /\ \A r \in Runners : pcs[r] \in Running <=> pc[r] \in Running
    BY <1>0, <1>2 DEF SetTask, IInv, Types, PC, OwnerPC, HelperPC, Running
  <2>2. pc' = DidMakeWorkAvailable(pcs, numThreads) /\ numThreads \in 0..MaxThreads
    BY <1>2 DEF SetTask, IInv, Types
  <2>3. /\ pc' \in [Runners -> PC]
        /\ \A d \in Clients : pc'[d] = pcs[d]
        /\ \A h \in Helpers : pc'[h] \in HelperPC
        /\ \A r \in Runners : pc'[r] \in Running <=> pcs[r] \in Running
    BY <2>1, <2>2, WakeHelpers
  <2>4. tasks' \in [Clients -> 0..MaxTasks] /\ task' \in [Clients -> 0..MaxTasks]
    BY <1>2 DEF SetTask, IInv, Types
  <2>5. Types'
    BY <1>2, <2>1, <2>3, <2>4 DEF SetTask, IInv, Types, pool
  <2>6. pc[c] = "idle" /\ Inside(c) = {}
    BY <1>2 DEF SetTask, IInv, AtRest
  <2>7. \A d \in Clients : pc'[d] = IF d = c THEN "offered" ELSE pc[d]
    BY <1>0, <2>3 DEF IInv, Types
  <2>8. ClientsExist'
    BY <1>2, <2>6, <2>7 DEF SetTask, IInv, ClientsExist, pool
  <2>9. \A d \in Clients : d # c => task'[d] = task[d]
    BY <1>2 DEF SetTask, IInv, Types
  <2>10. UNCHANGED <<claimed, numActive, clients>>
    BY <1>2 DEF SetTask, pool
  <2>11. \A r \in Runners : pc'[r] \in Running <=> pc[r] \in Running
    BY <2>1, <2>3
  <2>12. \A d \in Clients : pc'[d] \in {"none", "idle", "helpingOther", "gone"} => task'[d] = 0 /\ Inside(d) = {}
    BY <2>7, <2>9 DEF IInv, AtRest
  <2> HIDE DEF pcs
  <2> QED
    BY <2>5, <2>6, <2>8, <2>9, <2>10, <2>11, <2>12, OwnIInv
<1>3. ASSUME NEW c \in Clients, ClientDoSomeHelping(c) PROVE IInv'
  <2>1. CASE HasTask(c)
    BY <1>0, <1>3, <2>1, ClaimIInv DEF ClientDoSomeHelping, Running
  <2>2. CASE ~HasTask(c)
    <3>1. Types' /\ ClientsExist'
      BY <1>0, <1>3, <2>2 DEF ClientDoSomeHelping, IInv, Types, ClientsExist, PC, OwnerPC, HelperPC, pool
    <3> QED
      BY <1>0, <1>3, <2>2, <3>1, OwnIInv DEF ClientDoSomeHelping, IInv, Types, AtRest, Running, pool
  <2> QED
    BY <2>1, <2>2
<1>4. ASSUME NEW c \in Clients, ClientHelped(c) PROVE IInv'
  BY <1>0, <1>4, ReturnIInv DEF ClientHelped
<1>5. ASSUME NEW c \in Clients, PoolDoSomeHelping(c) PROVE IInv'
  BY <1>0, <1>5, ClaimIInv DEF PoolDoSomeHelping, Running
<1>6. ASSUME NEW c \in Clients, PoolHelped(c) PROVE IInv'
  BY <1>0, <1>6, ReturnIInv DEF PoolHelped
<1>7. ASSUME NEW c \in Clients, Finish(c) PROVE IInv'
  <2>1. Types' /\ ClientsExist'
    BY <1>0, <1>7 DEF Finish, IInv, Types, ClientsExist, PC, OwnerPC, HelperPC, pool
  <2>2. numActive[c] = 0 => Inside(c) = {}
    BY InsideFinite, FS_EmptySet DEF IInv, Counted
  <2> QED
    BY <1>0, <1>7, <2>1, <2>2, OwnIInv DEF Finish, IInv, Types, AtRest, Running, pool
<1>8. ASSUME NEW c \in Clients, ClientDestroy(c) PROVE IInv'
  <2>1. Types' /\ ClientsExist'
    BY <1>0, <1>8 DEF ClientDestroy, IInv, Types, ClientsExist, PC, OwnerPC, HelperPC
  <2>2. numActive[c] = 0 => Inside(c) = {}
    BY InsideFinite, FS_EmptySet DEF IInv, Counted
  <2> QED
    BY <1>0, <1>8, <2>1, <2>2, OwnIInv DEF ClientDestroy, IInv, Types, AtRest, Running
<1>9. ASSUME NEW n \in 0..MaxThreads, EnsureThreads(n) PROVE IInv'
  <2>1. /\ pc' \in [Runners -> PC]
        /\ \A d \in Clients : pc'[d] = pc[d]
        /\ \A h \in Helpers : pc'[h] \in HelperPC
        /\ \A r \in Runners : pc'[r] \in Running <=> pc[r] \in Running
    BY <1>9, WakeHelpers DEF EnsureThreads, IInv, Types
  <2>2. Types' /\ ClientsExist'
    BY <1>9, <2>1 DEF EnsureThreads, IInv, Types, ClientsExist
  <2> QED
    BY <1>9, <2>1, <2>2, OwnIInv DEF EnsureThreads, IInv, AtRest
<1>10. ASSUME PoolDestroy PROVE IInv'
  <2>1. Types' /\ ClientsExist'
    BY <1>0, <1>10 DEF PoolDestroy, IInv, Types, ClientsExist, PC, OwnerPC, HelperPC
  <2> QED
    BY <1>0, <1>10, <2>1, OwnIInv DEF PoolDestroy, IInv, Types, AtRest, Running
<1>11. ASSUME NEW h \in Helpers, HelperClaim(h) PROVE IInv'
  BY <1>0, <1>11, ClaimIInv DEF HelperClaim, Running
<1>12. ASSUME NEW h \in Helpers, HelperSleep(h) \/ HelperExit(h) PROVE IInv'
  <2>1. Types' /\ ClientsExist'
    BY <1>0, <1>12 DEF HelperSleep, HelperExit, IInv, Types, ClientsExist, PC, OwnerPC, HelperPC, pool
  <2> QED
    BY <1>0, <1>12, <2>1, OwnIInv DEF HelperSleep, HelperExit, IInv, Types, AtRest, Running, pool
<1>13. ASSUME NEW h \in Helpers, HelperDone(h) PROVE IInv'
  BY <1>0, <1>13, ReturnIInv DEF HelperDone
<1>14. ASSUME UNCHANGED vars PROVE IInv'
  BY <1>14 DEF vars, pool, IInv, Types, ClientsExist, ClaimsMatch, ClaimsValid, Counted, AtRest, Inside
<1> QED
  BY <1>1, <1>2, <1>3, <1>4, <1>5, <1>6, <1>7, <1>8, <1>9, <1>10, <1>11, <1>12, <1>13, <1>14
     DEF Next, Helper, Call, Run, Terminated

LEMMA IInvAlways == Spec => []IInv
  BY InitIInv, NextIInv, PTL DEF Spec

-----------------------------------------------------------------------------
\* The pool's state keeps its types; m_numActive never exceeds the number of threads.
THEOREM TypeCorrect == Spec => []TypeOK
<1>1. IInv => TypeOK
  BY InsideFinite DEF IInv, Types, Counted, TypeOK
<1> QED
  BY <1>1, IInvAlways, PTL

\* When finish() has returned nobody runs the client's task any more.
THEOREM FinishedMeansDoneAlways == Spec => []FinishedMeansDone
<1>1. IInv => FinishedMeansDone
  BY FS_EmptySet DEF IInv, Counted, AtRest, FinishedMeansDone
<1> QED
  BY <1>1, IInvAlways, PTL

\* The RELEASE_ASSERTs of runTask() never fail.
THEOREM RunTaskAssertionsAlways == Spec => []RunTaskAssertions
<1>1. IInv => RunTaskAssertions
  BY DEF IInv, ClaimsValid, Counted, RunTaskAssertions
<1> QED
  BY <1>1, IInvAlways, PTL

-----------------------------------------------------------------------------
(***************************************************************************)
(* Threads that sleep.  The threads that exist are the first numThreads,   *)
(* which is what setTask() notifies.                                       *)
(***************************************************************************)
SleepersOK ==
  /\ NoSleepThroughTask
  /\ \A h \in Helpers : pc[h] # "none" => h \in 1..numThreads

\* A step that brings no task and no thread.
LEMMA NoNewTask ==
  ASSUME SleepersOK, numThreads' = numThreads,
         \A c \in Clients : HasTask(c)' => HasTask(c),
         \A h \in Helpers : pc[h] = "none" => pc'[h] = "none",
         \A h \in Helpers : pc'[h] = "asleep" => pc[h] = "asleep" \/ \A c \in Clients : ~HasTask(c)
  PROVE  SleepersOK'
  BY DEF SleepersOK, NoSleepThroughTask

\* Everybody who exists is told of a task.
LEMMA AllToldOfTask ==
  ASSUME NEW pcs \in [Runners -> PC], NEW n \in 0..MaxThreads,
         \A h \in Helpers : pcs[h] # "none" => h \in 1..n,
         pc' = DidMakeWorkAvailable(pcs, n), numThreads' = n
  PROVE  SleepersOK'
<1>1. \A h \in Helpers : h \in Runners
  BY DEF Runners
<1>2. \A h \in Helpers : pc'[h] # "asleep" /\ (pc'[h] # "none" => h \in 1..n)
  BY <1>1 DEF DidMakeWorkAvailable
<1> QED
  BY <1>2 DEF SleepersOK, NoSleepThroughTask

LEMMA SleepersStep == IInv /\ SleepersOK /\ [Next]_vars => SleepersOK'
<1> SUFFICES ASSUME IInv, SleepersOK, [Next]_vars PROVE SleepersOK'
  OBVIOUS
<1>0. /\ \A h \in Helpers : h \in Runners /\ h \notin Clients
      /\ \A c \in Clients : c \in Runners /\ c \notin Helpers
      /\ pc \in [Runners -> PC] /\ numThreads \in 0..MaxThreads /\ task \in [Clients -> 0..MaxTasks]
  BY DEF Runners, IInv, Types
<1>1. ASSUME NEW c \in Clients, ClientCreate(c) PROVE SleepersOK'
  <2>1. task[c] = 0 /\ UNCHANGED <<task, numThreads>> /\ clients' = clients \cup {c}
    BY <1>1 DEF ClientCreate, IInv, AtRest
  <2>2. \A d \in Clients : HasTask(d)' => HasTask(d)
    BY <2>1 DEF HasTask
  <2>3. \A h \in Helpers : pc'[h] = pc[h]
    BY <1>0, <1>1 DEF ClientCreate
  <2> QED
    BY <2>1, <2>2, <2>3, NoNewTask
<1>2. ASSUME NEW c \in Clients, SetTask(c) PROVE SleepersOK'
  <2> DEFINE pcs == [pc EXCEPT ![c] = "offered"]
  <2>1. /\ pcs \in [Runners -> PC]
        /\ \A h \in Helpers : pcs[h] # "none" => h \in 1..numThreads
    BY <1>0 DEF SleepersOK, PC
  <2>2. pc' = DidMakeWorkAvailable(pcs, numThreads) /\ numThreads' = numThreads
    BY <1>2 DEF SetTask, pool
  <2> HIDE DEF pcs
  <2> QED
    BY <1>0, <2>1, <2>2, AllToldOfTask
<1>3. ASSUME NEW r \in Runners, NEW p, pc[r] # "none", p \notin {"none", "asleep"},
             pc' = [pc EXCEPT ![r] = p], UNCHANGED <<pool, task>>
      PROVE  SleepersOK'
  <2>1. \A d \in Clients : HasTask(d)' => HasTask(d)
    BY <1>3 DEF HasTask, pool
  <2> QED
    BY <1>0, <1>3, <2>1, NoNewTask DEF pool
<1>4. ASSUME NEW r \in Runners, NEW next, pc[r] # "none", next \notin {"none", "asleep"}, RunTaskEnd(r, next)
      PROVE  SleepersOK'
  <2> PICK c \in Clients, k \in 1..MaxTasks :
        /\ task' = [task EXCEPT ![c] = 0]
        /\ pc' = [WorkComplete(pc, c) EXCEPT ![r] = next]
        /\ UNCHANGED <<pool, tasks>>
    BY <1>4 DEF RunTaskEnd
  <2>1. \A d \in Clients : HasTask(d)' => HasTask(d)
    BY <1>0 DEF HasTask, pool
  <2> DEFINE woken == WorkComplete(pc, c)
  <2>2. woken \in [Runners -> PC] /\ \A h \in Helpers : woken[h] = pc[h]
    BY WakeOwners DEF IInv, Types
  <2>3. pc' = [woken EXCEPT ![r] = next]
    OBVIOUS
  <2> HIDE DEF woken
  <2>4. \A h \in Helpers : pc'[h] = pc[h] \/ (h = r /\ pc'[h] = next)
    BY <1>0, <2>2, <2>3
  <2> QED
    BY <1>4, <2>1, <2>4, NoNewTask DEF pool
<1>5. ASSUME NEW c \in Clients, ClientDoSomeHelping(c) \/ PoolDoSomeHelping(c) PROVE SleepersOK'
  BY <1>0, <1>3, <1>5 DEF ClientDoSomeHelping, PoolDoSomeHelping
<1>6. ASSUME NEW c \in Clients, ClientHelped(c) \/ PoolHelped(c) PROVE SleepersOK'
  BY <1>0, <1>4, <1>6 DEF ClientHelped, PoolHelped
<1>7. ASSUME NEW c \in Clients, Finish(c) \/ ClientDestroy(c) PROVE SleepersOK'
  <2>1. task' = [task EXCEPT ![c] = 0] /\ clients' \subseteq clients /\ numThreads' = numThreads
    BY <1>7 DEF Finish, ClientDestroy, pool
  <2>2. \A d \in Clients : HasTask(d)' => HasTask(d)
    BY <1>0, <2>1 DEF HasTask
  <2>3. \A h \in Helpers : pc'[h] = pc[h]
    BY <1>0, <1>7 DEF Finish, ClientDestroy
  <2> QED
    BY <2>1, <2>2, <2>3, NoNewTask
<1>8. ASSUME NEW n \in 0..MaxThreads, EnsureThreads(n) PROVE SleepersOK'
  <2>1. \A h \in Helpers : pc[h] # "none" => h \in 1..n
    BY <1>0, <1>8 DEF EnsureThreads, SleepersOK
  <2>2. CASE \E c \in Clients : HasTask(c)
    BY <1>0, <1>8, <2>1, <2>2, AllToldOfTask DEF EnsureThreads
  <2>3. CASE \A c \in Clients : ~HasTask(c)
    <3>1. numThreads' = n /\ pc' = pc /\ \A c \in Clients : ~HasTask(c)'
      BY <1>8, <2>3 DEF EnsureThreads, HasTask
    <3> QED
      BY <2>1, <3>1 DEF SleepersOK, NoSleepThroughTask
  <2> QED
    BY <2>2, <2>3
<1>9. CASE PoolDestroy
  <2>1. UNCHANGED <<clients, task, numThreads>> /\ \A h \in Helpers : pc'[h] = pc[h] \/ (pc[h] = "asleep" /\ pc'[h] = "looking")
    BY <1>0, <1>9 DEF PoolDestroy
  <2>2. \A d \in Clients : HasTask(d)' => HasTask(d)
    BY <2>1 DEF HasTask
  <2> QED
    BY <2>1, <2>2, NoNewTask
<1>10. ASSUME NEW h \in Helpers, HelperClaim(h) \/ HelperExit(h) PROVE SleepersOK'
  BY <1>0, <1>3, <1>10 DEF HelperClaim, HelperExit
<1>11. ASSUME NEW h \in Helpers, HelperSleep(h) PROVE SleepersOK'
  <2>1. UNCHANGED <<clients, task, numThreads>> /\ pc[h] = "looking" /\ \A c \in Clients : ~HasTask(c)
    BY <1>11 DEF HelperSleep, pool
  <2>2. \A d \in Clients : HasTask(d)' => HasTask(d)
    BY <2>1 DEF HasTask
  <2>3. \A g \in Helpers : pc'[g] = pc[g] \/ g = h
    BY <1>0, <1>11 DEF HelperSleep
  <2> QED
    BY <2>1, <2>2, <2>3, NoNewTask
<1>12. ASSUME NEW h \in Helpers, HelperDone(h) PROVE SleepersOK'
  BY <1>0, <1>4, <1>12 DEF HelperDone
<1>13. CASE UNCHANGED vars
  BY <1>13, NoNewTask DEF vars, pool, HasTask
<1> QED
  BY <1>1, <1>2, <1>5, <1>6, <1>7, <1>8, <1>9, <1>10, <1>11, <1>12, <1>13
     DEF Next, Helper, Call, Run, Terminated

\* No thread of the pool sleeps while some client has a task for it.
THEOREM NoSleepThroughTaskAlways == Spec => []NoSleepThroughTask
<1>1. Init => SleepersOK
  BY DEF Init, SleepersOK, NoSleepThroughTask, Runners
<1>2. SleepersOK => NoSleepThroughTask
  BY DEF SleepersOK
<1> QED
  BY <1>1, <1>2, IInvAlways, SleepersStep, PTL DEF Spec

-----------------------------------------------------------------------------
(***************************************************************************)
(* Refinement of ParallelTask.                                             *)
(***************************************************************************)
\* What the clients see, by name.
Offered == [c \in Clients |-> HasTask(c)]
InsideOf == [c \in Clients |-> Inside(c)]

\* A thread that claims a task enters, and one that returns leaves.
LEMMA ClaimEnters ==
  ASSUME IInv, NEW r \in Runners, NEW c \in Clients, pc[r] \notin Running, ClaimTask(r, c),
         UNCHANGED <<clients, task>>
  PROVE  Abstract!Enter(c, r)
<1>1. /\ \A d \in Clients : r \notin Inside(d)
      /\ Inside(c)' = Inside(c) \cup {r}
      /\ \A d \in Clients : d # c => Inside(d)' = Inside(d)
  BY ClaimCounts
<1>2. Offered[c] /\ \A d \in Clients : r \notin InsideOf[d]
  BY <1>1 DEF Offered, InsideOf, ClaimTask
<1>3. InsideOf' = [InsideOf EXCEPT ![c] = @ \cup {r}]
  BY <1>1 DEF InsideOf
<1>4. Offered' = Offered
  BY DEF Offered, HasTask
<1> QED
  BY <1>2, <1>3, <1>4 DEF Abstract!Enter, Offered, InsideOf

LEMMA ReturnLeaves ==
  ASSUME IInv, NEW r \in Runners, NEW next, RunTaskEnd(r, next)
  PROVE  \E c \in Clients : Abstract!Leave(c, r)
<1> PICK c \in Clients, k \in 1..MaxTasks :
      /\ claimed[r] = {<<c, k>>}
      /\ claimed' = [claimed EXCEPT ![r] = {}]
      /\ task' = [task EXCEPT ![c] = 0]
      /\ numActive' = [numActive EXCEPT ![c] = @ - 1]
      /\ UNCHANGED <<pool, tasks>>
  BY DEF RunTaskEnd
<1>1. /\ r \in Inside(c)
      /\ Inside(c)' = Inside(c) \ {r}
      /\ \A d \in Clients : d # c => Inside(d)' = Inside(d)
  BY ReturnCounts
<1>2. r \in InsideOf[c] /\ InsideOf' = [InsideOf EXCEPT ![c] = @ \ {r}]
  BY <1>1 DEF InsideOf
<1>3. Offered' = [Offered EXCEPT ![c] = FALSE]
  BY DEF Offered, HasTask, pool, IInv, Types
<1>4. Abstract!Leave(c, r)
  BY <1>2, <1>3 DEF Abstract!Leave, Offered, InsideOf
<1> QED
  BY <1>4

\* A step that takes the task of c away, and one that changes nothing clients see.
LEMMA ClearWithdraws ==
  ASSUME IInv, NEW c \in Clients, UNCHANGED <<claimed, numActive>>,
         task' = [task EXCEPT ![c] = 0], clients' \in {clients, clients \ {c}}
  PROVE  Abstract!Withdraw(c)
<1>1. InsideOf' = InsideOf
  BY DEF InsideOf, Inside
<1>2. Offered' = [Offered EXCEPT ![c] = FALSE]
  BY DEF Offered, HasTask, IInv, Types
<1> QED
  BY <1>1, <1>2 DEF Abstract!Withdraw, Offered, InsideOf

LEMMA StepRefines == IInv /\ [Next]_vars => [Abstract!Next]_<<Offered, InsideOf>>
<1> SUFFICES ASSUME IInv, [Next]_vars PROVE Abstract!Next \/ UNCHANGED <<Offered, InsideOf>>
  OBVIOUS
<1>0. (\A h \in Helpers : h \in Runners) /\ \A c \in Clients : c \in Runners
  BY DEF Runners
<1>1. ASSUME NEW c \in Clients, ClientCreate(c) PROVE UNCHANGED <<Offered, InsideOf>>
  <2>1. task[c] = 0
    BY <1>1 DEF ClientCreate, IInv, AtRest
  <2> QED
    BY <1>1, <2>1 DEF ClientCreate, Offered, InsideOf, HasTask, Inside
<1>2. ASSUME NEW c \in Clients, SetTask(c) PROVE Abstract!Offer(c)
  <2>1. pc[c] = "idle" /\ task[c] = 0 /\ Inside(c) = {} /\ c \in clients
    BY <1>2 DEF SetTask, IInv, AtRest, ClientsExist
  <2>2. task' = [task EXCEPT ![c] = tasks[c] + 1] /\ tasks[c] \in Nat /\ UNCHANGED <<clients, claimed>>
    BY <1>2 DEF SetTask, pool, IInv, Types
  <2>3. InsideOf' = InsideOf /\ InsideOf[c] = {}
    BY <2>1, <2>2 DEF InsideOf, Inside
  <2>4. Offered' = [Offered EXCEPT ![c] = TRUE] /\ ~Offered[c]
    <3>1. task'[c] # 0 /\ \A d \in Clients : d # c => task'[d] = task[d]
      BY <2>2 DEF IInv, Types
    <3>2. HasTask(c)' /\ ~HasTask(c) /\ \A d \in Clients : d # c => (HasTask(d)' <=> HasTask(d))
      BY <2>1, <2>2, <3>1 DEF HasTask
    <3>3. \A d \in Clients : HasTask(d) \in BOOLEAN /\ HasTask(d)' \in BOOLEAN
      BY DEF HasTask
    <3> QED
      BY <3>2, <3>3, Zenon DEF Offered
  <2> QED
    BY <2>3, <2>4 DEF Abstract!Offer, Offered, InsideOf
<1>3. ASSUME NEW c \in Clients, ClientDoSomeHelping(c)
      PROVE  Abstract!Enter(c, c) \/ UNCHANGED <<Offered, InsideOf>>
  <2>1. CASE HasTask(c)
    BY <1>0, <1>3, <2>1, ClaimEnters DEF ClientDoSomeHelping, Running, pool
  <2>2. CASE ~HasTask(c)
    BY <1>3, <2>2 DEF ClientDoSomeHelping, Offered, InsideOf, HasTask, Inside, pool
  <2> QED
    BY <2>1, <2>2
<1>4. ASSUME NEW c \in Clients, ClientHelped(c) \/ PoolHelped(c) PROVE Abstract!Next
  BY <1>0, <1>4, ReturnLeaves DEF ClientHelped, PoolHelped, Abstract!Next
<1>5. ASSUME NEW c \in Clients, PoolDoSomeHelping(c) PROVE Abstract!Next
  BY <1>0, <1>5, ClaimEnters DEF PoolDoSomeHelping, Running, pool, Abstract!Next
<1>6. ASSUME NEW c \in Clients, Finish(c) PROVE Abstract!Withdraw(c)
  BY <1>6, ClearWithdraws DEF Finish, pool
<1>7. ASSUME NEW c \in Clients, ClientDestroy(c) PROVE Abstract!Withdraw(c)
  BY <1>7, ClearWithdraws DEF ClientDestroy
<1>8. ASSUME NEW n \in 0..MaxThreads, EnsureThreads(n) PROVE UNCHANGED <<Offered, InsideOf>>
  BY <1>8 DEF EnsureThreads, Offered, InsideOf, HasTask, Inside
<1>9. ASSUME PoolDestroy PROVE UNCHANGED <<Offered, InsideOf>>
  BY <1>9 DEF PoolDestroy, Offered, InsideOf, HasTask, Inside
<1>10. ASSUME NEW h \in Helpers, HelperClaim(h) PROVE Abstract!Next
  BY <1>0, <1>10, ClaimEnters DEF HelperClaim, Running, pool, Abstract!Next
<1>11. ASSUME NEW h \in Helpers, HelperSleep(h) \/ HelperExit(h) PROVE UNCHANGED <<Offered, InsideOf>>
  BY <1>11 DEF HelperSleep, HelperExit, Offered, InsideOf, HasTask, Inside, pool
<1>12. ASSUME NEW h \in Helpers, HelperDone(h) PROVE Abstract!Next
  BY <1>0, <1>12, ReturnLeaves DEF HelperDone, Abstract!Next
<1>13. ASSUME UNCHANGED vars PROVE UNCHANGED <<Offered, InsideOf>>
  BY <1>13 DEF vars, pool, Offered, InsideOf, HasTask, Inside
<1>14. ASSUME NEW c \in Clients, Abstract!Offer(c) \/ Abstract!Withdraw(c) \/ Abstract!Enter(c, c)
       PROVE  Abstract!Next
  BY <1>0, <1>14 DEF Abstract!Next
<1> QED
  BY <1>1, <1>2, <1>3, <1>4, <1>5, <1>6, <1>7, <1>8, <1>9, <1>10, <1>11, <1>12, <1>13, <1>14
     DEF Next, Helper, Call, Run, Terminated

\* The pool implements ParallelTask for any clients, threads and tasks.
THEOREM PoolImplementsParallelTask == Spec => ImplementsParallelTask
<1>1. Init => Abstract!Init
  BY DEF Init, Abstract!Init, HasTask, Inside
<1> QED
  BY <1>1, IInvAlways, StepRefines, PTL DEF Spec, ImplementsParallelTask, Abstract!Spec, Offered, InsideOf
=============================================================================
