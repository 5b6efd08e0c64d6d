------------------------------- MODULE JSLock -------------------------------
(***************************************************************************)
(* JSC::JSLock (runtime/JSLock.cpp): the recursive lock of a VM.  A thread *)
(* enters the VM with a JSLockHolder, and gives all its locks back while a *)
(* DropAllLocks is in scope; threads that dropped the lock take it back in *)
(* the reverse order.  Taking and releasing the lock also hand over what   *)
(* the VM knows of the thread inside: the stack pointer at entry, the last *)
(* stack top, and the thread's current AtomicStringTable.                  *)
(*                                                                         *)
(* The objects a thread has in scope are the frames of its stack, with the *)
(* calls of unlock() that have not returned: willReleaseLock() runs        *)
(* microtasks and releases objects, and either may use the lock again.     *)
(* m_lock is a Mutex.  What is done between taking and releasing it, or    *)
(* reads only m_ownerThreadID, is one action.  Addresses on one stack are  *)
(* not told apart: a stack pointer is the thread on whose stack it is.     *)
(***************************************************************************)
EXTENDS Naturals, Sequences, SequencesExt, FiniteSets

CONSTANTS Threads,    \* the threads that use the VM
          NoThread,   \* the null stack pointer, and the owner of a free lock
          OwnTable,   \* the AtomicStringTable of an API client's VM
          NoTable,    \* the null AtomicStringTable
          MaxScopes   \* how many scopes each thread opens (a bound of the model)

ASSUME JSLockAssumption ==
  /\ NoThread \notin Threads
  /\ OwnTable \notin Threads /\ NoTable \notin Threads \cup {OwnTable}
  /\ MaxScopes \in [Threads -> Nat]

VARIABLES
  mutex,                \* the owner of m_lock
  ownerThreadID,        \* m_ownerThreadID
  lockCount,            \* m_lockCount
  lockDropDepth,        \* m_lockDropDepth
  hasExclusiveThread,   \* m_hasExclusiveThread
  entryTable,           \* m_entryAtomicStringTable
  vmTable,              \* VM::m_atomicStringTable
  stackPointer,         \* VM::m_stackPointerAtVMEntry
  lastStackTop,         \* VM::m_lastStackTop
  delayedReleases,      \* Heap::m_delayedReleaseRecursionCount
  registered,           \* the threads of Heap::machineThreads()
  savedStackPointer,    \* WTFThreadData::m_savedStackPointerAtVMEntry
  savedLastStackTop,    \* WTFThreadData::m_savedLastStackTop
  table,                \* WTFThreadData::m_currentAtomicStringTable
  frames,               \* what each thread has in scope, the innermost last
  pc,                   \* where each thread is: in its own code, or in lock()
  scopes                \* how many scopes each thread has opened

lock    == <<mutex, ownerThreadID, lockCount, lockDropDepth, hasExclusiveThread, entryTable>>
vm      == <<vmTable, stackPointer, lastStackTop, delayedReleases, registered>>
threads == <<savedStackPointer, savedLastStackTop, table, frames, pc, scopes>>
vars    == <<lock, vm, threads>>

Holder == [kind |-> "JSLockHolder"]
Dropped(count, depth) == [kind |-> "DropAllLocks", count |-> count, depth |-> depth]
Unlocking(count, caller) ==
  [kind |-> "unlock", count |-> count, caller |-> caller, step |-> "drainMicrotasks"]

IsKind(t, kind) == frames[t] # <<>> /\ Last(frames[t]).kind = kind

(***************************************************************************)
(* The VM of an API client has its own table and any thread may use it.    *)
(* The common VM of WebCore uses the table of the thread that made it, its *)
(* exclusive thread: setExclusiveThread().                                 *)
(***************************************************************************)
SetExclusiveThread ==
  /\ ownerThreadID \in Threads \cup {NoThread}
  /\ hasExclusiveThread = (ownerThreadID # NoThread)

Init ==
  /\ mutex = NoThread /\ lockCount = 0 /\ lockDropDepth = 0
  /\ SetExclusiveThread
  /\ vmTable = (IF hasExclusiveThread THEN ownerThreadID ELSE OwnTable)
  /\ entryTable = NoTable
  /\ stackPointer = NoThread /\ lastStackTop = NoThread
  /\ delayedReleases = 0 /\ registered = {}
  /\ savedStackPointer = [t \in Threads |-> NoThread]
  /\ savedLastStackTop = [t \in Threads |-> t]
  /\ table = [t \in Threads |-> t]
  /\ frames = [t \in Threads |-> <<>>]
  /\ pc = [t \in Threads |-> "run"]
  /\ scopes = [t \in Threads |-> 0]

\* currentThreadIsHoldingLock().
CurrentThreadIsHoldingLock(t) ==
  IF hasExclusiveThread THEN lockCount # 0 ELSE ownerThreadID = t

-----------------------------------------------------------------------------
(***************************************************************************)
(* lock(lockCount) of a thread that does not hold the lock, from the       *)
(* moment it has m_lock, with didAcquireLock().                            *)
(***************************************************************************)
DidAcquireLock(t) ==
  /\ stackPointer' = t
  /\ lastStackTop' = savedLastStackTop[t]
  /\ entryTable' = table[t]
  /\ table' = [table EXCEPT ![t] = vmTable]
  /\ registered' = registered \cup {t}

\* Fault: a thread that takes its locks back takes one.
CountToLockOne(t) == 1

CountToLock(t) == IF pc[t] = "grab" THEN Last(frames[t]).count ELSE 1

Lock(t) ==
  /\ pc[t] \in {"lock", "grab"}
  /\ mutex = NoThread
  /\ mutex' = t
  /\ ownerThreadID' = t
  /\ lockCount' = CountToLock(t)
  /\ DidAcquireLock(t)
  /\ pc' = [pc EXCEPT ![t] = IF pc[t] = "grab" THEN "checkDepth" ELSE "run"]
  /\ UNCHANGED <<lockDropDepth, hasExclusiveThread, vmTable, delayedReleases, savedStackPointer,
                 savedLastStackTop, frames, scopes>>

(***************************************************************************)
(* A thread may open a scope in its own code, in a microtask, and, with    *)
(* DropAllLocks only, where releaseDelayedReleasedObjects() does.  It does *)
(* not use the VM of another, exclusive thread.                            *)
(***************************************************************************)
MayOpenScope(t) ==
  /\ pc[t] = "run" /\ scopes[t] < MaxScopes[t]
  /\ scopes' = [scopes EXCEPT ![t] = @ + 1]
  /\ hasExclusiveThread => ownerThreadID = t

InUserCode(t) == IsKind(t, "unlock") => Last(frames[t]).step = "drainMicrotasks"

\* JSLockHolder(vm), and lock(1) up to m_lock.
ConstructJSLockHolder(t) ==
  /\ MayOpenScope(t) /\ InUserCode(t)
  /\ frames' = [frames EXCEPT ![t] = Append(@, Holder)]
  /\ \/ /\ CurrentThreadIsHoldingLock(t)
        /\ lockCount' = lockCount + 1
        /\ UNCHANGED <<entryTable, stackPointer, lastStackTop, registered, table, pc>>
     \/ /\ ~CurrentThreadIsHoldingLock(t) /\ hasExclusiveThread
        /\ lockCount' = 1
        /\ DidAcquireLock(t)
        /\ UNCHANGED pc
     \/ /\ ~CurrentThreadIsHoldingLock(t) /\ ~hasExclusiveThread
        /\ pc' = [pc EXCEPT ![t] = "lock"]
        /\ UNCHANGED <<lockCount, entryTable, stackPointer, lastStackTop, registered, table>>
  /\ UNCHANGED <<mutex, ownerThreadID, lockDropDepth, hasExclusiveThread, vmTable, delayedReleases,
                 savedStackPointer, savedLastStackTop>>

\* ~JSLockHolder(): unlock(1), which calls willReleaseLock() for the last lock.
DestroyJSLockHolder(t) ==
  /\ pc[t] = "run" /\ IsKind(t, "JSLockHolder")
  /\ IF lockCount = 1
       THEN /\ frames' = [frames EXCEPT ![t] = Append(@, Unlocking(1, "JSLockHolder"))]
            /\ UNCHANGED lockCount
       ELSE /\ frames' = [frames EXCEPT ![t] = Front(@)]
            /\ lockCount' = lockCount - 1
  /\ UNCHANGED <<mutex, ownerThreadID, lockDropDepth, hasExclusiveThread, entryTable, vm,
                 savedStackPointer, savedLastStackTop, table, pc, scopes>>

-----------------------------------------------------------------------------
\* Fault: the depth is stashed away before it is incremented.
DropDepthBefore == lockDropDepth

\* dropper->setDropDepth(m_lockDropDepth), after the increment.
DropDepth == lockDropDepth + 1

\* The constructor of DropAllLocks, before dropAllLocks(): the thread's own table.
ResetCurrentAtomicStringTable(t) == table' = [table EXCEPT ![t] = t]

\* DropAllLocks(vm), and dropAllLocks() with its unlock(m_lockCount).
ConstructDropAllLocks(t) ==
  /\ MayOpenScope(t)
  /\ IsKind(t, "unlock") => Last(frames[t]).step \in {"drainMicrotasks", "release"}
  /\ ResetCurrentAtomicStringTable(t)
  /\ IF hasExclusiveThread \/ ~CurrentThreadIsHoldingLock(t)
       THEN /\ frames' = [frames EXCEPT ![t] = Append(@, Dropped(0, 0))]
            /\ UNCHANGED <<lockDropDepth, savedStackPointer, savedLastStackTop>>
       ELSE /\ lockDropDepth' = lockDropDepth + 1
            /\ frames' = [frames EXCEPT ![t] =
                 @ \o <<Dropped(lockCount, DropDepth), Unlocking(lockCount, "dropAllLocks")>>]
            /\ savedStackPointer' = [savedStackPointer EXCEPT ![t] = stackPointer]
            /\ savedLastStackTop' = [savedLastStackTop EXCEPT ![t] = lastStackTop]
  /\ UNCHANGED <<mutex, ownerThreadID, lockCount, hasExclusiveThread, entryTable, vm, pc>>

\* ~DropAllLocks(), up to the m_lock of grabAllLocks().
DestroyDropAllLocks(t) ==
  /\ pc[t] = "run" /\ IsKind(t, "DropAllLocks")
  /\ IF Last(frames[t]).count = 0
       THEN /\ table' = [table EXCEPT ![t] = vmTable]
            /\ frames' = [frames EXCEPT ![t] = Front(@)]
            /\ UNCHANGED pc
       ELSE /\ pc' = [pc EXCEPT ![t] = "grab"]
            /\ UNCHANGED <<table, frames>>
  /\ UNCHANGED <<lock, vm, savedStackPointer, savedLastStackTop, scopes>>

\* Fault: the locks are taken back in any order.
MayGrabAlways(t) == TRUE

MayGrab(t) == Last(frames[t]).depth = lockDropDepth

\* The loop of grabAllLocks(): it is not this thread's turn.
GrabAllLocksRetry(t) ==
  /\ pc[t] = "checkDepth" /\ ~MayGrab(t)
  /\ pc' = [pc EXCEPT ![t] = "run"]
  /\ frames' = [frames EXCEPT ![t] = Append(@, Unlocking(Last(@).count, "grabAllLocks"))]
  /\ UNCHANGED <<lock, vm, savedStackPointer, savedLastStackTop, table, scopes>>

\* The rest of grabAllLocks() and of ~DropAllLocks().
GrabAllLocks(t) ==
  /\ pc[t] = "checkDepth" /\ MayGrab(t)
  /\ pc' = [pc EXCEPT ![t] = "run"]
  /\ lockDropDepth' = lockDropDepth - 1
  /\ stackPointer' = savedStackPointer[t]
  /\ lastStackTop' = savedLastStackTop[t]
  /\ table' = [table EXCEPT ![t] = vmTable]
  /\ frames' = [frames EXCEPT ![t] = Front(@)]
  /\ UNCHANGED <<mutex, ownerThreadID, lockCount, hasExclusiveThread, entryTable, vmTable,
                 delayedReleases, registered, savedStackPointer, savedLastStackTop, scopes>>

-----------------------------------------------------------------------------
(***************************************************************************)
(* unlock() when all locks go: willReleaseLock() has drained the           *)
(* microtasks and enters releaseDelayedReleasedObjects(); only the         *)
(* outermost call of it, of all threads, releases objects.                 *)
(***************************************************************************)
ReleaseDelayedReleasedObjects(t) ==
  /\ pc[t] = "run" /\ IsKind(t, "unlock") /\ Last(frames[t]).step = "drainMicrotasks"
  /\ delayedReleases' = delayedReleases + 1
  /\ frames' = [frames EXCEPT ![t][Len(frames[t])].step =
                  IF delayedReleases = 0 THEN "release" ELSE "return"]
  /\ UNCHANGED <<lock, vmTable, stackPointer, lastStackTop, registered, savedStackPointer,
                 savedLastStackTop, table, pc, scopes>>

\* Fault: the VM keeps the stack pointer at entry of the thread that leaves.
ClearEntryKeepsStackPointer(t) ==
  /\ entryTable' = NoTable
  /\ table' = IF entryTable = NoTable THEN table ELSE [table EXCEPT ![t] = entryTable]
  /\ UNCHANGED stackPointer

\* The end of willReleaseLock().
ClearEntry(t) ==
  /\ stackPointer' = NoThread
  /\ entryTable' = NoTable
  /\ table' = IF entryTable = NoTable THEN table ELSE [table EXCEPT ![t] = entryTable]

\* The rest of unlock(), and the return to its caller.
Unlock(t) ==
  LET frame == Last(frames[t]) IN
  /\ pc[t] = "run" /\ IsKind(t, "unlock") /\ frame.step \in {"release", "return"}
  /\ delayedReleases' = delayedReleases - 1
  /\ ClearEntry(t)
  /\ lockCount' = lockCount - frame.count
  /\ IF lockCount = frame.count /\ ~hasExclusiveThread
       THEN ownerThreadID' = NoThread /\ mutex' = NoThread
       ELSE UNCHANGED <<ownerThreadID, mutex>>
  /\ frames' = [frames EXCEPT ![t] =
                  IF frame.caller = "JSLockHolder" THEN Front(Front(@)) ELSE Front(@)]
  /\ pc' = [pc EXCEPT ![t] = IF frame.caller = "grabAllLocks" THEN "grab" ELSE "run"]
  /\ UNCHANGED <<lockDropDepth, hasExclusiveThread, vmTable, lastStackTop, registered,
                 savedStackPointer, savedLastStackTop, scopes>>

-----------------------------------------------------------------------------
\* What a thread has to do to leave the scopes it is in.
Leave(t) ==
  \/ DestroyJSLockHolder(t) \/ DestroyDropAllLocks(t)
  \/ GrabAllLocksRetry(t) \/ GrabAllLocks(t)
  \/ ReleaseDelayedReleasedObjects(t) \/ Unlock(t)

\* Everybody is done.
Terminated ==
  /\ \A t \in Threads : frames[t] = <<>>
  /\ UNCHANGED vars

Next ==
  \/ \E t \in Threads : ConstructJSLockHolder(t) \/ ConstructDropAllLocks(t) \/ Lock(t) \/ Leave(t)
  \/ Terminated

Spec == Init /\ [][Next]_vars

(***************************************************************************)
(* Scopes end, and a free m_lock that threads try to take is taken by one  *)
(* of them.  No single thread is promised anything: WTF::Lock allows       *)
(* barging, so a thread may be overtaken for ever.                         *)
(***************************************************************************)
FairSpec ==
  /\ Spec
  /\ \A t \in Threads : WF_vars(Leave(t))
  /\ WF_vars(\E t \in Threads : Lock(t))

-----------------------------------------------------------------------------
Kinds(t, kind) == {i \in DOMAIN frames[t] : frames[t][i].kind = kind}

TypeOK ==
  /\ mutex \in Threads \cup {NoThread} /\ ownerThreadID \in Threads \cup {NoThread}
  /\ lockCount \in Nat /\ lockDropDepth \in Nat /\ delayedReleases \in Nat
  /\ hasExclusiveThread \in BOOLEAN
  /\ entryTable \in Threads \cup {OwnTable, NoTable} /\ vmTable \in Threads \cup {OwnTable}
  /\ stackPointer \in Threads \cup {NoThread} /\ lastStackTop \in Threads \cup {NoThread}
  /\ registered \subseteq Threads
  /\ savedStackPointer \in [Threads -> Threads \cup {NoThread}]
  /\ savedLastStackTop \in [Threads -> Threads \cup {NoThread}]
  /\ table \in [Threads -> Threads \cup {OwnTable}]
  /\ pc \in [Threads -> {"run", "lock", "grab", "checkDepth"}]
  /\ \A t \in Threads : scopes[t] \in 0..MaxScopes[t]

\* The DropAllLocks of t that dropped locks, by their index.
Drops(t) == {i \in Kinds(t, "DropAllLocks") : frames[t][i].count > 0}

(***************************************************************************)
(* "Re-grabbing must occur in the reverse order of the dropping of the     *)
(* locks": the drops that are still to be undone, of all threads, have the *)
(* depths 1 to m_lockDropDepth, each once.  So one of them is always next. *)
(***************************************************************************)
DropsAreOrdered ==
  LET drops == UNION {{<<t, i>> : i \in Drops(t)} : t \in Threads}
      Depth(d) == frames[d[1]][d[2]].depth
  IN  /\ {Depth(d) : d \in drops} = 1..lockDropDepth
      /\ Cardinality(drops) = lockDropDepth

\* The drops that are in effect: t is neither about to give the locks up nor has them back.
InEffect(t) == {i \in Drops(t) : IF i = Len(frames[t]) THEN pc[t] # "checkDepth"
                                                        ELSE frames[t][i + 1].kind # "unlock"}

(***************************************************************************)
(* "reacquire the right number of locks at the end": the thread inside     *)
(* owns m_lock, and m_lockCount is the number of the JSLockHolders that it *)
(* has in scope and that no DropAllLocks took from it, whatever dropped    *)
(* and took back the lock in between.                                      *)
(***************************************************************************)
LocksMatchScopes ==
  \A t \in Threads : CurrentThreadIsHoldingLock(t) /\ (hasExclusiveThread => ownerThreadID = t) =>
    /\ ~hasExclusiveThread => mutex = t
    /\ lockCount = Cardinality({i \in Kinds(t, "JSLockHolder") : \A j \in InEffect(t) : j < i})

(***************************************************************************)
(* What the VM knows of the stack of the thread inside is about that       *)
(* thread, and nothing is left of a thread when the lock is free: the      *)
(* assertions of didAcquireLock(), and what sanitizeStackForVM() and the   *)
(* conservative scan rely on.                                              *)
(***************************************************************************)
EntryIsOfThreadInside ==
  /\ lockCount = 0 => stackPointer = NoThread /\ entryTable = NoTable
  /\ lockCount > 0 => /\ stackPointer = ownerThreadID /\ lastStackTop = ownerThreadID
                      /\ ownerThreadID \in registered

\* t runs a program in the VM: the code in a JSLockHolder, or microtasks that unlock() drains.
RunsInVM(t) ==
  /\ pc[t] = "run"
  /\ \/ IsKind(t, "JSLockHolder")
     \/ IsKind(t, "unlock") /\ Last(frames[t]).step = "drainMicrotasks"

(***************************************************************************)
(* The assertion of Identifier::checkCurrentAtomicStringTable(): a thread  *)
(* that runs in the VM has the VM's AtomicStringTable as its current one.  *)
(* It fails: DropAllLocks makes the thread's own table current before      *)
(* unlock() drains the microtasks.                                         *)
(***************************************************************************)
TableIsTheVMs == \A t \in Threads : RunsInVM(t) => table[t] = vmTable

(***************************************************************************)
(* That is the only way it fails: a thread runs in the VM with another     *)
(* table only while an unlock() of its dropAllLocks() has not returned.    *)
(***************************************************************************)
TableWrongOnlyInDrop ==
  \A t \in Threads : RunsInVM(t) /\ table[t] # vmTable =>
    \E i \in Kinds(t, "unlock") : frames[t][i].caller = "dropAllLocks"

\* t waits in m_lock.lock() for ever, while another thread takes m_lock in grabAllLocks() again and again.
Overtaken(t) ==
  /\ <>[](pc[t] \in {"lock", "grab"})
  /\ \E u \in Threads \ {t} : []<>(pc[u] = "checkDepth")

(***************************************************************************)
(* grabAllLocks() gets stuck in its loop only when m_lock starves someone: *)
(* every scope ends, or a thread is overtaken for ever by one that spins.  *)
(* No thread waits for a turn that does not come.                          *)
(***************************************************************************)
EveryScopeEnds == (\A t \in Threads : []<>(frames[t] = <<>>)) \/ (\E t \in Threads : Overtaken(t))
=============================================================================
