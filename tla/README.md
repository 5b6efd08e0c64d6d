# TLA+ models of JavaScriptCore's concurrency and collection substrate

JavaScriptCore (JSC) runs JavaScript on one thread per VM, and shares that VM's
heap with compiler threads and parallel marking threads. What keeps this safe is
a small stack of hand-written synchronization code in `src/WTF/wtf`, and the
protocols that `src/JavaScriptCore/dfg` and `src/JavaScriptCore/heap` build on
it. This directory models that stack from the bottom up, model-checks each layer
with TLC and proves the central facts of all nine detailed modules with TLAPS, for any
number of threads, cells or scopes: every invariant that a run checks is a theorem.

The tree also holds WebCore, WebKit, WebKit2, the inspector's user interface and
vendored libraries. The engine does not depend on them, and nothing here models them.

## 1. Inventory

### Locks and parking (`src/WTF/wtf`)

| component | state | operations | what is hard |
|---|---|---|---|
| `WordLock` (WordLock.cpp/.h) | one word: locked bit, queue-locked bit, pointer to the queue's head; a stack-allocated `ThreadData` per waiting thread | `lock`, `unlock` and their slow paths | the queue is protected by a bit of the same word it lives in; two plain stores to that word; a thread is dequeued before it sleeps; spurious wake-ups |
| `ParkingLot` (ParkingLot.cpp/.h) | a global hash table of buckets, each with a WordLock and a queue; a `ThreadData` per thread | `parkConditionally`, `unparkOne` (two forms), `unparkAll`, `forEach`, creation and growth of the table | growth while other threads look up buckets; locking all buckets; a timeout racing an unpark; old buckets that are still referenced |
| `Lock` (Lock.cpp/.h) | one byte: `isHeldBit`, `hasParkedBit` | `lock`, `tryLock`, `unlock` | the parked bit and the queue live in different places and change in different steps; barging |
| `Condition` (Condition.h) | one byte: `m_hasWaiters` | `waitUntil`, `wait`, `notifyOne`, `notifyAll` | notifying reads the byte without the lock; `notifyAll` clears it before it unparks; timeouts |
| `ParallelHelperPool` (.cpp/.h) | the pool's clients and threads; per client a task and a count of active threads | `setTask`, `doSomeHelping`, `finish`, construction and destruction of clients and pool | helpers come late and leave late, while the owner finishes, sets another task or goes away |

They interact by calls. A `Lock` or a `Condition` parks on its own address in the
one `ParkingLot`. The buckets of the lot are protected by `WordLock`s, because a
`Lock` would have to park. Everything above uses `Lock` and `Condition`.

### Concurrent compilation (`src/JavaScriptCore/dfg`)

| component | state | operations | what is hard |
|---|---|---|---|
| `DFG::Worklist` | `m_queue`, `m_plans`, `m_readyPlans`, per thread `m_rightToRun` and `m_safepoint`, `m_suspensionLock` | `enqueue`, `runThread`, `waitUntilAllPlansForVMAreReady`, `completeAllReadyPlansForVM`, `removeDeadPlans`, `suspendAllThreads`, `resumeAllThreads`, destruction | two VMs share the threads; a collection may start between any two steps of a compilation |
| `DFG::Plan`, `DFG::Safepoint` | the plan's stage; whether it was cancelled | the stages of `compileInThread`, `cancel`, `Safepoint::begin` | a plan that dies while its thread is at a safepoint |

The mutator enqueues plans and installs ready ones. The heap suspends all
compiler threads for the time of a collection, asks which plans died and cancels
them. Threads give up `m_rightToRun` at safepoints so that the heap need not wait
for a whole compilation.

### The heap (`src/JavaScriptCore/heap`)

| component | state | operations | what is hard |
|---|---|---|---|
| `Heap::collectImpl` | the phase of a collection | suspend, mark, cancel dead plans, sweep, resume | its order against compiler threads |
| parallel marking: `SlotVisitor`, `MarkStackArray`, `Heap::markRoots` | mark bits, a mark stack per visitor and a shared one, opaque roots, three counters and a flag under `m_markingMutex` | `append`, `drain`, `donate`, `drainFromShared`, merging opaque roots, weak handles, harvesters | detecting that everybody is done while visitors donate, steal, and come late |
| `MarkedSpace`, `MarkedAllocator`, `MarkedBlock` | block states, free lists, mark and new-object bits | allocation, stopping and resuming allocation, sweeping | cells handed out since the last sweep have no mark bit |
| write barrier, remembered set | cell states, `m_mutatorMarkStack` | `addToRememberedSet`, flushing `WriteBarrierBuffer` | an eden collection must find every new cell that only an old one refers to |
| `IncrementalSweeper` and timers | a snapshot of blocks | sweeping a slice between other work | the snapshot goes stale |
| `WeakSet`, `WeakBlock` | a state per weak handle | reaping after marking, sweeping with finalizers | a handle may outlive the mark bits its state was decided on |
| `CopiedSpace`, `CopyVisitor` | from- and to-space blocks, loans | parallel copying | blocks on loan under two locks |
| handle sets, code block and stub sets, stack scanning | sets and lists | sequential upkeep within a collection | little concurrency of their own |

### The rest

`JSLock` (`runtime/JSLock.cpp`) is the recursive lock of a VM. Its state is the
owner, a count, the depth of pending drops, and what the VM knows of the thread
inside. Its users are scopes: `JSLockHolder` and `DropAllLocks`. What is hard: the
scopes nest, releasing the last lock runs arbitrary code that opens more of them,
and threads that dropped the lock come back in reverse order.

`Watchpoint` (fired while compiler threads look), `Watchdog` (timers against VM
entry) and `bmalloc` (an asynchronous scavenger) have protocols of their own and
are candidates for later modules. The parser, bytecode generator, compiler
phases, code generators, interpreter, structures and inline caches, regular
expressions, the runtime library, the inspector and the C API are sequential
translations or data structures. They are not modelled: small instances
say little about them. `PROJECT.json` lists every component with its status,
and every hazard at its line.

## 2. Modules

| module | models | built on | implements |
|---|---|---|---|
| `Mutex` | abstract: at most one owner | | |
| `WordLock` | WordLock.cpp, WordLock.h | | `Mutex` |
| `ParkingQueue` | abstract: one queue of threads per address, changed atomically | | |
| `ParkingLot` | ParkingLot.cpp | a bucket's lock is an abstract mutex, as `WordLock` provides | `ParkingQueue` |
| `Lock` | Lock.cpp, Lock.h | parking as `ParkingQueue` specifies it | `Mutex` |
| `Condition` | Condition.h | parking as `ParkingQueue` specifies it, an abstract mutex | |
| `PlanLifecycle` | abstract: the stages one compilation may go through | | |
| `Worklist` | DFGWorklist.cpp, the stages of DFGPlan.cpp, DFGSafepoint.cpp, the collection cycle of Heap.cpp, `~VM` | locks and conditions as above | `PlanLifecycle` |
| `ParallelTask` | abstract: set, join, leave, finish | | |
| `ParallelHelperPool` | ParallelHelperPool.cpp, .h | locks and conditions as above | `ParallelTask` |
| `ParallelMarking` | SlotVisitor.cpp, MarkStack.cpp, `Heap::markRoots` | an instance of `ParallelTask` | |
| `ManagedHeap` | abstract: what the heap promises to a program | | |
| `GenerationalHeap` | MarkedAllocator, MarkedBlock, MarkedSpace, the write barrier, WeakSet, IncrementalSweeper, `Heap::collectImpl` | marking is one step, as `ParallelMarking` justifies | `ManagedHeap` |
| `JSLock` | JSLock.cpp, JSLock.h, `Heap::releaseDelayedReleasedObjects` | an abstract mutex, as `Lock` provides | |

Each layer uses the abstract specification that the layer below is shown to
implement, never its details, so the state spaces do not multiply. `MC*` modules
only fix small instances; `*Proofs` modules hold the theorems.

How to read a module against its source:

* A `pc[t]` value is a place in the code between two accesses to shared state.
  One action is the code from one such place to the next. In code that runs under
  a lock, one action is one critical section. In lock-free code it is one atomic
  access.
* Atomic accesses are sequentially consistent. The code's weak compare-and-swaps
  may fail for no reason, and the condition variables of `WordLock` may wake for
  no reason; the models allow both.
* Where the C++ asserts (`ASSERT`, `RELEASE_ASSERT`) the model does not guard. The
  assertion is a property: `RunTaskAssertions`, `NoCompilingDuringCollection`,
  `CancelPathAssertion`, `UnlockAssertions`, `TableIsTheVMs`, and parts of `BlocksAccountedFor`
  and `EntryIsOfThreadInside`.
* The data is abstract: a plan, task, cell, opaque root or address is a constant.
  A plan has a VM and a key, a cell its children.

### Correspondence in detail

**WordLock.** `word` is a record of the two bits and the queue head. `nextInQueue`,
`queueTail` and `shouldPark` are the fields of each thread's `ThreadData`. `lockSlow` is spinning, loading, locking the queue, enqueuing, the plain
store that releases the queue, and parking; `unlockSlow` is loading, taking the
queue lock, dequeuing with the plain store of the new head, and the two steps of
waking a thread. The number of spins is a constant instead of 40. The yields
between them have no effect on state.

**ParkingLot.** The state has the current hash table, every table that ever was,
the buckets with their queues and locks, and each thread's `ThreadData::address`.
`enqueue` finds a bucket, locks it, checks that the table is still current, and
evaluates the caller's validation under the bucket's lock. Creating a thread may
grow the table: `ensureHashtableSize`, locking every bucket in order, rehashing,
and reusing buckets that no thread was hashed into. Filling the slots of a table, for
`lockHashtable` and for a rehash, and gathering the threads are recursive functions, turn by
turn as the loops are written; `PlaceBuckets` is the last loop of the rehash. Queues are
sequences where the code has linked lists: what `genericDequeue` removes with its
functor is `Those(q, OnAddress(a))`, or the first of them. Bucket numbers stand for
the buckets' addresses, by which `lockHashtable` sorts.

**Lock, Condition.** The byte and the parking queue. `Lock` has the spinning,
parked-bit and re-validation loop of `lockSlow`, and the callback of `unparkOne`
that stores the byte. `Condition` has producers that notify before or after they
unlock, and consumers that wait with a predicate, some with a timeout.

**Worklist.** One worklist stands for the DFG's and the FTL's. A VM runs
JavaScript and calls the worklist, waits, collects, or dies (`VMPC`); a compiler
thread takes a plan, gets the right to run, compiles, is at a safepoint, or makes
its plan ready (`PC`). Which plans died in a collection is a free choice, because
it depends on the mark bits. `m_queue` and `m_readyPlans` are sequences, and the
loops of `removeDeadPlans` and `removeAllReadyPlansForVM` over them are recursive
functions, turn by turn as they are written.

**ParallelHelperPool.** A thread that claims a task increments `numActive` under
the pool's lock and runs it outside. `finish` and the destructor wait for
`numActive` to be zero. Threads are created by `didMakeWorkAvailable` when there is
work and the pool has fewer than it may have.

**ParallelMarking.** A visitor appends, drains, donates, merges opaque roots and
waits in `drainFromShared`. The master also goes through the root sets, the weak
handles and the harvesters, sets `m_parallelMarkersShouldExit`, and finishes the
task. Helpers enter and leave through `ParallelTask`. Mark stacks have one segment.

**GenerationalHeap.** The allocator has its two block lists (sets: in which order
blocks are tried and swept is open), the current block, the
cursor and the free list. A block has the five states of `BlockState` (or is
absent), mark bits, and the bitmap of newly allocated cells. A cell holds an
object, garbage (fresh memory or a link of a free list) or a zapped header; it has
a `CellState`, one slot and at most one weak handle. Calls are cut where the heap
takes its next decision: `allocateSlowCase` is giving up the current block, then
trying block after block (`UseBlock`, `RetireBlock`), collecting, trying again, and
`AddBlock`. A collection is two steps, `StartCollection` (stop allocation, flush or
drop the barrier buffer) and `FinishCollection` (clear, mark, reap, snapshot,
reset). Stack words may keep any live cell: `junk` covers conservative roots as well as
the precise roots and weak handle owners that are not modelled one by one. A
collection starts from the program, from an allocation, or from a timer, so at any
moment between two operations. Free lists are sets: the order in which cells are
handed out is open. Whether a nearly full block is retired is open up to
`MaxFreeToRetire`, because utilization is a ratio of bytes. Slots of dead cells are
set to null, so that states that differ only in them are one. The program
(`roots`, `Store`, `Load`, `Drop`) is the environment.

**JSLock.** The frames of a thread are the scopes it has open and the calls of
`unlock()` that have not returned. Such a call is first draining microtasks, where
anything may be opened, and then releasing objects, where a `DropAllLocks` may be;
`releaseDelayedReleasedObjects` lets only the outermost call of all threads do so. The
initial state chooses between a VM with an exclusive thread and one without. A stack
pointer is known only by its thread.

## 3. Runs

`tlc -config X.cfg M` in this directory, with the pairs of the table. Every run finishes in well under five minutes.

| run | module, cfg | what it shows |
|---|---|---|
| wordlock | MCWordLock, WordLock.cfg | the plain stores lose no update; the queue is a well-formed list that holds exactly the waiting threads; a parked thread is always woken again to contend for the lock; `Mutex` is implemented, so there are no two owners |
| parkinglot | MCParkingLot, ParkingLot.cfg | every parked thread can be found in the current table; a thread is queued only while it is parked; buckets survive growth; no cycle of threads that wait for bucket locks; timeout and unpark agree; `ParkingQueue` is implemented |
| lock | MCLock, Lock.cfg | the parked bit covers the queue; no lost wake-up; `Mutex` is implemented, so there are no two holders |
| condition | MCCondition, Condition.cfg | `m_hasWaiters` covers the waiters; no notification is lost |
| worklist | MCWorklist, Worklist.cfg | no compilation runs while its VM collects; assertions of the cancellation path; every plan is in the right containers once; `PlanLifecycle` is implemented; every enqueued plan becomes ready or is cancelled; a waiting VM goes on |
| helper_pool | MCParallelHelperPool, ParallelHelperPool.cfg | nobody runs the task after `finish`; the assertions of `runTask`; nobody sleeps through a task; `finish` returns; `ParallelTask` is implemented |
| parallel_marking | MCParallelMarking, ParallelMarking.cfg | exactly the live cells are marked, each is visited once; termination is detected and never too early; marking terminates |
| generational_heap | MCGenerationalHeap, GenerationalHeap.cfg | no reference dangles; the remembered set is complete; destructors run on objects only; the blocks are accounted for; weak handles are valid; `ManagedHeap` is implemented |
| jslock | MCJSLock, JSLock.cfg | the pending drops are ordered; the lock count matches the scopes; the entry record is about the stack of the thread inside; every scope ends unless `m_lock` starves a thread |
| parkinglot_stale_unpark, worklist_vm_destroyed, jslock_table | see section 6 | three disagreements between code and comments |

Some facts are proved and not checked by a run: type correctness of `WordLock`,
`ParkingLot`, `Lock`, `ParallelHelperPool` and `JSLock`, `MutualExclusion` of both locks, and
`UnlockAssertions` and `SomeoneWillUnpark` of `Lock`, and `TableWrongOnlyInDrop` of `JSLock`. The runs spend their time on
properties that relate several pieces of state, so the type invariants of the other
modules are stated and are not part of a run.

### Bounds

* *Three threads* for the locks: one owns, one holds the queue lock or is being
  woken, one barges. With two, an unlocking thread and a third that enqueues never
  meet. `SpinLimit = 1` reaches both sides of the spinning test.
* *ParkingLot*: three threads, two addresses and tables of one to three slots, one
  slot per thread, so that each new thread grows the table. The two addresses
  share a bucket in a table of one or three slots and not in one of two, so growth
  separates and joins queues. One thread has a timeout; another unparks and walks.
  A timed thread parks once in the passing run; what happens when it parks again
  is the run `parkinglot_stale_unpark`.
* *Condition*: three consumers, two of them with timeouts, and two producers with
  three items: a notification for several waiters, a timeout that races one, and an
  item produced while everybody is on the way to sleep.
* *Worklist*: two VMs, two compiler threads, one collection per VM and two plans at
  most (`MaxPlans`): one of each VM, or two of the first with the same key. Two VMs
  are needed for collectors that wait for each other, two plans with one key for
  cancelling and enqueuing again.
* *ParallelHelperPool*: two clients, three threads, two tasks each, so that a late
  thread of the first task meets the second.
* *ParallelMarking*: the master and two helpers, nine cells with shared children, a
  cycle, two opaque roots, a weak handle, two harvesters and garbage; two
  collections, so that what the first leaves behind (the count of waiting markers)
  is seen by the second. The merge threshold is 1, so opaque roots are merged both
  early and late.
* *GenerationalHeap*: a block of two cells and one of a single cell, a buffer of one
  cell, one weak handle. Two cells in a block are needed for one that is partly
  handed out, partly dead or retired with a free cell; the second block makes the
  cursor, the lists and the snapshot matter. The number of operations is not
  bounded: the program runs and collects for ever. `Leaves` (cells whose objects
  refer to nothing) and `MaxRoots` bound the graph.
* *JSLock*: one thread opens three scopes and two open two each (`MCMaxScopes`), so
  that a thread can drop the lock again while it gives it up or takes it back, and
  three drops are pending at a time. `jslock_table` needs one thread and two scopes;
  its instance has two threads.

`ParkingLot.cfg`, `ParkingLotStaleUnpark.cfg` and `Condition.cfg` do not check
deadlock: all threads may be done, or parked with nobody left to unpark them, which
is up to the callers. `GenerationalHeap.cfg` does not either: the VM may have been
destroyed, or memory may have run out. In the other modules a stop is either an explicit final
step (`Terminated`) or a deadlock.

### Fairness

* Weak fairness for every thread that is running: the operating system schedules
  it. Critical sections, compilations and tasks end.
* Strong fairness for "some thread's compare-and-swap succeeds", separately for
  locking and unlocking: a weak compare-and-swap may fail spuriously, but not
  for all threads forever. No single thread is promised anything, because
  both locks allow barging; hence no property says that every `lock()` returns,
  only that no wake-up is lost.
* Strong fairness for the end of a compilation: a compilation has finitely
  many safepoints, although the model lets a thread be at one again and again.
* In `JSLock`, weak fairness for leaving scopes, and for "some thread takes `m_lock`
  when it is free and threads want it". `Lock` allows barging (Lock.cpp:51) and
  promises no single thread more, so a thread whose turn it is may be overtaken for
  ever by one that spins in `grabAllLocks`. `EveryScopeEnds` allows exactly that: every
  scope ends, or a thread waits in `m_lock.lock()` for ever while another thread
  takes the lock again and again to look at the depth. It excludes that a thread
  spins for a turn that does not come. Each thread opens finitely many scopes: if
  others entered and dropped the lock for ever, a thread that takes its locks back
  could find a later drop pending each time.
* No fairness for what callers may choose not to do: calling `lock`, enqueuing,
  collecting, producing, helping, timing out, or a helper's arrival at a task.

### Mutants

Each checked property has, next to the definition it is about, a variant of that
definition with a plausible mistake: a dropped re-check, a missing notification, a
wrong decrement, a swapped order. Substituting it for the original makes TLC
report the property as violated. `PROJECT.json` lists them.

## 4. Proofs

`tlapm M.tla` checks each module. The theorems hold for every value of the
constants that the named assumption of each module allows (`ConstantsAssumption`, in
three modules `ConditionAssumption`, `GenerationalHeapAssumption` and `JSLockAssumption`),
in particular for any number of threads. Counting needs finite sets: the clients of the
pool, the helpers and cells of `ParallelMarking`, the cells of `GenerationalHeap` and, for the
types of `ParkingLot` only, its threads are assumed to be finite in number.

* **WordLockProofs**: `TypeCorrect`, `MutualExclusionAlways`, `NoLostUpdateAlways`,
  `WordLockImplementsMutex`, `QueueIntegrityAlways`. Mutual exclusion alone is not
  inductive: the thread that unlocks stores a word it loaded earlier. The invariant adds that each
  bit of the word has exactly one owner among the program counters
  (`BitsMeanOwners`, `QueueExclusion`), and what is known of a loaded value while
  its thread holds the queue lock (`LoadedValues`). `QueueIntegrityAlways` has an
  invariant of its own on top (`QueueInv`): at any time there is a sequence of
  exactly the waiting threads that `nextInQueue` follows, the head's `queueTail` is its
  last element, and its first element is known to the word or, between linking and
  storing, to the thread that holds the queue lock. `QueueNode`, the recursive
  function of the property, exists because this sequence does, and agrees with it by
  an induction over the natural numbers; `SetInduction` derives the rule from
  the well-foundedness of `<`.
* **LockProofs**: `TypeCorrect`, `MutualExclusionAlways`, `ParkedBitAlways`,
  `UnlockAssertionsAlways`, `SomeoneWillUnparkAlways`, `LockImplementsMutex`. The
  invariant relates the held bit to an owner (`HeldMeansOwner`), loaded bytes to
  what a successful compare-and-swap will find (`LoadedFree`), and the queue to
  program counters (`QueueAsleep`, `WakingAsleep`). `SomeoneWillUnpark` is the safety
  core of "no lost wake-up": whenever somebody is parked, there is a thread whose
  next slow path unparks one.
  The module also has `WaitersAreAnnouncedAlways`, about `Condition`, which shares no
  constants or variables with `Lock`; it is inductive together with the type of the
  program counters.
* **ParkingLotProofs**: for any threads, addresses, hash function, load and growth
  factor. Four invariants stand on each other.
  `TablesInv` is about the tables alone: one that was replaced was full and smaller, the
  current one has every bucket in exactly one slot. `LocksInv` is about who holds bucket
  locks: a first part, in the order of addresses, of the buckets of one full table; and a thread
  that goes on to rehash holds all buckets of the current table, which is why nobody can have
  replaced it. These two are inductive together (`TablesAndLocks`) and give
  `BucketsNotLeakedAlways` and `NoWaitCycleAlways`: in a cycle of waiting threads each would wait for a
  greater bucket than the one before. `TypeCorrect` follows with `TypesInv`, for finitely many threads.
  `QueueInv` relates queues, addresses and pending wake-ups: a thread on a queue is parked
  on an address that hashes to that bucket in the current table and nobody is about to wake it,
  and the other way round; it gives `NoStrandedThreadAlways`, `QueuedOnlyWhileParkedAlways` and
  `TimeoutVerdictAlways`. It is not an invariant of the code as it is: finding 1 of section 6
  breaks it. It is preserved by every step of a state in which no thread that is about to enqueue itself
  still has a wake-up pending from an earlier call (`ParksAwake`), so these theorems, and the
  refinement, have the form `Spec /\ []ParksAwake => ...`. `ParksAwakeAlways` shows with a fourth
  invariant (`AwakeInv`: a dequeued thread stays asleep unless it times out) that
  the condition holds whenever no thread parks twice with a timeout. `ParkingLotCorrect` puts the
  two together: the constants of the run `parkinglot` satisfy its hypothesis, those of
  `parkinglot_stale_unpark` do not.
  `ParkingLotImplementsParkingQueue` maps the queue of an address to the threads of its bucket that
  are parked on it. Only enqueuing, dequeuing and timing out change it. A rehash does
  not: all threads of one address are in one bucket of the old table (`GatheredThose`) and go,
  in the same order, to one bucket of the new one.
  What the loops compute is proved by induction on their turns, as for the worklist
  (`LoopExists`, `LoopStays`), and over sequences with `SeqInduction`: `Those` keeps order and elements, filling
  slots accounts for every reusable bucket (`Accounts`), and the buckets that are left fit into
  the larger table.
* **WorklistProofs**: `TypeCorrect`, `NoCompilingDuringCollectionAlways`,
  `CancelPathAssertionAlways`, `PlansAccountedForAlways` and
  `WorklistImplementsPlanLifecycle`, for any VMs, threads and plans. The first
  invariant (`IInv`) says who owns `m_suspensionLock` and each `m_rightToRun`: running
  threads own theirs (`RunnersOwn`), a suspending collector those it has taken so far
  (`SuspendedSoFar`), one collector at a time (`OneSuspends`), and a VM collects only
  between suspending and resuming (`CollectingAsTold`). The second (`PlanInv`) says
  where every plan is: it occurs at most once in the queue, in a thread's hands and
  among the ready plans taken together (`Separate`), in a stage that fits the place
  (`QueuedStages`, `HeldStages`, `ReadyStages`), and what is in `m_plans` is
  somewhere and alone with its key (`PlansSomewhere`). Only a cancelled plan is
  anywhere without being in `m_plans`. The two meet in `CancellationKnown`: plans are
  cancelled only while no thread runs, and a thread at a safepoint may be ignorant of
  its cancellation only between the two halves of `removeDeadPlans`, when it cannot
  get its right to run back. The loops over `m_queue` and `m_readyPlans` are recursive
  functions; what they keep and remove is proved by induction on their turns
  (`LoopExists` shows that such a function exists, `LoopStays` that what each turn
  preserves holds in the end). `removeDeadPlans` is only shown to lose no live ready
  plan: that it removes all dead ones is false (section 6).
* **ParallelHelperPoolProofs**: `TypeCorrect`, `FinishedMeansDoneAlways`,
  `RunTaskAssertionsAlways`, `NoSleepThroughTaskAlways`,
  `PoolImplementsParallelTask`. The central part of the
  invariant is `Counted`: `numActive` of a client is the cardinality of the set of
  threads inside its task. With `AtRest` (no task and no active thread once
  `finish` has returned), this makes the late thread that clears the task harmless.
  `NoSleepThroughTask` needs in addition that the threads that exist are the first
  `m_numThreads` (`SleepersOK`): those are the ones `setTask` wakes, in the critical
  section in which the task appears, and a thread goes to sleep only where it saw no task.
* **ParallelMarkingProofs**: `TerminationDetected`, `ExactlyLiveCellsMarked`,
  `CellsVisitedOnce`, for any object graph. The argument has three parts.
  `CountersOK` and `ControlOK`: `m_numberOfActiveParallelMarkers` is the number of
  visitors that may have work, so that zero of them and an empty shared stack means
  that there is none (`WorkOK`: a visitor that waits or is out has an empty stack).
  `StacksOK`: a grey cell is on exactly one stack, at one place, whichever
  visitor donated or stole it; so it is visited once. `ColoursOK` and `SoundOK`: what
  a black cell refers to is marked or about to be appended by its visitor, the opaque
  roots it added are known to its visitor or to the heap, and only live cells are
  marked. When nothing is grey and the harvesters have nothing to add, the marked
  cells are therefore closed under reference (`DoneOK`).
* **GenerationalHeapProofs**: `NoReferenceDangles`, `RememberedSetIsComplete`,
  `DestructorsRunOnObjects`, `BlocksAreAccountedFor`, `WeakHandlesAreValid`, and
  `HeapImplementsManagedHeap`, for any blocks and cells. No one of the five
  invariants is inductive without the others: what an eden collection keeps depends
  on the remembered set, on mark bits being set only for cells that are kept
  (`MarksOK`, `CellsOK`) and on blocks with new objects being on their list. What a
  sweep may destroy depends on which of the half-finished states a block can be in at
  each step of the control (`PhasesOK`, `BlocksOK`): for instance only the block that
  allocation was stopped in has a bitmap of newly allocated cells, and free cells
  belong to the current block. The refinement maps the abstract objects to the cells
  that hold one, and the condemned ones to those of them that are not kept.
* **JSLockProofs**: `DropsAlwaysOrdered`, `LocksAlwaysMatchScopes`,
  `EntryAlwaysOfThreadInside`, `TableAlwaysTheVMsOutsideDrops`, `TypeCorrect`, for any number of threads and scopes. The
  invariant is about the stack of scopes of each thread (`StackOK`): every drop
  remembers exactly the `JSLockHolder`s below it that the thread held when it opened
  the drop, and every `unlock()` that has not returned gives up exactly those that the
  thread holds. Both stay true while scopes are opened and closed above them, so it
  does not matter what microtasks and released objects do in between. `m_lockCount`
  is then the cardinality of the set of holders that no drop took (`CountOK`),
  `m_lockDropDepth` the cardinality of the set of pending drops of all threads, whose
  depths are distinct and at most that (`DropInv`), and
  `m_delayedReleaseRecursionCount` that of the unfinished releasing calls (`ReleaseInv`).
  `TableAlwaysTheVMsOutsideDrops` bounds the finding of `jslock_table`: a thread runs in
  the VM with a table that is not the VM's only while an `unlock()` of its
  `dropAllLocks()` has not returned.

Only model-checked:

* all liveness, since the proof system does not reason about fairness;
* what `ParkingLot` does when a thread with a timeout parks again before its old
  unparker is done with it: there the properties fail (section 6).

## 5. Assumptions and abstractions

* Memory is sequentially consistent; the models do not show that the memory
  orders the code passes to its atomics suffice.
* The lifetime of `ThreadData` is not modelled: `notify_one()` after the unlock
  (ParkingLot.cpp:621) may touch the data of a thread that has exited.
* `Lock` and `Condition` rest on `ParkingQueue`, whose guarantees the code gives only
  as long as no thread that timed out parks again before its old unparker has cleared its
  address (`ParksAwake`, sections 4 and 6).
* A `Worklist` collection is the part of `collectImpl` that the compiler threads
  see. What compilation does to the graph, and what finalization installs, is
  outside the model.
* `ParallelMarking` covers full collections; `GenerationalHeap` covers both kinds with
  marking as one step. `copyLater`, byte counts and the `visitChildren` of each class
  are left out.
* `m_numberOfWaitingParallelMarkers` is never decremented by visitors that leave
  `drainFromShared` (SlotVisitor.cpp:251, 278), so it grows. It only divides the
  amount a thief takes; the model keeps it as the code does.
* `GenerationalHeap` has one allocator. Large cells, immortal and zombie modes, the
  paged-out test and the free lists of weak blocks are left out. A full sweep
  comes after a full collection, as in `collectAllGarbage`. The test function
  `$vm.edenGC()` (JSDollarVMPrototype.cpp:131) sweeps after an eden collection; then
  `MarkedBlock::sweep` may meet a retired block, which it does not expect.
* `JSLock` assumes a reference to the VM that outlives all scopes. `~JSLockHolder`
  gives up its own before `unlock()`, whose delayed releases may drop the lock, so a
  VM whose last other reference goes in that moment is not covered.

Four observations on `JSLock` that shape its properties:

* The constructor of `DropAllLocks` resets the thread's `AtomicStringTable` before it
  unlocks, and unlocking drains microtasks. These run with the thread's own table
  instead of the VM's: `TableIsTheVMs` fails (section 6).
* A `DropAllLocks` that found nothing to drop leaves the VM's table current when it
  ends, although its thread is not in the VM.
* The stack pointer that a drop saves has one slot per thread. A nested drop
  overwrites it, and the outer one restores the inner entry. The model does not tell
  two addresses on one stack apart, so no property is about this.
* After a drop is undone, `m_entryAtomicStringTable` is the table at the time of the
  re-entry, which the drop had reset to the thread's own.

## 6. Findings

1. `parkinglot_stale_unpark`. A thread whose timeout fires just after an unparker
   dequeued it returns at once. The unparker stores to `ThreadData::address` later.
   If the thread has parked again by then, it wakes up although it is on
   a queue and nobody unparked it, and `parkConditionally()` returns true, against
   ParkingLot.h:47-49 and "No spurious wake-up" of Condition.h:56. `Condition` with
   a predicate and `Lock` re-check, so they survive the wake-up itself.
2. `worklist_vm_destroyed`. A plan that a collection cancels while its thread is at a
   safepoint leaves `m_plans` at once, so `~VM` does not wait for it: the thread
   goes on with a VM that is gone, against VM.cpp:324, "Make sure concurrent
   compilations are done".
3. `jslock_table`. `DropAllLocks` makes the thread's own `AtomicStringTable` current
   (JSLock.cpp:262) before `dropAllLocks` calls `unlock` (224), which drains the
   microtasks (174) with the lock still held. On the VM of an API client, which has a
   table of its own, they run with the wrong one, against the assertion of
   `Identifier::checkCurrentAtomicStringTable` (Identifier.cpp:112-114), "Check the
   identifier table accessible through the threadspecific matches the vm's identifier
   table". Nothing else breaks the assertion (`TableAlwaysTheVMsOutsideDrops`).

An observation without a run: `removeDeadPlans` (DFGWorklist.cpp:287) skips the element
it moves into the hole, so when two ready plans die in one collection, one of them
is still in `m_readyPlans` after it, cancelled, although DFGWorklist.h:104-105 says
these plans "have been compiled and are ready to be completed". A later
`removeDeadPlans` in which a plan dies scans the list again and may remove it. It does
no harm until then: the model has the loop as it is written, and
`WorklistImplementsPlanLifecycle` proves that a cancelled plan is never completed.

## 7. Plan

Done, in this order: the locks (`WordLock`, `ParkingLot`, `Lock`, `Condition`), the
worklist, the helper pool, parallel marking, the generational heap with weak handles
and the incremental sweeper, and `JSLock`; then the proofs of section 4, the ones about
`ParkingLot` last. Should the project grow, the next modules are `CopiedSpace` (blocks on loan
during parallel copying, on top of `ParallelTask`), and `Watchpoint`, `Watchdog` and
`bmalloc`'s `AsyncTask` as far as they are independent protocols.

## 8. Not modelled

`CopiedSpace`, `Watchpoint`, `Watchdog` and `bmalloc` have protocols that could be
modelled in the same way. The timers that start collections and sweeps are the free
choice of the moment in `GenerationalHeap`. Handle sets, code block sets and stub
routine sets are lists without a protocol of their own, and the scanning of stacks
depends on the operating system. The parser, the bytecode generator, the compiler
phases, the code generators, the interpreter, structures and inline caches, regular
expressions, the runtime library, the inspector and the C API are large sequential
programs whose correctness is a relation between inputs and outputs of unbounded
size. WebCore, WebKit, WebKit2 and the vendored code are other products.
