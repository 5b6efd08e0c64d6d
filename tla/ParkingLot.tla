----------------------------- MODULE ParkingLot -----------------------------
(***************************************************************************)
(* WTF::ParkingLot (WTF/wtf/ParkingLot.cpp): parks threads in queues keyed *)
(* by address.  The queues live in the buckets of a hash table that is     *)
(* replaced by a larger one when threads are created; the old table is     *)
(* never freed, and a thread that finds after locking a bucket that the    *)
(* table changed starts over.                                              *)
(*                                                                         *)
(* A bucket is a number, in the order of the buckets' addresses in memory; *)
(* its WordLock is an abstract mutex.  What an operation does between      *)
(* locking and unlocking one bucket is one action, which waits for the     *)
(* lock to be free: within it, the operation touches only what the lock    *)
(* protects, calls the client's functor once and locks nothing else.       *)
(* lockHashtable(), which holds many bucket locks, is modelled lock by     *)
(* lock.  Loading the table and then a slot of it is one step: a slot      *)
(* never changes once it is set, and all slots of a table are set before   *)
(* it is replaced.                                                         *)
(*                                                                         *)
(* Storing null into ThreadData::address and the notify_one() that follows *)
(* are one step; a thread sleeps as long as its address is set.            *)
(***************************************************************************)
EXTENDS Naturals, Sequences, SequencesExt, FiniteSets

CONSTANTS Threads,        \* the threads that may use the parking lot
          Addresses,      \* the addresses they park on
          NoAddress,      \* the null address
          NoThread,       \* a free lock's owner
          Hash,           \* hashAddress()
          MaxLoadFactor,  \* maxLoadFactor
          GrowthFactor,   \* growthFactor
          Timed,          \* the threads that park with a timeout
          Unparkers,      \* the threads that unpark others
          Walkers,        \* the threads that call forEach() (debugging and tests)
          MaxParks,       \* how often a thread may park (a bound of the model)
          MaxBuckets      \* how many buckets there may be (a bound of the model)

ASSUME ConstantsAssumption ==
  /\ NoAddress \notin Addresses /\ NoThread \notin Threads
  /\ Hash \in [Addresses \cup {NoAddress} -> Nat]
  /\ MaxLoadFactor \in Nat \ {0} /\ GrowthFactor \in Nat \ {0}
  /\ Timed \subseteq Threads /\ Unparkers \subseteq Threads /\ Walkers \subseteq Threads
  /\ MaxParks \in [Threads -> Nat] /\ MaxBuckets \in Nat

VARIABLES
  tables,      \* every Hashtable ever created: a function from slots to buckets
  hashtable,   \* the current one, an index of tables, or 0
  numBuckets,  \* how many buckets were created
  queues,      \* for each bucket, its queue
  owner,       \* for each bucket, the owner of its lock
  numThreads,  \* numThreads
  address,     \* ThreadData::address
  pc,          \* where each thread is
  op,          \* the operation it is in
  arg,         \* its address argument
  count,       \* currentNumThreads, of ThreadData's constructor
  mine,        \* myHashtable, currentHashtable
  bucket,      \* the bucket it is about to lock
  held,        \* lockHashtable(): the buckets it locked
  pending,     \* the threads it dequeued and has yet to wake
  didFind,     \* parkConditionally(): it found itself on the queue
  parks        \* how often it parked

lots   == <<tables, hashtable, numBuckets, queues, owner, numThreads, address>>
locals == <<op, arg, count, mine, bucket, held, pending, didFind, parks>>
vars   == <<lots, pc, locals>>

NoBucket == 0
BucketIds == 1..MaxBuckets
Size(table) == Cardinality(DOMAIN table)
Slot(table, a) == table[Hash[a] % Size(table)]
BucketsOf(table) == {table[i] : i \in DOMAIN table}
EmptyTable(size) == [i \in 0..(size - 1) |-> NoBucket]

\* The elements of s that are in S, in their order.
Those(s, S) ==
  LET those[n \in 0..Len(s)] ==
        IF n = 0 THEN <<>>
        ELSE IF s[n] \in S THEN Append(those[n - 1], s[n]) ELSE those[n - 1]
  IN  those[Len(s)]

\* The threads that are parked on a.
OnAddress(a) == {u \in Threads : address[u] = a}

Ops == {"none", "park", "unparkOne", "unparkOneCallback", "unparkAll", "dequeueSelf",
        "grow", "forEach"}

Init ==
  /\ tables = <<>> /\ hashtable = 0
  /\ numBuckets = 0
  /\ queues = [b \in BucketIds |-> <<>>]
  /\ owner = [b \in BucketIds |-> NoThread]
  /\ numThreads = 0
  /\ address = [t \in Threads |-> NoAddress]
  /\ pc = [t \in Threads |-> "none"]
  /\ op = [t \in Threads |-> "none"]
  /\ arg = [t \in Threads |-> NoAddress]
  /\ count = [t \in Threads |-> 0]
  /\ mine = [t \in Threads |-> 0]
  /\ bucket = [t \in Threads |-> NoBucket]
  /\ held = [t \in Threads |-> {}]
  /\ pending = [t \in Threads |-> <<>>]
  /\ didFind = [t \in Threads |-> FALSE]
  /\ parks = [t \in Threads |-> 0]

\* The operation of t is over; its locals are dead.
Return(t) ==
  /\ pc' = [pc EXCEPT ![t] = "ready"]
  /\ op' = [op EXCEPT ![t] = "none"]
  /\ arg' = [arg EXCEPT ![t] = NoAddress]
  /\ count' = [count EXCEPT ![t] = 0]
  /\ mine' = [mine EXCEPT ![t] = 0]
  /\ bucket' = [bucket EXCEPT ![t] = NoBucket]
  /\ held' = [held EXCEPT ![t] = {}]
  /\ didFind' = [didFind EXCEPT ![t] = FALSE]

Goto(t, to) == pc' = [pc EXCEPT ![t] = to]

-----------------------------------------------------------------------------
(***************************************************************************)
(* ensureHashtable().                                                      *)
(***************************************************************************)
TablesEnsured == IF hashtable = 0 THEN Append(tables, EmptyTable(MaxLoadFactor)) ELSE tables
HashtableEnsured == IF hashtable = 0 THEN Len(TablesEnsured) ELSE hashtable

(***************************************************************************)
(* Threads come and go: ThreadData's constructor and destructor.           *)
(***************************************************************************)
LargeEnough(size, n) == size >= MaxLoadFactor * n

ThreadDataCreate(t) ==
  /\ pc[t] = "none"
  /\ numThreads' = numThreads + 1
  /\ count' = [count EXCEPT ![t] = numThreads + 1]
  /\ op' = [op EXCEPT ![t] = "grow"]
  /\ Goto(t, "ensureSize")
  /\ UNCHANGED <<tables, hashtable, numBuckets, queues, owner, address, arg, mine, bucket, held,
                 pending, didFind, parks>>

\* The "fast check to see if rehashing is needed".
EnsureSizeFast(t) ==
  /\ pc[t] = "ensureSize"
  /\ IF hashtable # 0 /\ LargeEnough(Size(tables[hashtable]), count[t])
       THEN Return(t) /\ UNCHANGED <<pending, parks>>
       ELSE Goto(t, "lockTable") /\ UNCHANGED locals
  /\ UNCHANGED lots

\* ~ThreadData(), when a thread ends.
ThreadDataDestroy(t) ==
  /\ pc[t] = "ready"
  /\ numThreads' = numThreads - 1
  /\ Goto(t, "none")
  /\ UNCHANGED <<tables, hashtable, numBuckets, queues, owner, address, locals>>

(***************************************************************************)
(* lockHashtable(): finds or creates the buckets of all slots, from the    *)
(* last to the first, locks them in the order of their addresses, and      *)
(* starts over if the table was replaced meanwhile.                        *)
(***************************************************************************)
\* Makes sure that slot i of the table r.slots has a bucket: one of r.reusable, or a
\* new one when there is none; r.number is how many buckets were created.
FillSlot(r, i) ==
  CASE r.slots[i] # NoBucket -> r
    [] r.slots[i] = NoBucket /\ r.reusable = <<>> ->
         [slots |-> [r.slots EXCEPT ![i] = r.number + 1], reusable |-> <<>>, number |-> r.number + 1]
    [] r.slots[i] = NoBucket /\ r.reusable # <<>> ->
         [slots |-> [r.slots EXCEPT ![i] = Last(r.reusable)], reusable |-> Front(r.reusable),
          number |-> r.number]

\* Does so for the slots of s, one after the other.
FillSlots(r, s) ==
  LET filled[n \in 0..Len(s)] == IF n = 0 THEN r ELSE FillSlot(filled[n - 1], s[n])
  IN  filled[Len(s)]

\* "This makes sure that the hashtable is full of buckets."
AllSlotsFilled(table) ==
  FillSlots([slots |-> table, reusable |-> <<>>, number |-> numBuckets],
            [k \in 1..Size(table) |-> Size(table) - k])

LockHashtableFind(t) ==
  LET h == HashtableEnsured
      full == AllSlotsFilled(TablesEnsured[h])
  IN
  /\ pc[t] = "lockTable"
  /\ full.number <= MaxBuckets
  /\ hashtable' = h
  /\ tables' = [TablesEnsured EXCEPT ![h] = full.slots]
  /\ numBuckets' = full.number
  /\ mine' = [mine EXCEPT ![t] = h]
  /\ Goto(t, "locking")
  /\ UNCHANGED <<queues, owner, numThreads, address, op, arg, count, bucket, held, pending,
                 didFind, parks>>

\* Fault: the buckets are locked in the order of their slots, the last one first.
NextToLockUnsorted(t) ==
  LET table == tables[mine[t]]
      rest == {i \in DOMAIN table : table[i] \notin held[t]}
  IN  table[CHOOSE i \in rest : \A j \in rest : j <= i]

\* "Now lock the buckets in the right order."
NextToLock(t) ==
  LET rest == BucketsOf(tables[mine[t]]) \ held[t]
  IN  CHOOSE b \in rest : \A c \in rest : b <= c

WantsBucket(t) == pc[t] = "locking" /\ held[t] # BucketsOf(tables[mine[t]])

LockHashtableLock(t) ==
  /\ WantsBucket(t)
  /\ owner[NextToLock(t)] = NoThread
  /\ owner' = [owner EXCEPT ![NextToLock(t)] = t]
  /\ held' = [held EXCEPT ![t] = @ \cup {NextToLock(t)}]
  /\ UNCHANGED <<tables, hashtable, numBuckets, queues, numThreads, address, pc, op, arg, count, mine,
                 bucket, pending, didFind, parks>>

UnlockHashtable(t) == owner' = [b \in BucketIds |-> IF b \in held[t] THEN NoThread ELSE owner[b]]

LockHashtableDone(t) ==
  /\ pc[t] = "locking" /\ ~WantsBucket(t)
  /\ IF hashtable = mine[t]
       THEN Goto(t, "owning") /\ UNCHANGED <<owner, held>>
       ELSE Goto(t, "lockTable") /\ UnlockHashtable(t) /\ held' = [held EXCEPT ![t] = {}]
  /\ UNCHANGED <<tables, hashtable, numBuckets, queues, numThreads, address, op, arg, count, mine,
                 bucket, pending, didFind, parks>>

(***************************************************************************)
(* The rest of ensureHashtableSize(), with every bucket locked.            *)
(***************************************************************************)
\* The buckets of the old table in the order lockHashtable() returned them.
SortedBuckets(table) ==
  CHOOSE s \in [1..Cardinality(BucketsOf(table)) -> BucketsOf(table)] :
    \A i, j \in DOMAIN s : i < j => s[i] < s[j]

\* Fault: the threads are gathered from the tails of the queues.
GatheredThreadsFromTails(table) ==
  LET sorted == SortedBuckets(table)
  IN  FlattenSeq([i \in 1..Len(sorted) |-> Reverse(queues[sorted[i]])])

\* "gather all thread datas from the old hashtable ... in queue order".
GatheredThreads(table) ==
  LET sorted == SortedBuckets(table)
      threadDatas[n \in 0..Len(sorted)] ==
        IF n = 0 THEN <<>> ELSE threadDatas[n - 1] \o queues[sorted[n]]
  IN  threadDatas[Len(sorted)]

\* Fault: the buckets that were not reused are forgotten.
PlaceBucketNever(r, i) == r

\* Puts a bucket that was not reused into slot i, if that is free.
PlaceBucket(r, i) == IF r.reusable = <<>> THEN r ELSE FillSlot(r, i)

PlaceBuckets(r, size) ==
  LET placed[n \in 0..size] == IF n = 0 THEN r ELSE PlaceBucket(placed[n - 1], n - 1)
  IN  placed[size]

NewSize(n) == n * GrowthFactor * MaxLoadFactor

\* The slots of the new table: of the threads that are parked first, in their order.
Rehashed(table, size) ==
  LET threadDatas == GatheredThreads(table)
      empty == [slots |-> EmptyTable(size), reusable |-> SortedBuckets(table), number |-> numBuckets]
      indices == [n \in 1..Len(threadDatas) |-> Hash[address[threadDatas[n]]] % size]
  IN  PlaceBuckets(FillSlots(empty, indices), size)

\* The threads leave the buckets of the old table for the ones of the new table, slots.
RehashedQueues(table, slots) ==
  LET threadDatas == GatheredThreads(table) IN
  [b \in BucketIds |->
     (IF b \in BucketsOf(table) THEN <<>> ELSE queues[b])
       \o Those(threadDatas, {u \in ToSet(threadDatas) : Slot(slots, address[u]) = b})]

\* Checks again whether the table is too small and replaces it; then unlocks the
\* buckets of the old table.
EnsureSizeSlow(t) ==
  /\ pc[t] = "owning" /\ op[t] = "grow"
  /\ IF LargeEnough(Size(tables[hashtable]), count[t])
       THEN UNCHANGED <<tables, hashtable, numBuckets, queues>>
       ELSE LET new == Rehashed(tables[hashtable], NewSize(count[t])) IN
            /\ new.number <= MaxBuckets
            /\ tables' = Append(tables, new.slots)
            /\ hashtable' = Len(tables')
            /\ numBuckets' = new.number
            /\ queues' = RehashedQueues(tables[hashtable], new.slots)
  /\ UnlockHashtable(t)
  /\ Return(t)
  /\ UNCHANGED <<numThreads, address, pending, parks>>

\* forEach(): only reads the queues, with every bucket locked.
ForEachCall(t) ==
  /\ pc[t] = "ready" /\ t \in Walkers
  /\ op' = [op EXCEPT ![t] = "forEach"]
  /\ Goto(t, "lockTable")
  /\ UNCHANGED <<lots, arg, count, mine, bucket, held, pending, didFind, parks>>

ForEachWalk(t) ==
  /\ pc[t] = "owning" /\ op[t] = "forEach"
  /\ UnlockHashtable(t)
  /\ Return(t)
  /\ UNCHANGED <<tables, hashtable, numBuckets, queues, numThreads, address, pending, parks>>

-----------------------------------------------------------------------------
(***************************************************************************)
(* Calls of the client.                                                    *)
(***************************************************************************)
Begin(t, o, a) ==
  /\ pc[t] = "ready"
  /\ op' = [op EXCEPT ![t] = o]
  /\ arg' = [arg EXCEPT ![t] = a]
  /\ Goto(t, "find")
  /\ UNCHANGED <<lots, count, mine, bucket, held, pending, didFind>>

ParkCall(t, a) ==
  /\ parks[t] < MaxParks[t]
  /\ parks' = [parks EXCEPT ![t] = @ + 1]
  /\ Begin(t, "park", a)

UnparkCall(t, o, a) ==
  /\ t \in Unparkers
  /\ Begin(t, o, a)
  /\ UNCHANGED parks

UnparkOneCall(t, a)         == UnparkCall(t, "unparkOne", a)
UnparkOneCallbackCall(t, a) == UnparkCall(t, "unparkOneCallback", a)
UnparkAllCall(t, a)         == UnparkCall(t, "unparkAll", a)

(***************************************************************************)
(* The first half of enqueue() and dequeue(): the bucket of the address.   *)
(* With BucketMode::IgnoreEmpty a missing bucket means that nobody is      *)
(* parked.                                                                 *)
(***************************************************************************)
IgnoreEmpty(o) == o \in {"unparkOne", "unparkAll", "dequeueSelf"}

FindBucket(t) ==
  LET h == HashtableEnsured
      found == Slot(TablesEnsured[h], arg[t])
      i == Hash[arg[t]] % Size(TablesEnsured[h])
  IN
  /\ pc[t] = "find"
  /\ found # NoBucket \/ ~IgnoreEmpty(op[t])
  /\ hashtable' = h
  /\ IF found # NoBucket
       THEN /\ tables' = TablesEnsured
            /\ bucket' = [bucket EXCEPT ![t] = found]
            /\ UNCHANGED numBuckets
       ELSE /\ numBuckets < MaxBuckets
            /\ tables' = [TablesEnsured EXCEPT ![h][i] = numBuckets + 1]
            /\ bucket' = [bucket EXCEPT ![t] = numBuckets + 1]
            /\ numBuckets' = numBuckets + 1
  /\ mine' = [mine EXCEPT ![t] = h]
  /\ Goto(t, "enter")
  /\ UNCHANGED <<queues, owner, numThreads, address, op, arg, count, held, pending, didFind, parks>>

FindNoBucket(t) ==
  /\ pc[t] = "find"
  /\ IgnoreEmpty(op[t])
  /\ Slot(TablesEnsured[HashtableEnsured], arg[t]) = NoBucket
  /\ tables' = TablesEnsured /\ hashtable' = HashtableEnsured
  /\ IF op[t] = "dequeueSelf"
       THEN Goto(t, "clear") /\ UNCHANGED locals
       ELSE Return(t) /\ UNCHANGED <<pending, parks>>
  /\ UNCHANGED <<numBuckets, queues, owner, numThreads, address>>

\* Locks the bucket, and starts over if the table was replaced.
BucketFree(t) == pc[t] = "enter" /\ owner[bucket[t]] = NoThread

EnterStale(t) ==
  /\ BucketFree(t) /\ hashtable # mine[t]
  /\ Goto(t, "find")
  /\ UNCHANGED <<lots, locals>>

\* Fault: the table may have been replaced before the bucket was locked.
EnterNoRecheck(t) == BucketFree(t)

Enter(t) == BucketFree(t) /\ hashtable = mine[t]

(***************************************************************************)
(* parkConditionally().                                                    *)
(***************************************************************************)
\* validation() returned true: the thread is on the queue.
ParkEnqueue(t) ==
  /\ Enter(t) /\ op[t] = "park"
  /\ address' = [address EXCEPT ![t] = arg[t]]
  /\ queues' = [queues EXCEPT ![bucket[t]] = Append(@, t)]
  /\ mine' = [mine EXCEPT ![t] = 0]
  /\ bucket' = [bucket EXCEPT ![t] = NoBucket]
  /\ Goto(t, "parked")
  /\ UNCHANGED <<tables, hashtable, numBuckets, owner, numThreads, op, arg, count, held, pending,
                 didFind, parks>>

\* validation() returned false.
ParkInvalid(t) ==
  /\ Enter(t) /\ op[t] = "park"
  /\ Return(t)
  /\ UNCHANGED <<lots, pending, parks>>

\* The thread wakes up because it was dequeued, and returns true.
ParkWakeUp(t) ==
  /\ pc[t] = "parked" /\ address[t] = NoAddress
  /\ Return(t)
  /\ UNCHANGED <<lots, pending, parks>>

\* The timeout fired before anybody cleared the address.
ParkTimeOut(t) ==
  /\ pc[t] = "parked" /\ address[t] # NoAddress /\ t \in Timed
  /\ op' = [op EXCEPT ![t] = "dequeueSelf"]
  /\ Goto(t, "find")
  /\ UNCHANGED <<lots, arg, count, mine, bucket, held, pending, didFind, parks>>

\* Fault: didFind is never set.
ParkDequeueSelfNotNoted(t) ==
  /\ Enter(t) /\ op[t] = "dequeueSelf"
  /\ queues' = [queues EXCEPT ![bucket[t]] = RemoveFirst(@, t)]
  /\ Goto(t, "clear")
  /\ UNCHANGED <<tables, hashtable, numBuckets, owner, numThreads, address, locals>>

ParkDequeueSelf(t) ==
  /\ Enter(t) /\ op[t] = "dequeueSelf"
  /\ didFind' = [didFind EXCEPT ![t] = Contains(queues[bucket[t]], t)]
  /\ queues' = [queues EXCEPT ![bucket[t]] = RemoveFirst(@, t)]
  /\ Goto(t, "clear")
  /\ UNCHANGED <<tables, hashtable, numBuckets, owner, numThreads, address, op, arg, count, mine, bucket,
                 held, pending, parks>>

\* "Make sure that no matter what, me->address is null after this point."
ParkClear(t) ==
  /\ pc[t] = "clear"
  /\ address' = [address EXCEPT ![t] = NoAddress]
  /\ Return(t)
  /\ UNCHANGED <<tables, hashtable, numBuckets, queues, owner, numThreads, pending, parks>>

(***************************************************************************)
(* unparkOne(), both forms, and unparkAll().                               *)
(***************************************************************************)
Unpark(t, woken, rest) ==
  /\ queues' = [queues EXCEPT ![bucket[t]] = rest]
  /\ pending' = [pending EXCEPT ![t] = woken]
  /\ IF woken = <<>> THEN Return(t)
     ELSE Goto(t, "wake") /\ UNCHANGED <<op, arg, count, mine, bucket, held, didFind>>
  /\ UNCHANGED <<tables, hashtable, numBuckets, owner, numThreads, address, parks>>

\* Fault: the functor answers Ignore for the thread it picked.
UnparkOneDequeueIgnores(t) ==
  LET q == queues[bucket[t]]
      parked == Those(q, OnAddress(arg[t]))
  IN
  /\ Enter(t) /\ op[t] \in {"unparkOne", "unparkOneCallback"}
  /\ Unpark(t, IF parked = <<>> THEN <<>> ELSE <<Head(parked)>>, q)

UnparkOneDequeue(t) ==
  LET q == queues[bucket[t]]
      parked == Those(q, OnAddress(arg[t]))
  IN
  /\ Enter(t) /\ op[t] \in {"unparkOne", "unparkOneCallback"}
  /\ IF parked = <<>> THEN Unpark(t, <<>>, q)
     ELSE Unpark(t, <<Head(parked)>>, RemoveFirst(q, Head(parked)))

UnparkAllDequeue(t) ==
  LET q == queues[bucket[t]] IN
  /\ Enter(t) /\ op[t] = "unparkAll"
  /\ Unpark(t, Those(q, OnAddress(arg[t])), Those(q, Threads \ OnAddress(arg[t])))

\* threadData->address = nullptr, and notify_one().
UnparkWake(t) ==
  /\ pc[t] = "wake"
  /\ address' = [address EXCEPT ![Head(pending[t])] = NoAddress]
  /\ pending' = [pending EXCEPT ![t] = Tail(@)]
  /\ IF Len(pending[t]) = 1 THEN Return(t)
     ELSE UNCHANGED <<pc, op, arg, count, mine, bucket, held, didFind>>
  /\ UNCHANGED <<tables, hashtable, numBuckets, queues, owner, numThreads, parks>>

-----------------------------------------------------------------------------
\* What a client may choose to do.
Call(t) ==
  \/ ThreadDataCreate(t) \/ ThreadDataDestroy(t) \/ ForEachCall(t)
  \/ \E a \in Addresses :
       ParkCall(t, a) \/ UnparkOneCall(t, a) \/ UnparkOneCallbackCall(t, a) \/ UnparkAllCall(t, a)

\* What an operation does once it was called.
Step(t) ==
  \/ EnsureSizeFast(t) \/ EnsureSizeSlow(t) \/ ForEachWalk(t)
  \/ LockHashtableFind(t) \/ LockHashtableLock(t) \/ LockHashtableDone(t)
  \/ FindBucket(t) \/ FindNoBucket(t) \/ EnterStale(t)
  \/ ParkEnqueue(t) \/ ParkInvalid(t) \/ ParkWakeUp(t) \/ ParkDequeueSelf(t) \/ ParkClear(t)
  \/ UnparkOneDequeue(t) \/ UnparkAllDequeue(t) \/ UnparkWake(t)

Next == \E t \in Threads : Call(t) \/ Step(t) \/ ParkTimeOut(t)

Spec == Init /\ [][Next]_vars

-----------------------------------------------------------------------------
PCs == {"none", "ready", "ensureSize", "lockTable", "locking", "owning", "find", "enter",
        "parked", "clear", "wake"}

TypeOK ==
  /\ hashtable \in 0..Len(tables)
  /\ \A k \in DOMAIN tables :
       /\ DOMAIN tables[k] = 0..(Size(tables[k]) - 1)
       /\ BucketsOf(tables[k]) \subseteq 0..numBuckets
  /\ numBuckets \in 0..MaxBuckets
  /\ queues \in [BucketIds -> Seq(Threads)]
  /\ owner \in [BucketIds -> Threads \cup {NoThread}]
  /\ numThreads = Cardinality({t \in Threads : pc[t] # "none"})
  /\ address \in [Threads -> Addresses \cup {NoAddress}]
  /\ pc \in [Threads -> PCs]
  /\ op \in [Threads -> Ops]
  /\ arg \in [Threads -> Addresses \cup {NoAddress}]
  /\ count \in [Threads -> 0..Cardinality(Threads)]
  /\ mine \in [Threads -> 0..Len(tables)]
  /\ bucket \in [Threads -> 0..numBuckets]
  /\ held \in [Threads -> SUBSET BucketIds]
  /\ pending \in [Threads -> Seq(Threads)]
  /\ didFind \in [Threads -> BOOLEAN]
  /\ \A t \in Threads : parks[t] \in 0..MaxParks[t]

\* Some thread dequeued t and has not cleared its address yet.
BeingWoken(t) == \E u \in Threads : Contains(pending[u], t)

\* The threads on the queue of some bucket.
Queued == UNION {ToSet(queues[b]) : b \in BucketIds}

(***************************************************************************)
(* A parked thread that nobody dequeued is on the queue of the bucket in   *)
(* which every unpark for its address looks, whatever rehashing went on    *)
(* since it parked: no unpark misses it.                                   *)
(***************************************************************************)
NoStrandedThread ==
  \A t \in Threads :
    address[t] # NoAddress /\ pc[t] # "clear" /\ ~BeingWoken(t) =>
      LET b == Slot(tables[hashtable], address[t])
      IN  b # NoBucket /\ Contains(queues[b], t)

(***************************************************************************)
(* A thread is on at most one queue, once, and only while it is inside     *)
(* parkConditionally(): "it will sleep so long as the thread continues to  *)
(* be on the queue and the timeout hasn't fired" (ParkingLot.h).           *)
(***************************************************************************)
QueuedOnlyWhileParked ==
  /\ \A t \in Queued : pc[t] = "parked" \/ op[t] = "dequeueSelf"
  /\ \A b, c \in BucketIds : \A i \in DOMAIN queues[b], j \in DOMAIN queues[c] :
       queues[b][i] = queues[c][j] => b = c /\ i = j

(***************************************************************************)
(* Threads that lock all buckets of a table, of the current one or of one  *)
(* that was replaced, do not wait for each other in a circle.              *)
(***************************************************************************)
NoWaitCycle ==
  \A S \in (SUBSET Threads) \ {{}} :
    \E t \in S : ~(WantsBucket(t) /\ owner[NextToLock(t)] \in S)

(***************************************************************************)
(* Rehashing uses up the buckets of the old table and leaks none: every    *)
(* bucket ever created is in exactly one slot of the current table, and    *)
(* each table is larger than the one before it.                            *)
(***************************************************************************)
BucketsNotLeaked ==
  /\ \A b \in 1..numBuckets : Cardinality({i \in DOMAIN tables[hashtable] : tables[hashtable][i] = b}) = 1
  /\ \A k \in 2..Len(tables) : Size(tables[k - 1]) < Size(tables[k])

(***************************************************************************)
(* A thread that timed out reports a timeout only if nobody dequeued it,   *)
(* and an unpark only if somebody did: a timeout that races with an unpark *)
(* does not lose the unpark.                                               *)
(***************************************************************************)
TimeoutVerdict ==
  \A t \in Threads : pc[t] = "clear" =>
    IF didFind[t] THEN ~BeingWoken(t) ELSE BeingWoken(t) \/ address[t] = NoAddress

\* The queue of address a: the threads parked on it, in the order they parked.
AddressQueue(a) ==
  IF hashtable = 0 THEN <<>>
  ELSE LET b == Slot(tables[hashtable], a) IN
       IF b = NoBucket THEN <<>> ELSE Those(queues[b], OnAddress(a))

AddressQueues == [a \in Addresses |-> AddressQueue(a)]

Abstract == INSTANCE ParkingQueue WITH queue <- AddressQueues

(***************************************************************************)
(* The hash table with its rehashing implements one first-in first-out     *)
(* queue per address.                                                      *)
(***************************************************************************)
ImplementsParkingQueue == Abstract!Spec
=============================================================================
