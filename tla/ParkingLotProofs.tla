-------------------------- MODULE ParkingLotProofs --------------------------
(***************************************************************************)
(* Proofs about ParkingLot for any threads, addresses, hash function, load *)
(* and growth factor.                                                      *)
(*                                                                         *)
(* TablesInv: a table that was replaced was full and smaller, and the      *)
(* current one has every bucket in one slot.  LocksInv: who holds bucket   *)
(* locks holds a first part, in the order of addresses, of the buckets of  *)
(* one full table, so that lockHashtable() can meet no cycle; and the      *)
(* thread that goes on to rehash holds all buckets of the current table.   *)
(* The two are inductive together and need nothing else.                   *)
(*                                                                         *)
(* QueueInv: a thread on a queue is parked on an address that hashes to    *)
(* the bucket in the current table, and nobody is about to wake it; a      *)
(* parked thread that nobody is about to wake is on that queue.  It is     *)
(* inductive only under ParksAwake: a thread that timed out and returned   *)
(* may park again while the unpark that dequeued it has yet to clear its   *)
(* address, and that late store then wakes it from the queue.  AwakeInv    *)
(* shows that ParksAwake always holds if no thread that parks with a       *)
(* timeout does so twice.                                                  *)
(*                                                                         *)
(* A rehash keeps the queues of the addresses: all threads parked on one   *)
(* address are in one bucket before, in order, GatheredThreads() keeps the *)
(* order within a bucket, and all go to one bucket after.  What the loops  *)
(* of the code compute (FillSlots, PlaceBuckets, GatheredThreads, Those)   *)
(* is shown by induction over sets of numbers and of sequences.            *)
(***************************************************************************)
EXTENDS ParkingLot, TLAPS, NaturalsInduction, FiniteSetTheorems

(***************************************************************************)
(* The hash tables and the locks of their buckets.                         *)
(***************************************************************************)
Tables == UNION {[0..(n - 1) -> Nat] : n \in Nat \ {0}}

IsFull(table) == \A i \in DOMAIN table : table[i] # NoBucket

\* No bucket is in two slots.
Distinct(table) == \A i, j \in DOMAIN table : table[i] = table[j] /\ table[i] # NoBucket => i = j

\* A table of n slots that has every one of the buckets 1 to k, in one slot each.
HasBuckets(table, n, k) ==
  /\ table \in [0..(n - 1) -> Nat] /\ Distinct(table)
  /\ BucketsOf(table) \ {NoBucket} = 1..k

\* The last of the tables T is the current one, h, and k buckets were created: a table
\* that was replaced was full, and smaller, and the current one has every bucket.
TablesOf(T, h, k) ==
  /\ T \in Seq(Tables) /\ h = Len(T) /\ k \in 0..MaxBuckets
  /\ \A j \in 1..Len(T) : BucketsOf(T[j]) \subseteq 0..k
  /\ \A j \in 1..(Len(T) - 1) : IsFull(T[j]) /\ Size(T[j]) < Size(T[j + 1])
  /\ IF T = <<>> THEN k = 0 ELSE HasBuckets(T[h], Size(T[h]), k)

TablesInv == TablesOf(tables, hashtable, numBuckets)

ThreadTypes ==
  /\ owner \in [BucketIds -> Threads \cup {NoThread}]
  /\ pc \in [Threads -> PCs] /\ op \in [Threads -> Ops]
  /\ count \in [Threads -> Nat]
  /\ mine \in [Threads -> Nat]
  /\ held \in [Threads -> SUBSET BucketIds]
  /\ queues \in [BucketIds -> Seq(Threads)]
  /\ address \in [Threads -> Addresses \cup {NoAddress}]
  /\ arg \in [Threads -> Addresses \cup {NoAddress}]

\* numThreads counts the threads that have a ThreadData.
Live == {t \in Threads : pc[t] # "none"}
LiveCounted == IsFiniteSet(Live) /\ numThreads = Cardinality(Live)

Locking == {"locking", "owning"}

\* A thread has locked the buckets of a full table, from the first on.
LocksInOrder ==
  \A t \in Threads :
    IF pc[t] \in Locking
    THEN /\ mine[t] \in 1..Len(tables) /\ IsFull(tables[mine[t]])
         /\ held[t] \subseteq BucketsOf(tables[mine[t]])
         /\ \A b \in held[t], c \in BucketsOf(tables[mine[t]]) : c < b => c \in held[t]
    ELSE held[t] = {}

OwnersHold == \A b \in BucketIds, t \in Threads : owner[b] = t <=> b \in held[t]

\* The thread that owns the table has locked all of its buckets.
OwnsTable ==
  \A t \in Threads : pc[t] = "owning" =>
    mine[t] = hashtable /\ held[t] = BucketsOf(tables[hashtable])

LocksInv == ThreadTypes /\ LiveCounted /\ LocksInOrder /\ OwnersHold /\ OwnsTable

(***************************************************************************)
(* The queues.                                                             *)
(***************************************************************************)
Once(s) == \A i, j \in DOMAIN s : s[i] = s[j] => i = j

\* No thread parks as long as somebody who dequeued it has yet to wake it.
ParksAwake ==
  \A t \in Threads : op[t] = "park" /\ pc[t] \in {"find", "enter"} => ~BeingWoken(t)

TimingOut(t) == op[t] = "dequeueSelf" /\ pc[t] \in {"find", "enter"}

\* The threads that were dequeued and whose address is yet to be cleared.
Woken == UNION {ToSet(pending[u]) : u \in Threads}

QueueTypes ==
  /\ bucket \in [Threads -> Nat]
  /\ pending \in [Threads -> Seq(Threads)]
  /\ didFind \in [Threads -> BOOLEAN]

\* Where t is in an operation on one address.
InOperation(t) ==
  /\ op[t] = "dequeueSelf" => pc[t] \in {"find", "enter", "clear"}
  /\ pc[t] = "clear" => op[t] = "dequeueSelf"
  /\ pc[t] = "parked" => op[t] = "park"
  /\ pc[t] \in {"find", "enter", "parked"} => arg[t] \in Addresses
  /\ pc[t] \in {"find", "enter"} =>
       op[t] \in {"park", "unparkOne", "unparkOneCallback", "unparkAll", "dequeueSelf"}
  /\ pc[t] # "clear" => didFind[t] = FALSE
  /\ pc[t] = "wake" <=> pending[t] # <<>>
  /\ pc[t] = "enter" =>
       /\ mine[t] \in 1..Len(tables) /\ bucket[t] \in 1..numBuckets
       /\ bucket[t] = Slot(tables[mine[t]], arg[t])

\* t has an address only inside parkConditionally(), the one it parked on.
Addressed(t) ==
  address[t] # NoAddress =>
    /\ pc[t] \in {"parked", "clear"} \/ TimingOut(t)
    /\ pc[t] # "clear" => arg[t] = address[t]

\* TimeoutVerdict and NoStrandedThread, of the thread t.
Verdict(t) ==
  pc[t] = "clear" =>
    /\ didFind[t] = TRUE => t \notin Woken
    /\ didFind[t] = FALSE => t \in Woken \/ address[t] = NoAddress

Unstranded(t) ==
  address[t] # NoAddress /\ pc[t] # "clear" /\ t \notin Woken =>
    /\ tables # <<>> /\ Slot(tables[hashtable], address[t]) \in BucketIds
    /\ t \in ToSet(queues[Slot(tables[hashtable], address[t])])

\* A thread on a queue is parked on an address that hashes to it, and nobody wakes it.
QueuedHere(t, b) ==
  /\ pc[t] = "parked" \/ TimingOut(t)
  /\ address[t] \in Addresses /\ tables # <<>> /\ b = Slot(tables[hashtable], address[t])
  /\ t \notin Woken

QueueInv ==
  /\ QueueTypes
  /\ \A t \in Threads : InOperation(t) /\ Addressed(t) /\ Verdict(t) /\ Unstranded(t)
  /\ \A b \in BucketIds : Once(queues[b]) /\ \A t \in ToSet(queues[b]) : QueuedHere(t, b)

(***************************************************************************)
(* ParksAwake: what keeps a thread that is being woken from parking again. *)
(***************************************************************************)
Counted(t) ==
  /\ op[t] = "dequeueSelf" => t \in Timed
  /\ op[t] = "park" \/ address[t] # NoAddress => parks[t] # 0

\* A thread that somebody dequeued sleeps until its address is cleared, unless it times out.
StaysAway(t) ==
  t \in Woken =>
    IF t \in Timed THEN parks[t] # 0 /\ ~(op[t] = "park" /\ pc[t] \in {"find", "enter"})
    ELSE pc[t] = "parked" /\ address[t] # NoAddress

AwakeInv ==
  /\ parks \in [Threads -> Nat]
  /\ \A t \in Threads : Counted(t) /\ StaysAway(t) /\ Once(pending[t])
  /\ \A t, u \in Threads : t # u => ToSet(pending[t]) \cap ToSet(pending[u]) = {}

-----------------------------------------------------------------------------
(***************************************************************************)
(* Induction over the natural numbers, and loops.                          *)
(***************************************************************************)
LEMMA LeastNumber ==
  ASSUME NEW T \in SUBSET Nat, T # {}
  PROVE  \E m \in T : \A k \in T : m <= k
<1> DEFINE R == {ss \in Nat \X Nat : ss[1] < ss[2]}
<1>1. IsWellFoundedOn(R, Nat)
  BY NatLessThanWellFounded DEF OpToRel
<1>2. \A x, y \in Nat : <<y, x>> \in R <=> y < x
  OBVIOUS
<1> HIDE DEF R
<1>3. PICK x \in T : \A y \in T : <<y, x>> \notin R
  BY <1>1, WFMin
<1>4. x \in Nat /\ \A y \in T : y \in Nat /\ ~(y < x)
  BY <1>2, <1>3
<1> QED
  BY <1>4

LEMMA SetInduction ==
  ASSUME NEW S, 0 \in S, \A n \in Nat : n \in S => n + 1 \in S
  PROVE  Nat \subseteq S
<1> SUFFICES ASSUME NEW x \in Nat, x \notin S PROVE FALSE
  OBVIOUS
<1> DEFINE T == {n \in Nat : n \notin S}
<1>1. PICK m \in T : \A k \in T : m <= k
  BY LeastNumber
<1>2. m - 1 \in Nat /\ m - 1 \notin T
  BY <1>1
<1> QED
  BY <1>2

\* A loop of n turns over states in S has a sequence of states.
IsLoop(f, s0, step, n) == f[0] = s0 /\ \A i \in 1..n : f[i] = step[<<i, f[i - 1]>>]

LEMMA LoopExists ==
  ASSUME NEW S, NEW s0 \in S, NEW step \in [Nat \X S -> S], NEW n \in Nat
  PROVE  \E f \in [0..n -> S] : IsLoop(f, s0, step, n)
<1> DEFINE Loop(f, m) == f[0] = s0 /\ \A i \in 1..m : f[i] = step[<<i, f[i - 1]>>]
           M == {m \in Nat : \E f \in [0..m -> S] : Loop(f, m)}
<1>1. 0 \in M
  <2> DEFINE g == [i \in 0..0 |-> s0]
  <2>1. g \in [0..0 -> S] /\ Loop(g, 0)
    OBVIOUS
  <2> QED BY <2>1
<1>2. ASSUME NEW m \in Nat, m \in M PROVE m + 1 \in M
  <2>1. PICK f \in [0..m -> S] : Loop(f, m)
    BY <1>2
  <2> DEFINE x == step[<<m + 1, f[m]>>]
             g == [i \in 0..(m + 1) |-> IF i = m + 1 THEN x ELSE f[i]]
  <2>2. <<m + 1, f[m]>> \in Nat \X S
    OBVIOUS
  <2>3. x \in S
    BY <2>2
  <2> HIDE DEF x
  <2>4. g \in [0..(m + 1) -> S]
    BY <2>3
  <2>5. g[0] = s0 /\ \A i \in 0..m : g[i] = f[i]
    BY <2>1
  <2>6. g[m + 1] = x
    OBVIOUS
  <2> HIDE DEF g
  <2>7. ASSUME NEW i \in 1..(m + 1) PROVE g[i] = step[<<i, g[i - 1]>>]
    <3>1. CASE i = m + 1
      <4>1. i - 1 = m /\ g[m] = f[m]
        BY <2>5, <3>1
      <4> QED BY <2>6, <3>1, <4>1 DEF x
    <3>2. CASE i # m + 1
      <4>1. i \in 1..m /\ i \in 0..m /\ i - 1 \in 0..m
        BY <3>2
      <4>2. f[i] = step[<<i, f[i - 1]>>]
        BY <2>1, <4>1
      <4> QED BY <2>5, <4>1, <4>2
    <3> QED BY <3>1, <3>2
  <2>8. Loop(g, m + 1)
    BY <2>5, <2>7
  <2> QED BY <2>4, <2>8
<1> HIDE DEF M
<1>3. Nat \subseteq M
  BY <1>1, <1>2, SetInduction
<1>4. n \in M
  BY <1>3
<1> QED
  BY <1>4 DEF M, IsLoop

\* What every turn of a loop preserves holds of all its states.
LEMMA LoopStays ==
  ASSUME NEW n \in Nat, NEW Good, NEW f, f[0] \in Good[0],
         \A i \in 1..n : f[i - 1] \in Good[i - 1] => f[i] \in Good[i]
  PROVE  \A i \in 0..n : f[i] \in Good[i]
<1> DEFINE M == {i \in Nat : i <= n => f[i] \in Good[i]}
<1>1. 0 \in M
  OBVIOUS
<1>2. ASSUME NEW i \in Nat, i \in M PROVE i + 1 \in M
  <2> SUFFICES ASSUME i + 1 <= n PROVE f[i + 1] \in Good[i + 1]
    OBVIOUS
  <2>1. i + 1 \in 1..n /\ (i + 1) - 1 = i /\ i <= n
    OBVIOUS
  <2>2. f[i] \in Good[i]
    BY <1>2, <2>1
  <2> QED BY <2>1, <2>2
<1> HIDE DEF M
<1>3. Nat \subseteq M
  BY <1>1, <1>2, SetInduction
<1> QED
  BY <1>3 DEF M


(***************************************************************************)
(* Sequences.                                                              *)
(***************************************************************************)

\* What holds of the empty sequence and of Append(s, x) whenever of s, holds of all.
LEMMA SeqInduction ==
  ASSUME NEW T, NEW G, <<>> \in G, \A s \in Seq(T), x \in T : s \in G => Append(s, x) \in G
  PROVE  Seq(T) \subseteq G
<1> DEFINE M == {n \in Nat : \A s \in Seq(T) : Len(s) = n => s \in G}
<1>1. 0 \in M
  OBVIOUS
<1>2. ASSUME NEW n \in Nat, n \in M PROVE n + 1 \in M
  <2> SUFFICES ASSUME NEW s \in Seq(T), Len(s) = n + 1 PROVE s \in G
    OBVIOUS
  <2> DEFINE f == SubSeq(s, 1, n)
             x == s[n + 1]
  <2>1. f \in Seq(T) /\ Len(f) = n /\ x \in T
    OBVIOUS
  <2>2. s = Append(f, x)
    OBVIOUS
  <2> HIDE DEF f, x
  <2>3. f \in G
    BY <1>2, <2>1
  <2> QED BY <2>1, <2>2, <2>3
<1> HIDE DEF M
<1>3. Nat \subseteq M
  BY <1>1, <1>2, SetInduction
<1>4. \A s \in Seq(T) : Len(s) \in Nat
  OBVIOUS
<1> QED
  BY <1>3, <1>4 DEF M

LEMMA ToSetContains ==
  ASSUME NEW T, NEW s \in Seq(T), NEW x
  PROVE  /\ Contains(s, x) <=> x \in ToSet(s)
         /\ ToSet(s) \subseteq T
  BY DEF Contains, ToSet

LEMMA EmptyElements ==
  /\ ToSet(<<>>) = {} /\ Once(<<>>)
  /\ \A T : \A s \in Seq(T) : ToSet(s) = {} => s = <<>>
<1>1. ToSet(<<>>) = {} /\ Once(<<>>)
  BY DEF ToSet, Once
<1>2. ASSUME NEW T, NEW s \in Seq(T), s # <<>> PROVE ToSet(s) # {}
  <2>1. 1 \in DOMAIN s
    BY <1>2
  <2> QED BY <2>1 DEF ToSet
<1> QED
  BY <1>1, <1>2

LEMMA AppendElements ==
  ASSUME NEW T, NEW s \in Seq(T), NEW x \in T
  PROVE  /\ Append(s, x) \in Seq(T) /\ Append(s, x) # <<>>
         /\ ToSet(Append(s, x)) = ToSet(s) \cup {x}
         /\ Once(s) /\ x \notin ToSet(s) => Once(Append(s, x))
<1> DEFINE t == Append(s, x)
           n == Len(s)
<1>1. n \in Nat /\ DOMAIN s = 1..n /\ DOMAIN t = 1..(n + 1) /\ t \in Seq(T) /\ t # <<>>
  OBVIOUS
<1>2. t[n + 1] = x /\ \A i \in 1..n : t[i] = s[i]
  OBVIOUS
<1> HIDE DEF t, n
<1>3. ToSet(t) = ToSet(s) \cup {x}
  BY <1>1, <1>2 DEF ToSet
<1>4. ASSUME Once(s), x \notin ToSet(s) PROVE Once(t)
  <2>1. \A i \in 1..n : s[i] # x
    BY <1>1, <1>4 DEF ToSet
  <2> QED BY <1>1, <1>2, <1>4, <2>1 DEF Once
<1> QED
  BY <1>1, <1>3, <1>4 DEF t

LEMMA TailElements ==
  ASSUME NEW T, NEW s \in Seq(T), s # <<>>
  PROVE  /\ Head(s) \in T /\ Tail(s) \in Seq(T) /\ Head(s) \in ToSet(s)
         /\ ToSet(s) = ToSet(Tail(s)) \cup {Head(s)}
         /\ Once(s) => Once(Tail(s)) /\ Head(s) \notin ToSet(Tail(s))
<1> DEFINE t == Tail(s)
           n == Len(s)
<1>1. n \in Nat \ {0} /\ DOMAIN s = 1..n /\ DOMAIN t = 1..(n - 1) /\ t \in Seq(T) /\ Head(s) = s[1] /\ s[1] \in T
  OBVIOUS
<1>2. \A i \in 1..(n - 1) : t[i] = s[i + 1]
  OBVIOUS
<1> HIDE DEF t, n
<1>3. \A i \in 2..n : i - 1 \in 1..(n - 1) /\ t[i - 1] = s[i]
  BY <1>1, <1>2
<1>4. 1 \in DOMAIN s /\ s[1] \in ToSet(s)
  BY <1>1 DEF ToSet
<1>5. ASSUME NEW x \in ToSet(t) PROVE x \in ToSet(s)
  <2>1. PICK i \in 1..(n - 1) : x = t[i]
    BY <1>1 DEF ToSet
  <2>2. i + 1 \in 1..n /\ x = s[i + 1]
    BY <1>1, <1>2, <2>1
  <2> QED BY <1>1, <2>2 DEF ToSet
<1>6. ASSUME NEW x \in ToSet(s), x # s[1] PROVE x \in ToSet(t)
  <2>1. PICK i \in 1..n : x = s[i]
    BY <1>1 DEF ToSet
  <2>2. i \in 2..n
    BY <1>1, <1>6, <2>1
  <2> QED BY <1>1, <1>3, <2>1, <2>2 DEF ToSet
<1>7. ASSUME Once(s) PROVE Once(t)
  <2> SUFFICES ASSUME NEW i \in 1..(n - 1), NEW j \in 1..(n - 1), t[i] = t[j] PROVE i = j
    BY <1>1 DEF Once
  <2>1. i + 1 \in 1..n /\ j + 1 \in 1..n /\ s[i + 1] = s[j + 1]
    BY <1>1, <1>2
  <2>2. i + 1 = j + 1
    BY <1>1, <1>7, <2>1 DEF Once
  <2> QED BY <2>2
<1>8. ASSUME Once(s), s[1] \in ToSet(t) PROVE FALSE
  <2>1. PICK i \in 1..(n - 1) : s[1] = t[i]
    BY <1>1, <1>8 DEF ToSet
  <2>2. i + 1 \in 1..n /\ 1 \in 1..n /\ s[i + 1] = s[1] /\ i + 1 # 1
    BY <1>1, <1>2, <2>1
  <2> QED BY <1>1, <1>8, <2>2 DEF Once
<1> QED
  BY <1>1, <1>4, <1>5, <1>6, <1>7, <1>8 DEF t

LEMMA FrontElements ==
  ASSUME NEW T, NEW s \in Seq(T), s # <<>>
  PROVE  /\ Last(s) \in T /\ Front(s) \in Seq(T) /\ s = Append(Front(s), Last(s))
         /\ Last(s) \in ToSet(s)
         /\ ToSet(s) = ToSet(Front(s)) \cup {Last(s)}
         /\ Once(s) => Once(Front(s)) /\ Last(s) \notin ToSet(Front(s))
<1> DEFINE t == Front(s)
           n == Len(s)
<1>1. /\ n \in Nat \ {0} /\ DOMAIN s = 1..n /\ DOMAIN t = 1..(n - 1) /\ t \in Seq(T)
      /\ Last(s) = s[n] /\ s[n] \in T
  BY DEF Front, Last
<1>2. \A i \in 1..(n - 1) : t[i] = s[i]
  BY DEF Front
<1>3. s = Append(t, Last(s))
  BY DEF Front, Last
<1> HIDE DEF t, n
<1>4. n \in DOMAIN s
  BY <1>1
<1>5. s[n] \in ToSet(s)
  BY <1>4 DEF ToSet
<1>6. \A i \in 1..n : i = n \/ i \in 1..(n - 1)
  BY <1>1
<1>7. \A i \in 1..(n - 1) : i \in 1..n /\ i # n
  BY <1>1
<1>8. ToSet(s) = ToSet(t) \cup {s[n]}
  BY <1>1, <1>2, <1>4, <1>6, <1>7 DEF ToSet
<1>9. ASSUME Once(s) PROVE Once(t) /\ s[n] \notin ToSet(t)
  <2>1. Once(t)
    BY <1>1, <1>2, <1>7, <1>9 DEF Once
  <2>2. \A i \in 1..(n - 1) : t[i] # s[n]
    BY <1>1, <1>2, <1>4, <1>7, <1>9 DEF Once
  <2> QED BY <1>1, <2>1, <2>2 DEF ToSet
<1> QED
  BY <1>1, <1>3, <1>5, <1>8, <1>9 DEF t

(***************************************************************************)
(* Those(s, S).                                                            *)
(***************************************************************************)
IsThoseLoop(f, s, S) ==
  /\ f[0] = <<>> /\ Those(s, S) = f[Len(s)]
  /\ \A i \in 1..Len(s) : f[i] = IF s[i] \in S THEN Append(f[i - 1], s[i]) ELSE f[i - 1]

LEMMA ThoseLoop ==
  ASSUME NEW T, NEW s \in Seq(T), NEW S
  PROVE  \E f : IsThoseLoop(f, s, S)
<1> DEFINE n == Len(s)
           Is(f) == f = [i \in 0..n |-> IF i = 0 THEN <<>>
                                        ELSE IF s[i] \in S THEN Append(f[i - 1], s[i]) ELSE f[i - 1]]
           Turn(i, q) == IF i \in 1..n /\ s[i] \in S THEN Append(q, s[i]) ELSE q
           step == [z \in Nat \X Seq(T) |-> Turn(z[1], z[2])]
<1>1. n \in Nat /\ \A i \in 1..n : s[i] \in T
  OBVIOUS
<1>2. Those(s, S) = (CHOOSE f : Is(f))[n]
  BY DEF Those
<1> HIDE DEF n
<1>3. ASSUME NEW i \in Nat, NEW q \in Seq(T) PROVE Turn(i, q) \in Seq(T)
  BY <1>1
<1> HIDE DEF Turn
<1>4. step \in [Nat \X Seq(T) -> Seq(T)] /\ \A i \in Nat, q \in Seq(T) : step[<<i, q>>] = Turn(i, q)
  BY <1>3
<1> HIDE DEF step
<1>5. <<>> \in Seq(T)
  OBVIOUS
<1>6. PICK g \in [0..n -> Seq(T)] : g[0] = <<>> /\ \A i \in 1..n : g[i] = step[<<i, g[i - 1]>>]
  <2>1. \E f \in [0..n -> Seq(T)] : IsLoop(f, <<>>, step, n)
    BY <1>1, <1>4, <1>5, LoopExists
  <2> QED BY <2>1 DEF IsLoop
<1>7. ASSUME NEW i \in 1..n PROVE g[i] = Turn(i, g[i - 1])
  <2>1. i \in Nat /\ i - 1 \in 0..n
    BY <1>1
  <2>2. g[i - 1] \in Seq(T)
    BY <2>1
  <2> QED BY <1>4, <1>6, <2>1, <2>2
<1>8. \A i \in 1..n : g[i] = IF s[i] \in S THEN Append(g[i - 1], s[i]) ELSE g[i - 1]
  BY <1>7 DEF Turn
<1>9. ASSUME NEW i \in 0..n
      PROVE  g[i] = IF i = 0 THEN <<>>
                    ELSE IF s[i] \in S THEN Append(g[i - 1], s[i]) ELSE g[i - 1]
  <2>1. i = 0 \/ i \in 1..n
    BY <1>1
  <2>2. CASE i = 0
    BY <1>6, <2>2
  <2>3. CASE i # 0
    BY <1>8, <2>1, <2>3, Zenon
  <2> QED BY <2>2, <2>3
<1>10. Is(g)
  BY <1>9
<1>11. PICK f : Is(f) /\ Those(s, S) = f[n]
  BY <1>2, <1>10
<1>12. f[0] = <<>>
  BY <1>1, <1>11
<1>13. ASSUME NEW i \in 1..n
       PROVE  f[i] = IF s[i] \in S THEN Append(f[i - 1], s[i]) ELSE f[i - 1]
  <2>1. i \in 0..n /\ i # 0
    BY <1>1
  <2> QED BY <1>11, <2>1, Zenon
<1>14. IsThoseLoop(f, s, S)
  BY <1>11, <1>12, <1>13 DEF n, IsThoseLoop
<1> QED
  BY <1>14

LEMMA ThoseEmpty == \A S : Those(<<>>, S) = <<>>
<1> TAKE S
<1>1. <<>> \in Seq({}) /\ Len(<<>>) = 0
  OBVIOUS
<1>2. PICK f : IsThoseLoop(f, <<>>, S)
  BY <1>1, ThoseLoop
<1> QED
  BY <1>1, <1>2 DEF IsThoseLoop

LEMMA ThoseAppend ==
  ASSUME NEW T, NEW s \in Seq(T), NEW x \in T, NEW S
  PROVE  Those(Append(s, x), S) = IF x \in S THEN Append(Those(s, S), x) ELSE Those(s, S)
<1> DEFINE n == Len(s)
           t == Append(s, x)
<1>1. n \in Nat /\ t \in Seq(T) /\ Len(t) = n + 1 /\ t[n + 1] = x /\ \A i \in 1..n : t[i] = s[i]
  OBVIOUS
<1>a. PICK f : IsThoseLoop(f, s, S)
  BY ThoseLoop
<1>2. /\ f[0] = <<>> /\ Those(s, S) = f[n]
      /\ \A i \in 1..n : f[i] = IF s[i] \in S THEN Append(f[i - 1], s[i]) ELSE f[i - 1]
  BY <1>a DEF IsThoseLoop
<1> HIDE DEF t
<1>b. PICK g : IsThoseLoop(g, t, S)
  BY <1>1, ThoseLoop
<1> HIDE DEF n
<1>3. /\ g[0] = <<>> /\ Those(t, S) = g[n + 1]
      /\ \A i \in 1..(n + 1) : g[i] = IF t[i] \in S THEN Append(g[i - 1], t[i]) ELSE g[i - 1]
  BY <1>1, <1>b DEF IsThoseLoop
<1> DEFINE Good == [i \in 0..n |-> {f[i]}]
<1>4. g[0] \in Good[0]
  BY <1>1, <1>2, <1>3
<1>5. ASSUME NEW i \in 1..n, g[i - 1] \in Good[i - 1] PROVE g[i] \in Good[i]
  <2>1. i \in 0..n /\ i - 1 \in 0..n /\ i \in 1..(n + 1)
    BY <1>1
  <2>2. g[i - 1] = f[i - 1]
    BY <1>5, <2>1
  <2>3. g[i] = f[i]
    BY <1>1, <1>2, <1>3, <2>1, <2>2, Zenon
  <2> QED BY <2>1, <2>3
<1> HIDE DEF Good
<1>6. \A i \in 0..n : g[i] \in Good[i]
  BY <1>1, <1>4, <1>5, LoopStays
<1>7. n \in 0..n /\ n + 1 \in 1..(n + 1) /\ (n + 1) - 1 = n
  BY <1>1
<1>8. g[n] = f[n]
  BY <1>6, <1>7 DEF Good
<1>9. g[n + 1] = IF t[n + 1] \in S THEN Append(g[(n + 1) - 1], t[n + 1]) ELSE g[(n + 1) - 1]
  BY <1>3, <1>7
<1> QED
  BY <1>1, <1>2, <1>3, <1>7, <1>8, <1>9 DEF t

\* Those(s, S) has the elements of s that are in S, each once if s has.
LEMMA ThoseElements ==
  ASSUME NEW T, NEW s \in Seq(T), NEW S
  PROVE  /\ Those(s, S) \in Seq(T)
         /\ ToSet(Those(s, S)) = ToSet(s) \cap S
         /\ Once(s) => Once(Those(s, S))
<1> DEFINE O == {q \in Seq(T) : \A i, j \in DOMAIN q : q[i] = q[j] => i = j}
           G == {q \in Seq(T) : /\ Those(q, S) \in Seq(T)
                                /\ ToSet(Those(q, S)) = ToSet(q) \cap S
                                /\ q \in O => Those(q, S) \in O}
<1>0. \A q \in Seq(T) : q \in O <=> Once(q)
  BY DEF Once
<1> HIDE DEF O
<1>1. <<>> \in G
  <2>1. <<>> \in Seq(T) /\ Those(<<>>, S) = <<>> /\ ToSet(<<>>) = {}
    BY ThoseEmpty, EmptyElements
  <2> QED BY <2>1
<1>2. ASSUME NEW q \in Seq(T), NEW x \in T, q \in G PROVE Append(q, x) \in G
  <2> DEFINE a == Append(q, x)
             p == Those(q, S)
  <2>1. Those(a, S) = IF x \in S THEN Append(p, x) ELSE p
    BY ThoseAppend
  <2>2. a \in Seq(T) /\ ToSet(a) = ToSet(q) \cup {x} /\ (Once(q) /\ x \notin ToSet(q) => Once(a))
    BY AppendElements
  <2>3. Once(a) => Once(q) /\ x \notin ToSet(q)
    <3>1. a \in Seq(T) /\ a # <<>> /\ Len(a) = Len(q) + 1 /\ Len(q) \in Nat
      OBVIOUS
    <3>2. Last(a) = x
      BY <3>1 DEF Last
    <3>3. Front(a) \in Seq(T) /\ Len(Front(a)) = Len(q) /\ \A i \in 1..Len(q) : Front(a)[i] = q[i]
      BY <3>1 DEF Front
    <3>4. Front(a) = q
      BY <3>3
    <3> HIDE DEF a
    <3> QED BY <3>1, <3>2, <3>4, FrontElements
  <2>4. p \in Seq(T) /\ ToSet(p) = ToSet(q) \cap S /\ (q \in O => p \in O)
    BY <1>2
  <2> HIDE DEF a, p
  <2>5. Append(p, x) \in Seq(T) /\ ToSet(Append(p, x)) = ToSet(p) \cup {x} /\ (Once(p) /\ x \notin ToSet(p) => Once(Append(p, x)))
    BY <2>4, AppendElements
  <2>6. CASE x \in S
    BY <1>0, <2>1, <2>2, <2>3, <2>4, <2>5, <2>6 DEF a
  <2>7. CASE x \notin S
    BY <1>0, <2>1, <2>2, <2>3, <2>4, <2>7 DEF a
  <2> QED BY <2>6, <2>7
<1> HIDE DEF G
<1>3. s \in G
  BY <1>1, <1>2, SeqInduction
<1>4. /\ Those(s, S) \in Seq(T)
      /\ ToSet(Those(s, S)) = ToSet(s) \cap S
      /\ s \in O => Those(s, S) \in O
  BY <1>3 DEF G
<1> QED
  BY <1>0, <1>4

\* Only the elements of s in S matter.
LEMMA ThoseSame ==
  ASSUME NEW T, NEW s \in Seq(T), NEW S, NEW R, ToSet(s) \cap S = ToSet(s) \cap R
  PROVE  Those(s, S) = Those(s, R)
<1> DEFINE G == {q \in Seq(T) : ToSet(q) \cap S = ToSet(q) \cap R => Those(q, S) = Those(q, R)}
<1>1. <<>> \in G
  BY ThoseEmpty
<1>2. ASSUME NEW q \in Seq(T), NEW x \in T, q \in G PROVE Append(q, x) \in G
  <2>1. Append(q, x) \in Seq(T) /\ ToSet(Append(q, x)) = ToSet(q) \cup {x}
    BY AppendElements
  <2>2. /\ Those(Append(q, x), S) = IF x \in S THEN Append(Those(q, S), x) ELSE Those(q, S)
        /\ Those(Append(q, x), R) = IF x \in R THEN Append(Those(q, R), x) ELSE Those(q, R)
    BY ThoseAppend
  <2> SUFFICES ASSUME (ToSet(q) \cup {x}) \cap S = (ToSet(q) \cup {x}) \cap R
               PROVE  Those(Append(q, x), S) = Those(Append(q, x), R)
    BY <2>1
  <2>3. (x \in S <=> x \in R) /\ ToSet(q) \cap S = ToSet(q) \cap R
    OBVIOUS
  <2>4. Those(q, S) = Those(q, R)
    BY <1>2, <2>3
  <2> QED BY <2>2, <2>3, <2>4
<1> HIDE DEF G
<1>3. s \in G
  BY <1>1, <1>2, SeqInduction
<1> QED
  BY <1>3 DEF G

LEMMA ThoseThose ==
  ASSUME NEW T, NEW s \in Seq(T), NEW S, NEW R
  PROVE  Those(Those(s, S), R) = Those(s, S \cap R)
<1> DEFINE G == {q \in Seq(T) : Those(Those(q, S), R) = Those(q, S \cap R)}
<1>1. <<>> \in G
  BY ThoseEmpty
<1>2. ASSUME NEW q \in Seq(T), NEW x \in T, q \in G PROVE Append(q, x) \in G
  <2> DEFINE p == Those(q, S)
  <2>1. p \in Seq(T)
    BY ThoseElements
  <2>2. Append(q, x) \in Seq(T)
    OBVIOUS
  <2>3. /\ Those(Append(q, x), S) = IF x \in S THEN Append(p, x) ELSE p
        /\ Those(Append(q, x), S \cap R) = IF x \in S \cap R THEN Append(Those(q, S \cap R), x) ELSE Those(q, S \cap R)
    BY ThoseAppend
  <2>4. Those(p, R) = Those(q, S \cap R)
    BY <1>2
  <2> HIDE DEF p
  <2>5. Those(Append(p, x), R) = IF x \in R THEN Append(Those(p, R), x) ELSE Those(p, R)
    BY <2>1, ThoseAppend
  <2>6. CASE x \in S
    <3>1. Those(Append(q, x), S) = Append(p, x) /\ (x \in S \cap R <=> x \in R)
      BY <2>3, <2>6
    <3>2. Those(Append(p, x), R) = Those(Append(q, x), S \cap R)
      BY <2>3, <2>4, <2>5, <3>1
    <3> QED BY <2>2, <3>1, <3>2
  <2>7. CASE x \notin S
    BY <2>2, <2>3, <2>4, <2>7
  <2> QED BY <2>6, <2>7
<1> HIDE DEF G
<1>3. s \in G
  BY <1>1, <1>2, SeqInduction
<1> QED
  BY <1>3 DEF G

Concat(s, t) == s \o t

LEMMA ThoseConcat ==
  ASSUME NEW T, NEW s \in Seq(T), NEW t \in Seq(T), NEW S
  PROVE  Those(Concat(s, t), S) = Concat(Those(s, S), Those(t, S))
<1> DEFINE G == {q \in Seq(T) : Those(s \o q, S) = Those(s, S) \o Those(q, S)}
<1>0. Those(s, S) \in Seq(T)
  BY ThoseElements
<1>1. <<>> \in G
  BY <1>0, ThoseEmpty
<1>2. ASSUME NEW q \in Seq(T), NEW x \in T, q \in G PROVE Append(q, x) \in G
  <2> DEFINE p == Those(q, S)
             c == s \o q
  <2>1. p \in Seq(T)
    BY ThoseElements
  <2>2. Append(q, x) \in Seq(T) /\ c \in Seq(T) /\ s \o Append(q, x) = Append(c, x)
    OBVIOUS
  <2>3. Those(Append(q, x), S) = IF x \in S THEN Append(p, x) ELSE p
    BY ThoseAppend
  <2>4. Those(c, S) = Those(s, S) \o p
    BY <1>2
  <2> HIDE DEF p, c
  <2>5. Those(Append(c, x), S) = IF x \in S THEN Append(Those(c, S), x) ELSE Those(c, S)
    BY <2>2, ThoseAppend
  <2>6. Those(s, S) \o Append(p, x) = Append(Those(s, S) \o p, x)
    BY <1>0, <2>1
  <2> QED BY <2>2, <2>3, <2>4, <2>5, <2>6
<1> HIDE DEF G
<1>3. t \in G
  BY <1>1, <1>2, SeqInduction
<1> QED
  BY <1>3 DEF G, Concat

LEMMA ThoseAll ==
  ASSUME NEW T, NEW s \in Seq(T), NEW S, ToSet(s) \subseteq S
  PROVE  Those(s, S) = s
<1> DEFINE G == {q \in Seq(T) : Those(q, T) = q}
<1>1. <<>> \in G
  BY ThoseEmpty
<1>2. ASSUME NEW q \in Seq(T), NEW x \in T, q \in G PROVE Append(q, x) \in G
  <2>1. Those(Append(q, x), T) = IF x \in T THEN Append(Those(q, T), x) ELSE Those(q, T)
    BY ThoseAppend
  <2> QED BY <1>2, <2>1
<1> HIDE DEF G
<1>3. s \in G
  BY <1>1, <1>2, SeqInduction
<1>4. ToSet(s) \cap S = ToSet(s) \cap T
  BY ToSetContains
<1>5. Those(s, S) = Those(s, T)
  BY <1>4, ThoseSame
<1> QED
  BY <1>3, <1>5 DEF G

LEMMA ThoseNone ==
  ASSUME NEW T, NEW s \in Seq(T), NEW S, ToSet(s) \cap S = {}
  PROVE  Those(s, S) = <<>>
<1>1. Those(s, S) \in Seq(T) /\ ToSet(Those(s, S)) = {}
  BY ThoseElements
<1> QED
  BY <1>1, EmptyElements

LEMMA ConcatElements ==
  ASSUME NEW T, NEW s \in Seq(T), NEW t \in Seq(T)
  PROVE  /\ s \o t \in Seq(T) /\ ToSet(s \o t) = ToSet(s) \cup ToSet(t)
         /\ Once(s) /\ Once(t) /\ ToSet(s) \cap ToSet(t) = {} => Once(s \o t)
         /\ Once(s \o t) => Once(s) /\ Once(t) /\ ToSet(s) \cap ToSet(t) = {}
<1> DEFINE u == s \o t
           m == Len(s)
           n == Len(t)
<1>1. /\ m \in Nat /\ n \in Nat /\ u \in Seq(T) /\ DOMAIN s = 1..m /\ DOMAIN t = 1..n
      /\ DOMAIN u = 1..(m + n)
  OBVIOUS
<1>2. \A i \in 1..(m + n) : u[i] = IF i <= m THEN s[i] ELSE t[i - m]
  OBVIOUS
<1> HIDE DEF u, m, n
<1>3. \A i \in 1..m : i \in 1..(m + n) /\ u[i] = s[i]
  BY <1>1, <1>2
<1>4. \A i \in 1..n : i + m \in 1..(m + n) /\ u[i + m] = t[i]
  BY <1>1, <1>2
<1>5. \A i \in 1..(m + n) : i \in 1..m \/ (i - m \in 1..n /\ u[i] = t[i - m])
  BY <1>1, <1>2
<1>6. ToSet(u) = ToSet(s) \cup ToSet(t)
  <2>1. ToSet(u) = {u[i] : i \in 1..(m + n)} /\ ToSet(s) = {s[i] : i \in 1..m} /\ ToSet(t) = {t[i] : i \in 1..n}
    BY <1>1 DEF ToSet
  <2>2. ASSUME NEW x \in ToSet(u) PROVE x \in ToSet(s) \cup ToSet(t)
    BY <1>3, <1>5, <2>1
  <2>3. ASSUME NEW x \in ToSet(s) PROVE x \in ToSet(u)
    BY <1>3, <2>1
  <2>4. ASSUME NEW x \in ToSet(t) PROVE x \in ToSet(u)
    BY <1>4, <2>1
  <2> QED BY <2>2, <2>3, <2>4
<1>7. ASSUME Once(s), Once(t), ToSet(s) \cap ToSet(t) = {} PROVE Once(u)
  <2>1. \A i \in 1..m, j \in 1..n : s[i] # t[j]
    BY <1>1, <1>7 DEF ToSet
  <2> SUFFICES ASSUME NEW i \in 1..(m + n), NEW j \in 1..(m + n), u[i] = u[j] PROVE i = j
    BY <1>1 DEF Once
  <2>2. CASE i \in 1..m /\ j \in 1..m
    BY <1>1, <1>3, <1>7, <2>2 DEF Once
  <2>3. CASE i \in 1..m /\ j \notin 1..m
    BY <1>3, <1>5, <2>1, <2>3
  <2>4. CASE i \notin 1..m /\ j \in 1..m
    BY <1>3, <1>5, <2>1, <2>4
  <2>5. CASE i \notin 1..m /\ j \notin 1..m
    <3>1. i - m \in 1..n /\ j - m \in 1..n /\ t[i - m] = t[j - m]
      BY <1>5, <2>5
    <3>2. i - m = j - m
      BY <1>1, <1>7, <3>1 DEF Once
    <3> QED BY <1>1, <3>2
  <2> QED BY <2>2, <2>3, <2>4, <2>5
<1>8. ASSUME Once(u) PROVE Once(s) /\ Once(t) /\ ToSet(s) \cap ToSet(t) = {}
  <2>1. Once(s)
    BY <1>1, <1>3, <1>8 DEF Once
  <2>2. ASSUME NEW i \in 1..n, NEW j \in 1..n, t[i] = t[j] PROVE i = j
    <3>1. i + m = j + m
      BY <1>1, <1>4, <1>8, <2>2 DEF Once
    <3> QED BY <1>1, <3>1
  <2>3. \A i \in 1..m, j \in 1..n : s[i] # t[j]
    <3> SUFFICES ASSUME NEW i \in 1..m, NEW j \in 1..n, s[i] = t[j] PROVE FALSE
      OBVIOUS
    <3>1. i = j + m
      BY <1>1, <1>3, <1>4, <1>8 DEF Once
    <3> QED BY <1>1, <3>1
  <2> QED BY <1>1, <2>1, <2>2, <2>3 DEF Once, ToSet
<1> QED
  BY <1>1, <1>6, <1>7, <1>8 DEF u

\* RemoveFirst() takes a thread off the queue it is on once.
LEMMA RemoveFirstAt ==
  ASSUME NEW T, NEW s \in Seq(T), NEW x
  PROVE  /\ x \notin ToSet(s) => RemoveFirst(s, x) = s
         /\ x \in ToSet(s) => \E k \in 1..Len(s) : s[k] = x /\ RemoveFirst(s, x) = RemoveAt(s, k)
<1>1. ASSUME x \notin ToSet(s) PROVE RemoveFirst(s, x) = s
  BY <1>1, ToSetContains DEF RemoveFirst, Contains
<1>2. ASSUME x \in ToSet(s)
      PROVE  \E k \in 1..Len(s) : s[k] = x /\ RemoveFirst(s, x) = RemoveAt(s, k)
  <2> DEFINE I == {i \in 1..Len(s) : s[i] = x}
  <2>1. I # {} /\ I \subseteq Nat
    BY <1>2 DEF ToSet
  <2>2. \E i \in I : \A j \in I : i <= j
    BY <2>1, LeastNumber
  <2>3. RemoveFirst(s, x) = RemoveAt(s, Min(I))
    BY <2>1 DEF RemoveFirst, SelectInSeq
  <2>4. Min(I) \in I
    BY <2>2 DEF Min
  <2> QED BY <2>3, <2>4
<1> QED
  BY <1>1, <1>2

LEMMA RemoveFirstType ==
  ASSUME NEW T, NEW s \in Seq(T), NEW x
  PROVE  RemoveFirst(s, x) \in Seq(T)
<1>1. CASE x \notin ToSet(s)
  BY <1>1, RemoveFirstAt
<1>2. CASE x \in ToSet(s)
  <2>1. PICK k \in 1..Len(s) : RemoveFirst(s, x) = RemoveAt(s, k)
    BY <1>2, RemoveFirstAt
  <2> DEFINE a == SubSeq(s, 1, k - 1)
             b == SubSeq(s, k + 1, Len(s))
  <2>2. a \in Seq(T) /\ b \in Seq(T)
    OBVIOUS
  <2>3. RemoveFirst(s, x) = a \o b
    BY <2>1 DEF RemoveAt
  <2> HIDE DEF a, b
  <2> QED BY <2>2, <2>3, ConcatElements
<1> QED
  BY <1>1, <1>2

LEMMA RemoveFirstThose ==
  ASSUME NEW T, NEW s \in Seq(T), NEW x, Once(s)
  PROVE  RemoveFirst(s, x) = Those(s, T \ {x})
<1>1. CASE x \notin ToSet(s)
  <2>1. RemoveFirst(s, x) = s
    BY <1>1, RemoveFirstAt
  <2>2. ToSet(s) \subseteq T \ {x}
    BY <1>1, ToSetContains
  <2> QED BY <2>1, <2>2, ThoseAll
<1>2. CASE x \in ToSet(s)
  <2>5. PICK k \in 1..Len(s) : s[k] = x /\ RemoveFirst(s, x) = RemoveAt(s, k)
    BY <1>2, RemoveFirstAt
  <2> DEFINE a == SubSeq(s, 1, k - 1)
             b == SubSeq(s, k + 1, Len(s))
             c == <<x>> \o b
  <2>6. a \in Seq(T) /\ b \in Seq(T) /\ <<x>> \in Seq(T) /\ c \in Seq(T) /\ x \in T
    BY <2>5
  <2>7. s = a \o c
    <3>1. Len(s) \in Nat /\ Len(a) = k - 1 /\ Len(b) = Len(s) - k
      BY <2>5
    <3>2. Len(c) = Len(s) - k + 1 /\ c[1] = x /\ \A i \in 2..(Len(s) - k + 1) : c[i] = b[i - 1]
      BY <2>6, <3>1
    <3>3. \A i \in 1..(Len(s) - k) : b[i] = s[k + i]
      BY <2>5, <3>1
    <3>4. \A i \in 1..(k - 1) : a[i] = s[i]
      BY <2>5
    <3> HIDE DEF a, b, c
    <3>5. a \o c \in Seq(T) /\ Len(a \o c) = Len(s)
      <4>1. a \o c \in Seq(T) /\ Len(a \o c) = Len(a) + Len(c)
        BY <2>6
      <4>2. Len(s) \in Nat /\ k \in 1..Len(s) /\ Len(a) = k - 1 /\ Len(c) = Len(s) - k + 1
        BY <3>1, <3>2
      <4> QED BY <4>1, <4>2
    <3>6. ASSUME NEW i \in 1..Len(s) PROVE (a \o c)[i] = s[i]
      <4>1. (a \o c)[i] = IF i <= k - 1 THEN a[i] ELSE c[i - (k - 1)]
        BY <2>6, <3>1, <3>2
      <4>2. CASE i <= k - 1
        BY <3>4, <4>1, <4>2
      <4>3. CASE i = k
        BY <2>5, <3>2, <4>1, <4>3
      <4>4. CASE i > k
        <5>1. /\ i - (k - 1) \in 2..(Len(s) - k + 1) /\ i - (k - 1) - 1 = i - k
              /\ i - k \in 1..(Len(s) - k) /\ k + (i - k) = i /\ ~(i <= k - 1)
          BY <3>1, <4>4
        <5>2. c[i - (k - 1)] = b[i - k]
          BY <3>2, <5>1
        <5>3. b[i - k] = s[i]
          BY <3>3, <5>1
        <5> QED BY <4>1, <5>1, <5>2, <5>3
      <4>5. i <= k - 1 \/ i = k \/ i > k
        BY <3>1
      <4> QED BY <4>2, <4>3, <4>4, <4>5
    <3> QED
      <4> DEFINE z == a \o c
      <4>1. z \in Seq(T) /\ Len(z) = Len(s) /\ \A i \in 1..Len(s) : z[i] = s[i]
        BY <3>5, <3>6
      <4> HIDE DEF z
      <4>2. z = s
        BY <4>1
      <4> QED BY <4>2 DEF z
  <2>8. RemoveFirst(s, x) = a \o b
    BY <2>5 DEF RemoveAt
  <2> HIDE DEF a, b
  <2>9. Once(c) /\ ToSet(a) \cap ToSet(c) = {}
    BY <2>6, <2>7, ConcatElements
  <2>10. ToSet(<<x>>) = {x}
    BY DEF ToSet
  <2>11. x \notin ToSet(b) /\ ToSet(c) = {x} \cup ToSet(b)
    <3> DEFINE e == <<x>>
    <3>1. e \in Seq(T) /\ b \in Seq(T) /\ Once(e \o b) /\ ToSet(e) = {x} /\ c = e \o b
      BY <2>6, <2>9, <2>10
    <3> HIDE DEF e, c
    <3>2. ToSet(e \o b) = ToSet(e) \cup ToSet(b) /\ ToSet(e) \cap ToSet(b) = {}
      BY <3>1, ConcatElements
    <3> QED BY <3>1, <3>2
  <2> HIDE DEF c
  <2>12. Those(a \o c, T \ {x}) = Those(a, T \ {x}) \o Those(c, T \ {x})
    <3>1. Those(Concat(a, c), T \ {x}) = Concat(Those(a, T \ {x}), Those(c, T \ {x}))
      BY <2>6, ThoseConcat
    <3> QED BY <3>1 DEF Concat
  <2>13. Those(c, T \ {x}) = Those(<<x>>, T \ {x}) \o Those(b, T \ {x})
    <3> DEFINE e == <<x>>
    <3>1. e \in Seq(T) /\ c = e \o b
      BY <2>6 DEF c
    <3> HIDE DEF e
    <3>2. Those(Concat(e, b), T \ {x}) = Concat(Those(e, T \ {x}), Those(b, T \ {x}))
      BY <2>6, <3>1, ThoseConcat
    <3> QED BY <3>1, <3>2 DEF e, Concat
  <2>14. Those(<<x>>, T \ {x}) = <<>>
    BY <2>6, <2>10, ThoseNone
  <2>15. Those(b, T \ {x}) = b /\ Those(a, T \ {x}) = a
    BY <2>6, <2>9, <2>11, ToSetContains, ThoseAll
  <2>16. <<>> \o b = b
    BY <2>6
  <2> QED BY <2>7, <2>8, <2>12, <2>13, <2>14, <2>15, <2>16
<1> QED
  BY <1>1, <1>2

LEMMA TailThose ==
  ASSUME NEW T, NEW s \in Seq(T), Once(s), s # <<>>
  PROVE  Those(s, T \ {Head(s)}) = Tail(s)
<1> DEFINE h == Head(s)
           r == Tail(s)
<1>1. h \in T /\ r \in Seq(T) /\ h \notin ToSet(r)
  BY TailElements
<1>2. s = <<h>> \o r
  OBVIOUS
<1> HIDE DEF h, r
<1>3. <<h>> \in Seq(T) /\ ToSet(<<h>>) = {h}
  BY <1>1 DEF ToSet
<1>4. Those(<<h>> \o r, T \ {h}) = Those(<<h>>, T \ {h}) \o Those(r, T \ {h})
  <2> DEFINE e == <<h>>
  <2>1. e \in Seq(T)
    BY <1>3
  <2> HIDE DEF e
  <2>2. Those(Concat(e, r), T \ {h}) = Concat(Those(e, T \ {h}), Those(r, T \ {h}))
    BY <1>1, <2>1, ThoseConcat
  <2> QED BY <2>2 DEF e, Concat
<1>5. Those(<<h>>, T \ {h}) = <<>>
  BY <1>3, ThoseNone
<1>6. Those(r, T \ {h}) = r
  BY <1>1, ToSetContains, ThoseAll
<1>7. <<>> \o r = r
  BY <1>1
<1>8. Those(s, T \ {h}) = r
  BY <1>2, <1>4, <1>5, <1>6, <1>7
<1> QED
  BY <1>8 DEF h, r

(***************************************************************************)
(* The loops that fill the slots of a table.                               *)
(***************************************************************************)
Fillings(n) == [slots : [0..(n - 1) -> Nat], reusable : Seq(Nat), number : Nat]

\* Every bucket is in one slot or can be reused; m buckets were created before.
Accounts(r, n, m) ==
  /\ r \in Fillings(n)
  /\ Distinct(r.slots) /\ Once(r.reusable) /\ NoBucket \notin ToSet(r.reusable)
  /\ BucketsOf(r.slots) \cap ToSet(r.reusable) = {}
  /\ (BucketsOf(r.slots) \cup ToSet(r.reusable)) \ {NoBucket} = 1..r.number
  /\ m <= r.number /\ (r.reusable # <<>> => r.number = m)

\* The buckets that r has placed stay where they are in q.
Extended(r, q) ==
  /\ DOMAIN q.slots = DOMAIN r.slots
  /\ \A j \in DOMAIN r.slots : r.slots[j] # NoBucket => q.slots[j] = r.slots[j]

LEMMA FillSlotType ==
  ASSUME NEW n \in Nat, NEW r \in Fillings(n), NEW i \in 0..(n - 1)
  PROVE  FillSlot(r, i) \in Fillings(n)
<1>1. r.reusable # <<>> => Last(r.reusable) \in Nat /\ Front(r.reusable) \in Seq(Nat)
  BY FrontElements DEF Fillings
<1> QED
  BY <1>1 DEF Fillings, FillSlot

\* What a slot that is filled with a bucket that was in no slot does to a table.
LEMMA SlotFilled ==
  ASSUME NEW n \in Nat, NEW f \in [0..(n - 1) -> Nat], Distinct(f),
         NEW i \in 0..(n - 1), f[i] = NoBucket, NEW b \in Nat \ {0}, b \notin BucketsOf(f),
         NEW g \in [0..(n - 1) -> Nat], g[i] = b, \A j \in 0..(n - 1) : j # i => g[j] = f[j]
  PROVE  /\ Distinct(g)
         /\ BucketsOf(g) \ {NoBucket} = (BucketsOf(f) \ {NoBucket}) \cup {b}
         /\ b \in BucketsOf(g)
<1>1. Distinct(g)
  BY DEF Distinct, BucketsOf
<1>2. BucketsOf(g) \ {NoBucket} = (BucketsOf(f) \ {NoBucket}) \cup {b}
  BY DEF BucketsOf, NoBucket
<1>3. b \in BucketsOf(g)
  BY DEF BucketsOf
<1> QED
  BY <1>1, <1>2, <1>3

LEMMA FillSlotAccounts ==
  ASSUME NEW n \in Nat, NEW m \in Nat, NEW r, Accounts(r, n, m), NEW i \in 0..(n - 1)
  PROVE  /\ Accounts(FillSlot(r, i), n, m)
         /\ Extended(r, FillSlot(r, i))
         /\ FillSlot(r, i).slots[i] # NoBucket
<1> DEFINE f == r.slots
           s == r.reusable
           k == r.number
           q == FillSlot(r, i)
<1>1. /\ r \in Fillings(n) /\ f \in [0..(n - 1) -> Nat] /\ s \in Seq(Nat) /\ k \in Nat
      /\ Distinct(f) /\ Once(s) /\ NoBucket \notin ToSet(s)
      /\ BucketsOf(f) \cap ToSet(s) = {}
      /\ (BucketsOf(f) \cup ToSet(s)) \ {NoBucket} = 1..k
      /\ m <= k /\ (s # <<>> => k = m)
  BY DEF Accounts, Fillings
<1>2. CASE f[i] # NoBucket
  <2>1. q = r
    BY <1>2 DEF FillSlot
  <2> QED BY <1>1, <1>2, <2>1 DEF Extended
<1>3. CASE f[i] = NoBucket /\ s = <<>>
  <2>1. q = [slots |-> [f EXCEPT ![i] = k + 1], reusable |-> <<>>, number |-> k + 1]
    BY <1>3 DEF FillSlot
  <2> DEFINE g == [f EXCEPT ![i] = k + 1]
             b == k + 1
  <2>2. q \in Fillings(n) /\ q.slots = g /\ q.reusable = <<>> /\ q.number = k + 1
    <3>1. q \in Fillings(n)
      BY <1>1, FillSlotType
    <3> QED BY <2>1, <3>1
  <2>3. b \in Nat \ {0} /\ b \notin BucketsOf(f) /\ 1..b = (1..k) \cup {b}
    <3> HIDE DEF f, k, s, q
    <3>0. k \in Nat
      BY <1>1
    <3>1. b \in Nat \ {0} /\ 1..b = (1..k) \cup {b} /\ b \notin 1..k
      BY <3>0
    <3> QED BY <1>1, <3>1 DEF NoBucket
  <2>4. ToSet(<<>>) = {} /\ Once(<<>>)
    BY EmptyElements
  <2>5. g[i] = b /\ DOMAIN g = DOMAIN f /\ \A j \in DOMAIN f : f[j] # NoBucket => g[j] = f[j]
    BY <1>1, <1>3
  <2>6. g \in [0..(n - 1) -> Nat] /\ \A j \in 0..(n - 1) : j # i => g[j] = f[j]
    BY <1>1, <2>3
  <2>7. m <= k + 1
    BY <1>1
  <2> HIDE DEF q, f, s, k, b, g
  <2>8. /\ Distinct(g) /\ BucketsOf(g) \ {NoBucket} = (BucketsOf(f) \ {NoBucket}) \cup {b}
    <3>1. f \in [0..(n - 1) -> Nat] /\ Distinct(f) /\ f[i] = NoBucket
      BY <1>1, <1>3
    <3>2. b \in Nat \ {0} /\ b \notin BucketsOf(f) /\ g[i] = b
      BY <2>3, <2>5
    <3> QED BY <2>6, <3>1, <3>2, SlotFilled
  <2>9. (BucketsOf(g) \cup ToSet(<<>>)) \ {NoBucket} = 1..b
    BY <1>1, <1>3, <2>3, <2>4, <2>8
  <2>10. Accounts(q, n, m)
    BY <2>2, <2>4, <2>7, <2>8, <2>9 DEF Accounts, b
  <2>11. b # NoBucket
    BY <2>3 DEF NoBucket
  <2> QED BY <2>2, <2>5, <2>10, <2>11 DEF Extended, q, f
<1>4. CASE f[i] = NoBucket /\ s # <<>>
  <2> DEFINE b == Last(s)
             p == Front(s)
             g == [f EXCEPT ![i] = b]
  <2>1. q = [slots |-> g, reusable |-> p, number |-> k]
    BY <1>4 DEF FillSlot
  <2>2. /\ b \in Nat /\ p \in Seq(Nat) /\ b \in ToSet(s) /\ ToSet(s) = ToSet(p) \cup {b}
        /\ Once(p) /\ b \notin ToSet(p)
    BY <1>1, <1>4, FrontElements
  <2>3. q \in Fillings(n) /\ q.slots = g /\ q.reusable = p /\ q.number = k
    <3>1. q \in Fillings(n)
      BY <1>1, FillSlotType
    <3> QED BY <2>1, <3>1
  <2>4. g[i] = b /\ DOMAIN g = DOMAIN f /\ \A j \in DOMAIN f : f[j] # NoBucket => g[j] = f[j]
    BY <1>1, <1>4
  <2>5. b \in Nat \ {0} /\ b \notin BucketsOf(f)
    BY <1>1, <2>2 DEF NoBucket
  <2>6. g \in [0..(n - 1) -> Nat] /\ \A j \in 0..(n - 1) : j # i => g[j] = f[j]
    BY <1>1, <2>5
  <2> HIDE DEF q, f, s, k, b, p, g
  <2>7. /\ Distinct(g) /\ BucketsOf(g) \ {NoBucket} = (BucketsOf(f) \ {NoBucket}) \cup {b}
    <3>1. f \in [0..(n - 1) -> Nat] /\ Distinct(f) /\ f[i] = NoBucket
      BY <1>1, <1>4
    <3>2. b \in Nat \ {0} /\ b \notin BucketsOf(f) /\ g[i] = b
      BY <2>4, <2>5
    <3> QED BY <2>6, <3>1, <3>2, SlotFilled
  <2>8. NoBucket \notin ToSet(p) /\ BucketsOf(g) \cap ToSet(p) = {}
    <3>1. NoBucket \notin ToSet(p)
      BY <1>1, <2>2
    <3>2. ASSUME NEW x \in BucketsOf(g), x \in ToSet(p) PROVE FALSE
      BY <1>1, <2>2, <2>7, <3>1, <3>2
    <3> QED BY <3>1, <3>2
  <2>9. (BucketsOf(g) \cup ToSet(p)) \ {NoBucket} = 1..k
    BY <1>1, <2>2, <2>5, <2>7 DEF NoBucket
  <2>10. Accounts(q, n, m)
    BY <1>1, <1>4, <2>2, <2>3, <2>7, <2>8, <2>9 DEF Accounts
  <2>11. b # NoBucket
    BY <2>5 DEF NoBucket
  <2> QED BY <2>3, <2>4, <2>10, <2>11 DEF Extended, q, f
<1> QED
  BY <1>2, <1>3, <1>4

IsFillLoop(f, r, s) ==
  /\ f[0] = r /\ FillSlots(r, s) = f[Len(s)]
  /\ \A i \in 1..Len(s) : f[i] = FillSlot(f[i - 1], s[i])

LEMMA FillSlotsLoop ==
  ASSUME NEW n \in Nat, NEW r \in Fillings(n), NEW s \in Seq(0..(n - 1))
  PROVE  \E f : IsFillLoop(f, r, s)
<1> DEFINE l == Len(s)
           S == Fillings(n)
           Is(f) == f = [i \in 0..l |-> IF i = 0 THEN r ELSE FillSlot(f[i - 1], s[i])]
           Turn(i, q) == IF i \in 1..l THEN FillSlot(q, s[i]) ELSE q
           step == [z \in Nat \X S |-> Turn(z[1], z[2])]
<1>1. l \in Nat /\ r \in S /\ \A i \in 1..l : s[i] \in 0..(n - 1)
  OBVIOUS
<1>2. FillSlots(r, s) = (CHOOSE f : Is(f))[l]
  BY DEF FillSlots
<1>3. ASSUME NEW i \in Nat, NEW q \in S PROVE Turn(i, q) \in S
  BY <1>1, FillSlotType
<1> HIDE DEF l, Turn, S
<1>4. step \in [Nat \X S -> S] /\ \A i \in Nat, q \in S : step[<<i, q>>] = Turn(i, q)
  BY <1>3
<1> HIDE DEF step
<1>5. PICK g \in [0..l -> S] : g[0] = r /\ \A i \in 1..l : g[i] = step[<<i, g[i - 1]>>]
  <2>1. \E f \in [0..l -> S] : IsLoop(f, r, step, l)
    BY <1>1, <1>4, LoopExists
  <2> QED BY <2>1 DEF IsLoop
<1>6. ASSUME NEW i \in 1..l PROVE g[i] = Turn(i, g[i - 1])
  <2>1. i \in Nat /\ i - 1 \in 0..l
    BY <1>1
  <2>2. g[i - 1] \in S
    BY <2>1
  <2> QED BY <1>4, <1>5, <2>1, <2>2
<1>7. \A i \in 1..l : g[i] = FillSlot(g[i - 1], s[i])
  BY <1>6 DEF Turn
<1>8. ASSUME NEW i \in 0..l
      PROVE  g[i] = IF i = 0 THEN r ELSE FillSlot(g[i - 1], s[i])
  <2>1. i = 0 \/ i \in 1..l
    BY <1>1
  <2>2. CASE i = 0
    BY <1>5, <2>2
  <2>3. CASE i # 0
    BY <1>7, <2>1, <2>3, Zenon
  <2> QED BY <2>2, <2>3
<1>9. Is(g)
  BY <1>8
<1>10. PICK f : Is(f) /\ FillSlots(r, s) = f[l]
  BY <1>2, <1>9
<1>11. f[0] = r
  BY <1>1, <1>10
<1>12. ASSUME NEW i \in 1..l PROVE f[i] = FillSlot(f[i - 1], s[i])
  <2>1. i \in 0..l /\ i # 0
    BY <1>1
  <2> QED BY <1>10, <2>1, Zenon
<1>13. IsFillLoop(f, r, s)
  BY <1>10, <1>11, <1>12 DEF l, IsFillLoop
<1> QED
  BY <1>13

\* The slots of s have buckets in the end, and no bucket was lost.
LEMMA FillSlotsAccounts ==
  ASSUME NEW n \in Nat, NEW m \in Nat, NEW r, Accounts(r, n, m), NEW s \in Seq(0..(n - 1))
  PROVE  /\ Accounts(FillSlots(r, s), n, m)
         /\ Extended(r, FillSlots(r, s))
         /\ \A k \in DOMAIN s : FillSlots(r, s).slots[s[k]] # NoBucket
<1> DEFINE l == Len(s)
           Good == [i \in 0..l |-> {q \in Fillings(n) : /\ Accounts(q, n, m)
                                                       /\ Extended(r, q)
                                                       /\ \A k \in 1..i : q.slots[s[k]] # NoBucket}]
<1>1. l \in Nat /\ DOMAIN s = 1..l /\ \A i \in 1..l : s[i] \in 0..(n - 1)
  OBVIOUS
<1>2. r \in Fillings(n) /\ \A q : Accounts(q, n, m) => q \in Fillings(n) /\ DOMAIN q.slots = 0..(n - 1)
  BY DEF Accounts, Fillings
<1>a. PICK f : IsFillLoop(f, r, s)
  BY <1>2, FillSlotsLoop
<1>3. f[0] = r /\ FillSlots(r, s) = f[l] /\ \A i \in 1..l : f[i] = FillSlot(f[i - 1], s[i])
  BY <1>a DEF IsFillLoop
<1> HIDE DEF l
<1>4. f[0] \in Good[0]
  <2>1. Extended(r, r)
    BY DEF Extended
  <2> QED BY <1>1, <1>2, <1>3, <2>1
<1>5. ASSUME NEW i \in 1..l, f[i - 1] \in Good[i - 1] PROVE f[i] \in Good[i]
  <2> DEFINE p == f[i - 1]
             q == FillSlot(p, s[i])
  <2>1. i \in 0..l /\ i - 1 \in 0..l /\ s[i] \in 0..(n - 1) /\ f[i] = q
    BY <1>1, <1>3
  <2>2. p \in Fillings(n) /\ Accounts(p, n, m) /\ Extended(r, p) /\ \A k \in 1..(i - 1) : p.slots[s[k]] # NoBucket
    BY <1>5, <2>1
  <2>3. Accounts(q, n, m) /\ Extended(p, q) /\ q.slots[s[i]] # NoBucket
    BY <2>1, <2>2, FillSlotAccounts
  <2> HIDE DEF p, q
  <2>4. Extended(r, q)
    BY <2>2, <2>3 DEF Extended
  <2>5. ASSUME NEW k \in 1..i PROVE q.slots[s[k]] # NoBucket
    <3>1. s[k] \in DOMAIN p.slots /\ (k = i \/ k \in 1..(i - 1))
      BY <1>1, <1>2, <2>1, <2>2
    <3> QED BY <2>2, <2>3, <3>1 DEF Extended
  <2>6. q \in Fillings(n)
    BY <1>2, <2>3
  <2> QED BY <2>1, <2>3, <2>4, <2>5, <2>6
<1> HIDE DEF Good
<1>6. \A i \in 0..l : f[i] \in Good[i]
  BY <1>1, <1>4, <1>5, LoopStays
<1>7. l \in 0..l /\ f[l] \in Good[l]
  BY <1>1, <1>6
<1> QED
  BY <1>1, <1>3, <1>7 DEF Good

IsPlaceLoop(f, r, n) ==
  /\ f[0] = r /\ PlaceBuckets(r, n) = f[n]
  /\ \A i \in 1..n : f[i] = PlaceBucket(f[i - 1], i - 1)

LEMMA PlaceBucketsLoop ==
  ASSUME NEW n \in Nat, NEW r \in Fillings(n)
  PROVE  \E f : IsPlaceLoop(f, r, n)
<1> DEFINE S == Fillings(n)
           Is(f) == f = [i \in 0..n |-> IF i = 0 THEN r ELSE PlaceBucket(f[i - 1], i - 1)]
           Turn(i, q) == IF i \in 1..n THEN PlaceBucket(q, i - 1) ELSE q
           step == [z \in Nat \X S |-> Turn(z[1], z[2])]
<1>2. PlaceBuckets(r, n) = (CHOOSE f : Is(f))[n]
  BY DEF PlaceBuckets
<1>3. ASSUME NEW i \in Nat, NEW q \in S PROVE Turn(i, q) \in S
  <2>1. i \in 1..n => i - 1 \in 0..(n - 1)
    OBVIOUS
  <2> QED BY <2>1, FillSlotType DEF PlaceBucket
<1> HIDE DEF Turn, S
<1>4. step \in [Nat \X S -> S] /\ \A i \in Nat, q \in S : step[<<i, q>>] = Turn(i, q)
  BY <1>3
<1> HIDE DEF step
<1>5. PICK g \in [0..n -> S] : g[0] = r /\ \A i \in 1..n : g[i] = step[<<i, g[i - 1]>>]
  <2>1. \E f \in [0..n -> S] : IsLoop(f, r, step, n)
    BY <1>4, LoopExists DEF S
  <2> QED BY <2>1 DEF IsLoop
<1>6. ASSUME NEW i \in 1..n PROVE g[i] = Turn(i, g[i - 1])
  <2>1. i \in Nat /\ i - 1 \in 0..n
    OBVIOUS
  <2>2. g[i - 1] \in S
    BY <2>1
  <2> QED BY <1>4, <1>5, <2>1, <2>2
<1>7. \A i \in 1..n : g[i] = PlaceBucket(g[i - 1], i - 1)
  BY <1>6 DEF Turn
<1>8. ASSUME NEW i \in 0..n
      PROVE  g[i] = IF i = 0 THEN r ELSE PlaceBucket(g[i - 1], i - 1)
  <2>1. i = 0 \/ i \in 1..n
    OBVIOUS
  <2>2. CASE i = 0
    BY <1>5, <2>2
  <2>3. CASE i # 0
    BY <1>7, <2>1, <2>3, Zenon
  <2> QED BY <2>2, <2>3
<1>9. Is(g)
  BY <1>8
<1>10. PICK f : Is(f) /\ PlaceBuckets(r, n) = f[n]
  BY <1>2, <1>9
<1>11. f[0] = r
  BY <1>10
<1>12. ASSUME NEW i \in 1..n PROVE f[i] = PlaceBucket(f[i - 1], i - 1)
  <2>1. i \in 0..n /\ i # 0
    OBVIOUS
  <2> QED BY <1>10, <2>1, Zenon
<1>13. IsPlaceLoop(f, r, n)
  BY <1>10, <1>11, <1>12 DEF IsPlaceLoop
<1> QED
  BY <1>13

LEMMA IntervalSize ==
  ASSUME NEW n \in Nat
  PROVE  /\ IsFiniteSet(0..(n - 1)) /\ Cardinality(0..(n - 1)) = n
         /\ IsFiniteSet(1..n) /\ Cardinality(1..n) = n
<1>1. 0 \in Int /\ 1 \in Int /\ n - 1 \in Int /\ n \in Int
  OBVIOUS
<1>2. IsFiniteSet(0..(n - 1)) /\ Cardinality(0..(n - 1)) = IF 0 > n - 1 THEN 0 ELSE (n - 1) - 0 + 1
  BY <1>1, FS_Interval
<1>3. IsFiniteSet(1..n) /\ Cardinality(1..n) = IF 1 > n THEN 0 ELSE n - 1 + 1
  BY <1>1, FS_Interval
<1> QED
  BY <1>2, <1>3

\* "Since we increased the size of the hashtable, we should have exhausted our
\* preallocated buckets by now."
LEMMA PlaceBucketsAccounts ==
  ASSUME NEW n \in Nat, NEW m \in Nat, NEW r, Accounts(r, n, m), m < n
  PROVE  /\ Accounts(PlaceBuckets(r, n), n, m)
         /\ Extended(r, PlaceBuckets(r, n))
         /\ PlaceBuckets(r, n).reusable = <<>>
<1> DEFINE Good == [i \in 0..n |-> {q \in Fillings(n) :
                      /\ Accounts(q, n, m)
                      /\ Extended(r, q)
                      /\ q.reusable = <<>> \/ \A k \in 0..(i - 1) : q.slots[k] # NoBucket}]
<1>1. r \in Fillings(n) /\ \A q : Accounts(q, n, m) => q \in Fillings(n) /\ DOMAIN q.slots = 0..(n - 1)
  BY DEF Accounts, Fillings
<1>a. PICK f : IsPlaceLoop(f, r, n)
  BY <1>1, PlaceBucketsLoop
<1>2. f[0] = r /\ PlaceBuckets(r, n) = f[n] /\ \A i \in 1..n : f[i] = PlaceBucket(f[i - 1], i - 1)
  BY <1>a DEF IsPlaceLoop
<1>3. f[0] \in Good[0]
  <2>1. Extended(r, r)
    BY DEF Extended
  <2> QED BY <1>1, <1>2, <2>1
<1>4. ASSUME NEW i \in 1..n, f[i - 1] \in Good[i - 1] PROVE f[i] \in Good[i]
  <2> DEFINE p == f[i - 1]
             q == FillSlot(p, i - 1)
  <2>1. i \in 0..n /\ i - 1 \in 0..n /\ i - 1 \in 0..(n - 1)
    OBVIOUS
  <2>2. f[i] = IF p.reusable = <<>> THEN p ELSE q
    BY <1>2 DEF PlaceBucket
  <2>3. /\ p \in Fillings(n) /\ Accounts(p, n, m) /\ Extended(r, p)
        /\ p.reusable = <<>> \/ \A k \in 0..(i - 1 - 1) : p.slots[k] # NoBucket
    BY <1>4, <2>1
  <2>4. Accounts(q, n, m) /\ Extended(p, q) /\ q.slots[i - 1] # NoBucket
    BY <2>1, <2>3, FillSlotAccounts
  <2> HIDE DEF p, q
  <2>5. Extended(r, q)
    BY <2>3, <2>4 DEF Extended
  <2>6. q \in Fillings(n)
    BY <1>1, <2>4
  <2>7. CASE p.reusable = <<>>
    BY <2>1, <2>2, <2>3, <2>7
  <2>8. CASE p.reusable # <<>>
    <3>1. ASSUME NEW k \in 0..(i - 1) PROVE q.slots[k] # NoBucket
      <4>1. k \in DOMAIN p.slots /\ (k = i - 1 \/ k \in 0..(i - 1 - 1))
        BY <1>1, <2>3
      <4> QED BY <2>3, <2>4, <2>8, <4>1 DEF Extended
    <3> QED BY <2>1, <2>2, <2>4, <2>5, <2>6, <2>8, <3>1
  <2> QED BY <2>7, <2>8
<1> HIDE DEF Good
<1>5. \A i \in 0..n : f[i] \in Good[i]
  BY <1>3, <1>4, LoopStays
<1>6. n \in 0..n /\ f[n] \in Good[n]
  BY <1>5
<1> DEFINE q == f[n]
<1>7. /\ Accounts(q, n, m) /\ Extended(r, q)
      /\ q.reusable = <<>> \/ \A k \in 0..(n - 1) : q.slots[k] # NoBucket
  BY <1>6 DEF Good
<1> HIDE DEF q
<1>8. ASSUME q.reusable # <<>> PROVE FALSE
  <2> DEFINE g == q.slots
  <2>1. g \in [0..(n - 1) -> Nat] /\ Distinct(g) /\ BucketsOf(g) \ {NoBucket} \subseteq 1..m
    BY <1>7, <1>8 DEF Accounts, Fillings
  <2>2. \A k \in 0..(n - 1) : g[k] # NoBucket
    BY <1>7, <1>8
  <2> HIDE DEF g
  <2>3. g \in [0..(n - 1) -> 1..m]
    BY <2>1, <2>2 DEF BucketsOf
  <2>4. \A j, k \in 0..(n - 1) : g[j] = g[k] => j = k
    BY <2>1, <2>2 DEF Distinct
  <2> DEFINE S == 0..(n - 1)
             U == 1..m
  <2>5. IsFiniteSet(S) /\ IsFiniteSet(U) /\ Cardinality(U) < Cardinality(S)
    BY IntervalSize
  <2>6. g \in [S -> U] /\ \A j, k \in S : g[j] = g[k] => j = k
    BY <2>3, <2>4
  <2> HIDE DEF S, U
  <2> QED BY <2>5, <2>6, FS_PigeonHole
<1> QED
  BY <1>2, <1>7, <1>8 DEF q

(***************************************************************************)
(* The order of the buckets, and the threads gathered from their queues.   *)
(***************************************************************************)
Enumerates(s, B) ==
  /\ s \in [1..Cardinality(B) -> B]
  /\ \A i, j \in DOMAIN s : i < j => s[i] < s[j]

LEMMA Enumeration ==
  ASSUME NEW n \in Nat, NEW B \in SUBSET (0..(n - 1))
  PROVE  \E s : Enumerates(s, B)
<1> DEFINE M == {m \in Nat : \A C \in SUBSET (0..(m - 1)) : \E s : Enumerates(s, C)}
<1>1. 0 \in M
  <2> SUFFICES ASSUME NEW C \in SUBSET (0..(0 - 1)) PROVE \E s : Enumerates(s, C)
    OBVIOUS
  <2>1. C = {}
    OBVIOUS
  <2>a. Cardinality(C) = 0
    BY <2>1, FS_EmptySet
  <2>2. Enumerates([i \in 1..0 |-> 0], C)
    BY <2>1, <2>a DEF Enumerates
  <2> QED BY <2>2
<1>2. ASSUME NEW m \in Nat, m \in M PROVE m + 1 \in M
  <2> SUFFICES ASSUME NEW C \in SUBSET (0..((m + 1) - 1)) PROVE \E s : Enumerates(s, C)
    OBVIOUS
  <2> DEFINE D == C \ {m}
             k == Cardinality(D)
  <2>1. D \in SUBSET (0..(m - 1)) /\ D \subseteq Nat /\ \A x \in D : x < m
    OBVIOUS
  <2>2. PICK s : Enumerates(s, D)
    BY <1>2, <2>1
  <2>3. CASE m \notin C
    <3>1. D = C
      BY <2>3
    <3> QED BY <2>2, <3>1
  <2>4. CASE m \in C
    <3>1. IsFiniteSet(D) /\ k \in Nat
      <4>1. IsFiniteSet(D)
        BY <2>1, FS_BoundedSetOfNaturals
      <4> QED BY <4>1, FS_CardinalityType
    <3>2. C = D \cup {m} /\ m \notin D
      BY <2>4
    <3>3. Cardinality(C) = k + 1
      BY <3>1, <3>2, FS_AddElement
    <3>4. s \in [1..k -> D] /\ \A i, j \in 1..k : i < j => s[i] < s[j]
      BY <2>2 DEF Enumerates
    <3> HIDE DEF D, k
    <3> DEFINE g == [i \in 1..(k + 1) |-> IF i = k + 1 THEN m ELSE s[i]]
    <3>5. g \in [1..(k + 1) -> C]
      BY <3>1, <3>2, <3>4
    <3>6. ASSUME NEW i \in 1..(k + 1), NEW j \in 1..(k + 1), i < j PROVE g[i] < g[j]
      <4>a. i \in 1..k /\ g[i] = s[i]
        BY <3>1, <3>6
      <4>b. s[i] \in D
        BY <3>4, <4>a
      <4>1. i \in 1..k /\ g[i] = s[i] /\ s[i] < m
        BY <2>1, <4>a, <4>b
      <4>2. CASE j = k + 1
        BY <4>1, <4>2
      <4>3. CASE j # k + 1
        <5>1. j \in 1..k /\ g[j] = s[j]
          BY <3>1, <4>3
        <5> QED BY <3>4, <3>6, <4>1, <5>1
      <4> QED BY <4>2, <4>3
    <3>7. Enumerates(g, C)
      BY <3>3, <3>5, <3>6 DEF Enumerates
    <3> QED BY <3>7
  <2> QED BY <2>3, <2>4
<1> HIDE DEF M
<1>3. Nat \subseteq M
  BY <1>1, <1>2, SetInduction
<1> QED
  BY <1>3 DEF M

LEMMA TableBuckets ==
  ASSUME NEW n \in Nat, NEW table \in [0..(n - 1) -> Nat]
  PROVE  /\ Size(table) = n
         /\ BucketsOf(table) \subseteq Nat
         /\ IsFiniteSet(BucketsOf(table)) /\ Cardinality(BucketsOf(table)) <= n
         /\ \E m \in Nat : BucketsOf(table) \subseteq 0..(m - 1)
<1> DEFINE B == BucketsOf(table)
           S == 0..(n - 1)
<1>1. IsFiniteSet(S) /\ Cardinality(S) = n
  BY IntervalSize
<1>2. DOMAIN table = S /\ B \subseteq Nat /\ B = {table[i] : i \in S}
  BY DEF BucketsOf
<1>3. table \in Surjection(S, B)
  <2>1. table \in [S -> B]
    BY <1>2
  <2>2. \A b \in B : \E i \in S : table[i] = b
    BY <1>2
  <2> HIDE DEF B, S
  <2> QED BY <2>1, <2>2 DEF Surjection
<1>4. IsFiniteSet(B) /\ Cardinality(B) <= Cardinality(S)
  <2> HIDE DEF B, S
  <2> QED BY <1>1, <1>3, FS_Surjection
<1>5. \E m \in Nat : B \subseteq 0..(m - 1)
  <2> DEFINE M == {k \in Nat : \E m \in Nat : \A i \in S : i < k => table[i] < m}
  <2>1. 0 \in M
    <3>1. \A i \in S : i < 0 => table[i] < 0
      OBVIOUS
    <3> QED BY <3>1
  <2>2. ASSUME NEW k \in Nat, k \in M PROVE k + 1 \in M
    <3>1. PICK m \in Nat : \A i \in S : i < k => table[i] < m
      BY <2>2
    <3>2. CASE k \in S
      <4>1. table[k] \in Nat
        BY <3>2
      <4> DEFINE l == m + table[k] + 1
      <4>2. l \in Nat /\ m < l /\ table[k] < l
        BY <4>1
      <4> HIDE DEF l
      <4>3. ASSUME NEW i \in S, i < k + 1 PROVE table[i] < l
        <5>1. table[i] \in Nat /\ (i = k \/ i < k)
          BY <4>3
        <5> QED BY <3>1, <4>2, <5>1
      <4> QED BY <4>2, <4>3
    <3>3. CASE k \notin S
      <4>1. \A i \in S : i < k + 1 => i < k
        BY <3>3
      <4>2. \A i \in S : i < k + 1 => table[i] < m
        BY <3>1, <4>1
      <4> QED BY <4>2
    <3> QED BY <3>2, <3>3
  <2> HIDE DEF M
  <2>3. n \in M
    BY <2>1, <2>2, SetInduction
  <2>4. PICK m \in Nat : \A i \in S : i < n => table[i] < m
    BY <2>3 DEF M
  <2>5. B \subseteq 0..(m - 1)
    BY <1>2, <2>4
  <2> QED BY <2>5
<1> QED
  BY <1>1, <1>2, <1>4, <1>5 DEF Size

LEMMA SortedElements ==
  ASSUME NEW n \in Nat, NEW table \in [0..(n - 1) -> Nat]
  PROVE  /\ SortedBuckets(table) \in Seq(BucketsOf(table))
         /\ Once(SortedBuckets(table))
         /\ ToSet(SortedBuckets(table)) = BucketsOf(table)
<1> DEFINE B == BucketsOf(table)
           s == SortedBuckets(table)
           c == Cardinality(B)
<1>1. B \subseteq Nat /\ IsFiniteSet(B)
  BY TableBuckets
<1>2. PICK m \in Nat : B \subseteq 0..(m - 1)
  BY TableBuckets
<1>3. c \in Nat
  BY <1>1, FS_CardinalityType
<1> HIDE DEF B
<1>4. \E x : Enumerates(x, B)
  BY <1>2, Enumeration
<1>5. s = CHOOSE x \in [1..c -> B] : \A i, j \in DOMAIN x : i < j => x[i] < x[j]
  BY DEF SortedBuckets, B
<1>6. s \in [1..c -> B] /\ \A i, j \in 1..c : i < j => s[i] < s[j]
  <2> HIDE DEF s
  <2>1. \E x \in [1..c -> B] : \A i, j \in DOMAIN x : i < j => x[i] < x[j]
    BY <1>4 DEF Enumerates
  <2> QED BY <1>5, <2>1
<1> HIDE DEF s, c
<1>7. \A i, j \in 1..c : s[i] = s[j] => i = j
  <2>1. ASSUME NEW i \in 1..c, NEW j \in 1..c, s[i] = s[j] PROVE i = j
    <3>0. s[i] \in B /\ s[j] \in B
      BY <1>6
    <3>a. s[i] \in Nat /\ s[j] \in Nat
      BY <1>1, <3>0
    <3>1. s[i] \in Nat /\ s[j] \in Nat /\ i \in Nat /\ j \in Nat
      BY <1>3, <3>a
    <3>2. ~(i < j) /\ ~(j < i)
      BY <1>6, <2>1, <3>1
    <3> QED BY <3>1, <3>2
  <2> QED BY <2>1
<1>8. s \in Seq(B) /\ DOMAIN s = 1..c
  BY <1>3, <1>6
<1>9. ToSet(s) = B
  <2> DEFINE I == 1..c
  <2>1. IsFiniteSet(I) /\ Cardinality(I) = c
    BY <1>3, IntervalSize
  <2>2. s \in [I -> B] /\ \A i, j \in I : s[i] = s[j] => i = j
    BY <1>6, <1>7
  <2> HIDE DEF I
  <2>3. s \in Injection(I, B)
    BY <2>2 DEF Injection, IsInjective
  <2>4. Cardinality(I) = Cardinality(B)
    BY <2>1 DEF c
  <2>5. s \in Surjection(I, B)
    BY <1>1, <2>3, <2>4, FS_Injection
  <2>6. \A b \in B : \E i \in I : s[i] = b
    BY <2>5 DEF Surjection
  <2> QED BY <2>2, <2>6, <1>8 DEF ToSet, I
<1> QED
  BY <1>7, <1>8, <1>9 DEF Once, B, s

IsGatherLoop(f, s) ==
  f[0] = <<>> /\ \A i \in 1..Len(s) : f[i] = Concat(f[i - 1], queues[s[i]])

LEMMA GatherLoop ==
  ASSUME NEW n \in Nat, NEW table \in [0..(n - 1) -> Nat], BucketsOf(table) \subseteq BucketIds,
         queues \in [BucketIds -> Seq(Threads)]
  PROVE  \E f : /\ IsGatherLoop(f, SortedBuckets(table))
                /\ GatheredThreads(table) = f[Len(SortedBuckets(table))]
<1> DEFINE s == SortedBuckets(table)
           m == Len(s)
           S == Seq(Threads)
           Is(f) == f = [i \in 0..m |-> IF i = 0 THEN <<>> ELSE Concat(f[i - 1], queues[s[i]])]
           Turn(i, q) == IF i \in 1..m THEN Concat(q, queues[s[i]]) ELSE q
           step == [z \in Nat \X S |-> Turn(z[1], z[2])]
<1>1. s \in Seq(BucketIds)
  BY SortedElements
<1>2. GatheredThreads(table) = (CHOOSE f : Is(f))[m]
  BY DEF GatheredThreads, Concat
<1> HIDE DEF s
<1>a. m \in Nat /\ \A i \in 1..m : s[i] \in BucketIds
  BY <1>1
<1> HIDE DEF m
<1>3. ASSUME NEW i \in Nat, NEW q \in S PROVE Turn(i, q) \in S
  BY <1>a DEF Concat
<1>b. <<>> \in S
  OBVIOUS
<1> HIDE DEF Turn, S
<1>4. step \in [Nat \X S -> S] /\ \A i \in Nat, q \in S : step[<<i, q>>] = Turn(i, q)
  BY <1>3
<1> HIDE DEF step
<1>5. PICK g \in [0..m -> S] : g[0] = <<>> /\ \A i \in 1..m : g[i] = step[<<i, g[i - 1]>>]
  <2> DEFINE e == <<>>
  <2>0. e \in S
    BY <1>b
  <2> HIDE DEF e
  <2>1. \E f \in [0..m -> S] : IsLoop(f, e, step, m)
    BY <1>4, <1>a, <2>0, LoopExists
  <2> QED BY <2>1 DEF IsLoop, e
<1>6. ASSUME NEW i \in 1..m PROVE g[i] = Turn(i, g[i - 1])
  <2>1. i \in Nat /\ i - 1 \in 0..m
    BY <1>a
  <2>2. g[i - 1] \in S
    BY <2>1
  <2> QED BY <1>4, <1>5, <2>1, <2>2
<1>7. \A i \in 1..m : g[i] = Concat(g[i - 1], queues[s[i]])
  BY <1>6 DEF Turn
<1>8. ASSUME NEW i \in 0..m
      PROVE  g[i] = IF i = 0 THEN <<>> ELSE Concat(g[i - 1], queues[s[i]])
  <2>1. i = 0 \/ i \in 1..m
    BY <1>a
  <2>2. CASE i = 0
    BY <1>5, <2>2
  <2>3. CASE i # 0
    BY <1>7, <2>1, <2>3, Zenon
  <2> QED BY <2>2, <2>3
<1>9. Is(g)
  BY <1>8
<1>10. PICK f : Is(f) /\ GatheredThreads(table) = f[m]
  BY <1>2, <1>9
<1>11. f[0] = <<>>
  BY <1>10, <1>a
<1>12. ASSUME NEW i \in 1..m PROVE f[i] = Concat(f[i - 1], queues[s[i]])
  <2>1. i \in 0..m /\ i # 0
    BY <1>a
  <2> QED BY <1>10, <2>1, Zenon
<1>13. IsGatherLoop(f, s)
  BY <1>11, <1>12 DEF IsGatherLoop, m
<1> QED
  BY <1>10, <1>13 DEF m, s

LEMMA GatheredElements ==
  ASSUME NEW n \in Nat, NEW table \in [0..(n - 1) -> Nat], BucketsOf(table) \subseteq BucketIds,
         queues \in [BucketIds -> Seq(Threads)], \A b \in BucketIds : Once(queues[b]),
         \A b, c \in BucketIds : b # c => ToSet(queues[b]) \cap ToSet(queues[c]) = {}
  PROVE  /\ GatheredThreads(table) \in Seq(Threads)
         /\ Once(GatheredThreads(table))
         /\ ToSet(GatheredThreads(table)) = UNION {ToSet(queues[b]) : b \in BucketsOf(table)}
<1> DEFINE s == SortedBuckets(table)
           m == Len(s)
           Q(i) == UNION {ToSet(queues[s[k]]) : k \in 1..i}
           Good == [i \in 0..m |-> {q \in Seq(Threads) : Once(q) /\ ToSet(q) = Q(i)}]
<1>1. s \in Seq(BucketIds) /\ Once(s) /\ ToSet(s) = BucketsOf(table)
  BY SortedElements
<1>2. PICK f : IsGatherLoop(f, s) /\ GatheredThreads(table) = f[m]
  BY GatherLoop
<1> HIDE DEF s
<1>3. f[0] = <<>> /\ \A i \in 1..m : f[i] = Concat(f[i - 1], queues[s[i]])
  BY <1>2 DEF IsGatherLoop
<1>4. m \in Nat /\ DOMAIN s = 1..m /\ \A i \in 1..m : s[i] \in BucketIds /\ queues[s[i]] \in Seq(Threads)
  BY <1>1
<1> HIDE DEF m
<1>7. f[0] \in Good[0]
  <2>1. 0 \in 0..m /\ Q(0) = {} /\ <<>> \in Seq(Threads)
    BY <1>4
  <2>2. ToSet(<<>>) = {} /\ Once(<<>>)
    BY EmptyElements
  <2> QED BY <1>3, <2>1, <2>2
<1>8. ASSUME NEW i \in 1..m, f[i - 1] \in Good[i - 1] PROVE f[i] \in Good[i]
  <2> DEFINE p == f[i - 1]
             q == queues[s[i]]
  <2>1. i \in 0..m /\ i - 1 \in 0..m /\ 1..i = (1..(i - 1)) \cup {i} /\ i \notin 1..(i - 1)
    BY <1>4
  <2>2. p \in Seq(Threads) /\ Once(p) /\ ToSet(p) = Q(i - 1)
    BY <1>8, <2>1
  <2>3. q \in Seq(Threads) /\ Once(q)
    BY <1>4
  <2>4. ToSet(p) \cap ToSet(q) = {}
    <3>1. ASSUME NEW k \in 1..(i - 1) PROVE ToSet(queues[s[k]]) \cap ToSet(q) = {}
      <4>1. k \in 1..m /\ k # i
        BY <1>4, <2>1
      <4>2. s[k] # s[i]
        BY <1>1, <1>4, <4>1 DEF Once
      <4> QED BY <1>4, <4>1, <4>2
    <3> HIDE DEF q
    <3> QED BY <2>2, <3>1
  <2>5. Q(i) = Q(i - 1) \cup ToSet(q)
    BY <2>1
  <2>6. f[i] = p \o q
    BY <1>3 DEF Concat
  <2> HIDE DEF p, q, Q
  <2>7. p \o q \in Seq(Threads) /\ ToSet(p \o q) = ToSet(p) \cup ToSet(q) /\ Once(p \o q)
    BY <2>2, <2>3, <2>4, ConcatElements
  <2> QED BY <2>1, <2>2, <2>5, <2>6, <2>7
<1> HIDE DEF Good
<1>9. \A i \in 0..m : f[i] \in Good[i]
  BY <1>4, <1>7, <1>8, LoopStays
<1>10. f[m] \in Good[m] /\ m \in 0..m
  BY <1>4, <1>9
<1>11. f[m] \in Seq(Threads) /\ Once(f[m]) /\ ToSet(f[m]) = Q(m)
  BY <1>10 DEF Good
<1>12. Q(m) = UNION {ToSet(queues[b]) : b \in BucketsOf(table)}
  <2>1. {s[k] : k \in 1..m} = BucketsOf(table)
    BY <1>1, <1>4 DEF ToSet
  <2> QED BY <2>1
<1> QED
  BY <1>2, <1>11, <1>12

LEMMA GatheredThose ==
  ASSUME NEW n \in Nat, NEW table \in [0..(n - 1) -> Nat], BucketsOf(table) \subseteq BucketIds,
         queues \in [BucketIds -> Seq(Threads)],
         NEW b \in BucketsOf(table), NEW A,
         \A c \in BucketsOf(table) : c # b => ToSet(queues[c]) \cap A = {}
  PROVE  Those(GatheredThreads(table), A) = Those(queues[b], A)
<1> DEFINE s == SortedBuckets(table)
           m == Len(s)
           Good == [i \in 0..m |-> {q \in Seq(Threads) :
                      Those(q, A) = IF \E k \in 1..i : s[k] = b THEN Those(queues[b], A) ELSE <<>>}]
<1>1. s \in Seq(BucketsOf(table)) /\ Once(s) /\ ToSet(s) = BucketsOf(table)
  BY SortedElements
<1>2. PICK f : IsGatherLoop(f, s) /\ GatheredThreads(table) = f[m]
  BY GatherLoop
<1> HIDE DEF s
<1>3. f[0] = <<>> /\ \A i \in 1..m : f[i] = Concat(f[i - 1], queues[s[i]])
  BY <1>2 DEF IsGatherLoop
<1>4. m \in Nat /\ DOMAIN s = 1..m /\ \A i \in 1..m : s[i] \in BucketsOf(table) /\ queues[s[i]] \in Seq(Threads)
  BY <1>1
<1> HIDE DEF m
<1>5. f[0] \in Good[0]
  <2>1. 0 \in 0..m /\ <<>> \in Seq(Threads) /\ ~(\E k \in 1..0 : s[k] = b)
    BY <1>4
  <2>2. Those(<<>>, A) = <<>>
    BY ThoseEmpty
  <2> QED BY <1>3, <2>1, <2>2
<1>6. ASSUME NEW i \in 1..m, f[i - 1] \in Good[i - 1] PROVE f[i] \in Good[i]
  <2> DEFINE p == f[i - 1]
             q == queues[s[i]]
             B == Those(queues[b], A)
  <2>1. i \in 0..m /\ i - 1 \in 0..m /\ 1..i = (1..(i - 1)) \cup {i} /\ i \notin 1..(i - 1)
    BY <1>4
  <2>2. p \in Seq(Threads) /\ Those(p, A) = IF \E k \in 1..(i - 1) : s[k] = b THEN B ELSE <<>>
    BY <1>6, <2>1
  <2>3. q \in Seq(Threads) /\ queues[b] \in Seq(Threads)
    BY <1>4
  <2>4. B \in Seq(Threads)
    BY <2>3, ThoseElements
  <2>a. f[i] = Concat(p, q)
    BY <1>3
  <2>5. f[i] = Concat(p, q) /\ Concat(p, q) \in Seq(Threads)
    <3> HIDE DEF p, q
    <3> QED BY <2>a, <2>2, <2>3, ConcatElements DEF Concat
  <2>6. Those(Concat(p, q), A) = Concat(Those(p, A), Those(q, A))
    BY <2>2, <2>3, ThoseConcat
  <2>7. CASE s[i] = b
    <3>1. ASSUME NEW k \in 1..(i - 1), s[k] = b PROVE FALSE
      <4>1. k \in 1..m /\ k # i
        BY <1>4
      <4> QED BY <1>1, <1>4, <2>7, <3>1, <4>1 DEF Once
    <3>2. Those(p, A) = <<>> /\ Those(q, A) = B
      BY <2>2, <2>7, <3>1
    <3>3. Concat(Those(p, A), Those(q, A)) = B
      BY <2>4, <3>2 DEF Concat
    <3>4. \E k \in 1..i : s[k] = b
      BY <2>1, <2>7
    <3> HIDE DEF B, p, q
    <3>5. Those(f[i], A) = B /\ f[i] \in Seq(Threads)
      BY <2>5, <2>6, <3>3
    <3> QED BY <2>1, <3>4, <3>5 DEF B
  <2>8. CASE s[i] # b
    <3>1. (\E k \in 1..i : s[k] = b) <=> (\E k \in 1..(i - 1) : s[k] = b)
      BY <2>1, <2>8
    <3>2. ToSet(q) \cap A = {}
      BY <1>4, <2>8
    <3>3. Those(q, A) = <<>>
      BY <2>3, <3>2, ThoseNone
    <3>4. Those(p, A) \in Seq(Threads)
      BY <2>2, ThoseElements
    <3>5. Concat(Those(p, A), Those(q, A)) = Those(p, A)
      BY <3>3, <3>4 DEF Concat
    <3> HIDE DEF B, p, q
    <3>6. Those(f[i], A) = Those(p, A) /\ f[i] \in Seq(Threads)
      BY <2>5, <2>6, <3>5
    <3>7. Those(f[i], A) = IF \E k \in 1..i : s[k] = b THEN B ELSE <<>>
      BY <2>2, <3>1, <3>6
    <3> QED BY <2>1, <3>6, <3>7 DEF B
  <2> QED BY <2>7, <2>8
<1> HIDE DEF Good
<1>7. \A i \in 0..m : f[i] \in Good[i]
  BY <1>4, <1>5, <1>6, LoopStays
<1>8. f[m] \in Good[m] /\ m \in 0..m
  BY <1>4, <1>7
<1>9. \E k \in 1..m : s[k] = b
  BY <1>1, <1>4 DEF ToSet
<1> QED
  BY <1>2, <1>8, <1>9 DEF Good

LEMMA GatheredType ==
  ASSUME NEW n \in Nat, NEW table \in [0..(n - 1) -> Nat], BucketsOf(table) \subseteq BucketIds,
         queues \in [BucketIds -> Seq(Threads)]
  PROVE  GatheredThreads(table) \in Seq(Threads)
<1> DEFINE s == SortedBuckets(table)
           m == Len(s)
           Good == [i \in 0..m |-> Seq(Threads)]
<1>1. s \in Seq(BucketIds)
  BY SortedElements
<1>2. PICK f : IsGatherLoop(f, s) /\ GatheredThreads(table) = f[m]
  BY GatherLoop
<1> HIDE DEF s
<1>3. f[0] = <<>> /\ \A i \in 1..m : f[i] = Concat(f[i - 1], queues[s[i]])
  BY <1>2 DEF IsGatherLoop
<1>4. m \in Nat /\ \A i \in 1..m : queues[s[i]] \in Seq(Threads)
  BY <1>1
<1> HIDE DEF m
<1>5. f[0] \in Good[0]
  BY <1>3, <1>4
<1>6. ASSUME NEW i \in 1..m, f[i - 1] \in Good[i - 1] PROVE f[i] \in Good[i]
  <2> DEFINE p == f[i - 1]
             q == queues[s[i]]
  <2>1. i \in 0..m /\ i - 1 \in 0..m
    BY <1>4
  <2>2. p \in Seq(Threads) /\ q \in Seq(Threads) /\ f[i] = Concat(p, q)
    BY <1>3, <1>4, <1>6, <2>1
  <2>3. Concat(p, q) \in Seq(Threads)
    <3> HIDE DEF p, q
    <3> QED BY <2>2, ConcatElements DEF Concat
  <2> QED BY <2>1, <2>2, <2>3
<1> HIDE DEF Good
<1>7. \A i \in 0..m : f[i] \in Good[i]
  BY <1>4, <1>5, <1>6, LoopStays
<1>8. f[m] \in Good[m] /\ m \in 0..m
  BY <1>4, <1>7
<1> QED
  BY <1>2, <1>8 DEF Good

(***************************************************************************)
(* The tables that lockHashtable() and ensureHashtableSize() make.         *)
(***************************************************************************)
LEMMA EmptyTableType ==
  ASSUME NEW n \in Nat
  PROVE  HasBuckets(EmptyTable(n), n, 0)
  BY DEF HasBuckets, EmptyTable, Distinct, BucketsOf, NoBucket

LEMMA FilledTable ==
  ASSUME NEW n \in Nat, NEW table, HasBuckets(table, n, numBuckets), numBuckets \in Nat
  PROVE  /\ AllSlotsFilled(table).number \in Nat /\ numBuckets <= AllSlotsFilled(table).number
         /\ HasBuckets(AllSlotsFilled(table).slots, n, AllSlotsFilled(table).number)
         /\ IsFull(AllSlotsFilled(table).slots)
         /\ \A i \in 0..(n - 1) : table[i] # NoBucket => AllSlotsFilled(table).slots[i] = table[i]
<1> DEFINE r == [slots |-> table, reusable |-> <<>>, number |-> numBuckets]
           s == [k \in 1..n |-> n - k]
           q == FillSlots(r, s)
<1>1. table \in [0..(n - 1) -> Nat] /\ Distinct(table) /\ BucketsOf(table) \ {NoBucket} = 1..numBuckets
  BY DEF HasBuckets
<1>2. Size(table) = n
  BY <1>1, TableBuckets
<1>3. AllSlotsFilled(table) = q
  BY <1>2 DEF AllSlotsFilled
<1>4. s \in Seq(0..(n - 1)) /\ DOMAIN s = 1..n
  OBVIOUS
<1>5. \A i \in 0..(n - 1) : n - i \in 1..n /\ s[n - i] = i
  OBVIOUS
<1>6. Accounts(r, n, numBuckets)
  <2>1. ToSet(<<>>) = {} /\ Once(<<>>)
    BY EmptyElements
  <2>2. r \in Fillings(n) /\ r.slots = table /\ r.reusable = <<>> /\ r.number = numBuckets
    BY <1>1 DEF Fillings
  <2> HIDE DEF r
  <2> QED BY <1>1, <2>1, <2>2 DEF Accounts
<1>7. r.slots = table /\ DOMAIN table = 0..(n - 1)
  BY <1>1
<1> HIDE DEF r, s
<1>8. Accounts(q, n, numBuckets) /\ Extended(r, q) /\ \A k \in DOMAIN s : q.slots[s[k]] # NoBucket
  BY <1>4, <1>6, FillSlotsAccounts
<1> HIDE DEF q
<1>9. q.slots \in [0..(n - 1) -> Nat] /\ q.number \in Nat /\ q.reusable \in Seq(Nat)
  BY <1>8 DEF Accounts, Fillings
<1>10. \A i \in 0..(n - 1) : q.slots[i] # NoBucket
  BY <1>4, <1>5, <1>8
<1>11. \A i \in 0..(n - 1) : table[i] # NoBucket => q.slots[i] = table[i]
  BY <1>7, <1>8 DEF Extended
<1>12. q.reusable = <<>>
  <2> SUFFICES ASSUME q.reusable # <<>> PROVE FALSE
    OBVIOUS
  <2>1. q.number = numBuckets /\ BucketsOf(q.slots) \cap ToSet(q.reusable) = {} /\ NoBucket \notin ToSet(q.reusable)
        /\ (BucketsOf(q.slots) \cup ToSet(q.reusable)) \ {NoBucket} = 1..q.number
    BY <1>8 DEF Accounts
  <2>2. BucketsOf(table) \ {NoBucket} \subseteq BucketsOf(q.slots)
    BY <1>1, <1>9, <1>11 DEF BucketsOf
  <2>3. ToSet(q.reusable) = {}
    BY <1>1, <2>1, <2>2
  <2> QED BY <1>9, <2>3, EmptyElements
<1>13. Distinct(q.slots) /\ BucketsOf(q.slots) \ {NoBucket} = 1..q.number /\ numBuckets <= q.number
  BY <1>8, <1>12, EmptyElements DEF Accounts
<1>14. HasBuckets(q.slots, n, q.number) /\ IsFull(q.slots)
  BY <1>9, <1>10, <1>13 DEF HasBuckets, IsFull
<1> QED
  BY <1>3, <1>9, <1>11, <1>13, <1>14

LEMMA RehashedTable ==
  ASSUME NEW n \in Nat, NEW table, HasBuckets(table, n, numBuckets), numBuckets \in 0..MaxBuckets,
         IsFull(table), NEW size \in Nat, n < size,
         queues \in [BucketIds -> Seq(Threads)], address \in [Threads -> Addresses \cup {NoAddress}]
  PROVE  /\ Rehashed(table, size).number \in Nat /\ numBuckets <= Rehashed(table, size).number
         /\ HasBuckets(Rehashed(table, size).slots, size, Rehashed(table, size).number)
         /\ \A t \in ToSet(GatheredThreads(table)) :
              Slot(Rehashed(table, size).slots, address[t]) # NoBucket
<1> DEFINE g == GatheredThreads(table)
           e == [slots |-> EmptyTable(size), reusable |-> SortedBuckets(table), number |-> numBuckets]
           s == [k \in 1..Len(g) |-> Hash[address[g[k]]] % size]
           p == FillSlots(e, s)
           q == PlaceBuckets(p, size)
<1>a. table \in [0..(n - 1) -> Nat] /\ Distinct(table) /\ BucketsOf(table) = 1..numBuckets
  <2>1. NoBucket \notin BucketsOf(table)
    BY DEF IsFull, BucketsOf
  <2> QED BY <2>1 DEF HasBuckets
<1>1. /\ table \in [0..(n - 1) -> Nat] /\ Distinct(table) /\ BucketsOf(table) = 1..numBuckets
      /\ BucketsOf(table) \subseteq BucketIds
  BY <1>a, ConstantsAssumption DEF BucketIds
<1>2. Rehashed(table, size) = q
  BY DEF Rehashed
<1>3. g \in Seq(Threads)
  BY <1>1, GatheredType
<1>4. /\ SortedBuckets(table) \in Seq(Nat) /\ Once(SortedBuckets(table))
      /\ ToSet(SortedBuckets(table)) = 1..numBuckets
  BY <1>1, SortedElements
<1>5. e \in Fillings(size) /\ e.slots = EmptyTable(size) /\ e.reusable = SortedBuckets(table) /\ e.number = numBuckets
  BY <1>4 DEF Fillings, EmptyTable, NoBucket
<1>6. numBuckets < size /\ numBuckets \in Nat
  <2>1. Cardinality(BucketsOf(table)) <= n /\ IsFiniteSet(BucketsOf(table))
    BY <1>1, TableBuckets
  <2>2. Cardinality(1..numBuckets) = numBuckets
    BY IntervalSize
  <2> QED BY <1>1, <2>1, <2>2
<1> HIDE DEF e, g
<1>7. Accounts(e, size, numBuckets)
  <2>1. Distinct(e.slots) /\ BucketsOf(e.slots) \subseteq {NoBucket}
    BY <1>5 DEF EmptyTable, Distinct, BucketsOf
  <2> QED BY <1>4, <1>5, <1>6, <2>1 DEF Accounts, NoBucket
<1>8. s \in Seq(0..(size - 1))
  <2>1. ASSUME NEW k \in 1..Len(g) PROVE Hash[address[g[k]]] % size \in 0..(size - 1)
    <3>1. g[k] \in Threads
      BY <1>3, <2>1
    <3>2. Hash[address[g[k]]] \in Nat
      BY <3>1, ConstantsAssumption
    <3> QED BY <3>2
  <2>2. Len(g) \in Nat
    BY <1>3
  <2> QED BY <2>1, <2>2
<1>9. DOMAIN s = 1..Len(g) /\ DOMAIN g = 1..Len(g) /\ \A k \in 1..Len(g) : s[k] = Hash[address[g[k]]] % size
  BY <1>3
<1> HIDE DEF s
<1>10. /\ Accounts(p, size, numBuckets) /\ Extended(e, p)
       /\ \A k \in DOMAIN s : p.slots[s[k]] # NoBucket
  BY <1>6, <1>7, <1>8, FillSlotsAccounts
<1> HIDE DEF p
<1>11. Accounts(q, size, numBuckets) /\ Extended(p, q) /\ q.reusable = <<>>
  BY <1>6, <1>10, PlaceBucketsAccounts
<1> HIDE DEF q
<1>12. /\ q.slots \in [0..(size - 1) -> Nat] /\ q.number \in Nat
       /\ Distinct(q.slots) /\ BucketsOf(q.slots) \ {NoBucket} = 1..q.number /\ numBuckets <= q.number
  BY <1>11, EmptyElements DEF Accounts, Fillings
<1>13. HasBuckets(q.slots, size, q.number)
  BY <1>12 DEF HasBuckets
<1>14. ASSUME NEW t \in ToSet(g) PROVE Slot(q.slots, address[t]) # NoBucket
  <2>1. PICK k \in 1..Len(g) : g[k] = t
    BY <1>9 DEF ToSet
  <2>a. k \in DOMAIN s
    BY <1>9
  <2>2. s[k] \in 0..(size - 1) /\ p.slots[s[k]] # NoBucket
    BY <1>8, <1>10, <2>a
  <2>3. DOMAIN p.slots = 0..(size - 1)
    BY <1>10 DEF Accounts, Fillings
  <2>4. q.slots[s[k]] # NoBucket
    BY <1>11, <2>2, <2>3 DEF Extended
  <2>5. Size(q.slots) = size
    BY <1>12, TableBuckets
  <2> QED BY <1>9, <2>1, <2>4, <2>5 DEF Slot
<1> QED
  BY <1>2, <1>12, <1>13, <1>14 DEF g

LEMMA TableFacts ==
  ASSUME NEW table \in Tables
  PROVE  /\ Size(table) \in Nat \ {0} /\ table \in [0..(Size(table) - 1) -> Nat]
         /\ BucketsOf(table) \subseteq Nat /\ BucketsOf(table) # {}
         /\ IsFull(table) <=> NoBucket \notin BucketsOf(table)
         /\ \A a \in Addresses \cup {NoAddress} :
              /\ Hash[a] % Size(table) \in DOMAIN table
              /\ Slot(table, a) \in BucketsOf(table)
<1>1. PICK n \in Nat \ {0} : table \in [0..(n - 1) -> Nat]
  BY DEF Tables
<1>2. Size(table) = n /\ BucketsOf(table) \subseteq Nat
  BY <1>1, TableBuckets
<1>3. BucketsOf(table) # {} /\ (IsFull(table) <=> NoBucket \notin BucketsOf(table))
  <2>1. 0 \in DOMAIN table
    BY <1>1
  <2> QED BY <2>1 DEF BucketsOf, IsFull
<1>4. ASSUME NEW a \in Addresses \cup {NoAddress}
      PROVE  Hash[a] % Size(table) \in DOMAIN table /\ Slot(table, a) \in BucketsOf(table)
  <2>1. Hash[a] \in Nat
    BY ConstantsAssumption
  <2>2. Hash[a] % n \in 0..(n - 1)
    BY <2>1
  <2>3. Hash[a] % Size(table) \in DOMAIN table
    BY <1>1, <1>2, <2>2
  <2> QED BY <2>3 DEF Slot, BucketsOf
<1> QED
  BY <1>1, <1>2, <1>3, <1>4

LEMMA IsTable ==
  ASSUME NEW n \in Nat \ {0}, NEW table, NEW k, HasBuckets(table, n, k)
  PROVE  table \in Tables /\ Size(table) = n
<1>1. table \in [0..(n - 1) -> Nat]
  BY DEF HasBuckets
<1>2. Size(table) = n
  BY <1>1, TableBuckets
<1> QED
  BY <1>1, <1>2 DEF Tables

\* The tables U come after the tables T: a slot that is set never changes.
Grown(T, U) ==
  /\ Len(T) <= Len(U)
  /\ \A j \in 1..Len(T) :
       /\ DOMAIN U[j] = DOMAIN T[j]
       /\ \A i \in DOMAIN T[j] : T[j][i] # NoBucket => U[j][i] = T[j][i]

LEMMA GrownFull ==
  ASSUME NEW T \in Seq(Tables), NEW U \in Seq(Tables), Grown(T, U), NEW j \in 1..Len(T)
  PROVE  /\ j \in 1..Len(U) /\ Size(U[j]) = Size(T[j])
         /\ IsFull(T[j]) => U[j] = T[j]
         /\ \A a \in Addresses \cup {NoAddress} :
              Slot(T[j], a) # NoBucket => Slot(U[j], a) = Slot(T[j], a)
<1>1. Len(T) \in Nat /\ Len(U) \in Nat /\ Len(T) <= Len(U) /\ T[j] \in Tables
  BY DEF Grown
<1>2. j \in 1..Len(U) /\ U[j] \in Tables
  BY <1>1
<1>3. DOMAIN U[j] = DOMAIN T[j] /\ \A i \in DOMAIN T[j] : T[j][i] # NoBucket => U[j][i] = T[j][i]
  BY DEF Grown
<1>4. Size(U[j]) = Size(T[j])
  BY <1>3 DEF Size
<1>5. ASSUME IsFull(T[j]) PROVE U[j] = T[j]
  <2>1. T[j] = [i \in DOMAIN T[j] |-> T[j][i]] /\ U[j] = [i \in DOMAIN U[j] |-> U[j][i]]
    BY <1>1, <1>2, TableFacts
  <2>2. \A i \in DOMAIN T[j] : U[j][i] = T[j][i]
    BY <1>3, <1>5 DEF IsFull
  <2> QED BY <1>3, <2>1, <2>2
<1>6. ASSUME NEW a \in Addresses \cup {NoAddress}, Slot(T[j], a) # NoBucket
      PROVE  Slot(U[j], a) = Slot(T[j], a)
  <2>1. Hash[a] % Size(T[j]) \in DOMAIN T[j]
    BY <1>1, TableFacts
  <2> QED BY <1>3, <1>4, <1>6, <2>1 DEF Slot
<1> QED
  BY <1>2, <1>4, <1>5, <1>6

LEMMA GrownSame ==
  ASSUME NEW T \in Seq(Tables)
  PROVE  Grown(T, T)
  BY DEF Grown

LEMMA GrownTrans ==
  ASSUME NEW T \in Seq(Tables), NEW U \in Seq(Tables), NEW V \in Seq(Tables), Grown(T, U), Grown(U, V)
  PROVE  Grown(T, V)
<1>1. Len(T) \in Nat /\ Len(U) \in Nat /\ Len(V) \in Nat /\ Len(T) <= Len(U) /\ Len(U) <= Len(V)
  BY DEF Grown
<1>2. Len(T) <= Len(V) /\ \A j \in 1..Len(T) : j \in 1..Len(U)
  BY <1>1
<1>3. ASSUME NEW j \in 1..Len(T)
      PROVE  /\ DOMAIN V[j] = DOMAIN T[j]
             /\ \A x \in DOMAIN T[j] : T[j][x] # NoBucket => V[j][x] = T[j][x]
  <2>1. /\ DOMAIN U[j] = DOMAIN T[j]
        /\ \A x \in DOMAIN T[j] : T[j][x] # NoBucket => U[j][x] = T[j][x]
    BY DEF Grown
  <2>2. /\ DOMAIN V[j] = DOMAIN U[j]
        /\ \A x \in DOMAIN U[j] : U[j][x] # NoBucket => V[j][x] = U[j][x]
    BY <1>2 DEF Grown
  <2> QED BY <2>1, <2>2
<1> QED
  BY <1>2, <1>3 DEF Grown

LEMMA EnsuredTables ==
  ASSUME TablesInv
  PROVE  /\ TablesOf(TablesEnsured, HashtableEnsured, numBuckets)
         /\ TablesEnsured # <<>> /\ HashtableEnsured \in 1..Len(TablesEnsured)
         /\ Grown(tables, TablesEnsured)
         /\ tables # <<>> => TablesEnsured = tables /\ HashtableEnsured = hashtable
         /\ tables = <<>> => numBuckets = 0
<1>0. tables \in Seq(Tables) /\ hashtable = Len(tables) /\ numBuckets \in 0..MaxBuckets
  BY DEF TablesInv, TablesOf
<1>1. CASE tables # <<>>
  <2>1. hashtable # 0 /\ hashtable \in 1..Len(tables)
    BY <1>0, <1>1
  <2>2. TablesEnsured = tables /\ HashtableEnsured = hashtable
    BY <2>1 DEF TablesEnsured, HashtableEnsured
  <2> QED BY <1>0, <1>1, <2>1, <2>2, GrownSame DEF TablesInv
<1>2. CASE tables = <<>>
  <2> DEFINE e == EmptyTable(MaxLoadFactor)
             U == Append(tables, e)
  <2>1. hashtable = 0 /\ Len(tables) = 0 /\ numBuckets = 0
    BY <1>0, <1>2 DEF TablesInv, TablesOf
  <2>2. TablesEnsured = U /\ HashtableEnsured = Len(U)
    BY <2>1 DEF TablesEnsured, HashtableEnsured
  <2>0. MaxLoadFactor \in Nat \ {0} /\ 0 \in 0..MaxBuckets
    BY ConstantsAssumption
  <2>3. HasBuckets(e, MaxLoadFactor, 0)
    BY <2>0, EmptyTableType
  <2>4. e \in Tables /\ Size(e) = MaxLoadFactor
    BY <2>0, <2>3, IsTable
  <2> HIDE DEF e
  <2>5. U \in Seq(Tables) /\ Len(U) = 1 /\ U[1] = e /\ U # <<>>
    <3>1. e \in Tables
      BY <2>4
    <3>2. U = <<e>>
      BY <1>2
    <3> QED BY <3>1, <3>2
  <2> HIDE DEF U
  <2>6. BucketsOf(e) \subseteq 0..0
    BY <2>3 DEF HasBuckets, NoBucket
  <2>7. TablesOf(U, 1, 0)
    <3>1. \A j \in 1..Len(U) : BucketsOf(U[j]) \subseteq 0..0
      BY <2>5, <2>6
    <3>2. \A j \in 1..(Len(U) - 1) : IsFull(U[j]) /\ Size(U[j]) < Size(U[j + 1])
      BY <2>5
    <3> QED BY <2>0, <2>3, <2>4, <2>5, <3>1, <3>2 DEF TablesOf
  <2>8. Grown(tables, U)
    BY <2>1, <2>5 DEF Grown
  <2> QED BY <1>2, <2>1, <2>2, <2>5, <2>7, <2>8
<1> QED
  BY <1>1, <1>2

\* Slots of the current table are set.
LEMMA UpdatedTables ==
  ASSUME NEW T, NEW h, NEW k, TablesOf(T, h, k), T # <<>>,
         NEW l \in 0..MaxBuckets, k <= l, NEW new, HasBuckets(new, Size(T[h]), l),
         \A i \in DOMAIN T[h] : T[h][i] # NoBucket => new[i] = T[h][i]
  PROVE  TablesOf([T EXCEPT ![h] = new], h, l) /\ Grown(T, [T EXCEPT ![h] = new])
<1> DEFINE U == [T EXCEPT ![h] = new]
           n == Len(T)
<1>1. /\ T \in Seq(Tables) /\ h = n /\ n \in Nat \ {0} /\ k \in 0..MaxBuckets /\ h \in 1..n
      /\ \A j \in 1..n : BucketsOf(T[j]) \subseteq 0..k
      /\ \A j \in 1..(n - 1) : IsFull(T[j]) /\ Size(T[j]) < Size(T[j + 1])
  BY DEF TablesOf
<1>2. T[h] \in Tables
  BY <1>1
<1>3. Size(T[h]) \in Nat \ {0} /\ T[h] \in [0..(Size(T[h]) - 1) -> Nat]
  BY <1>2, TableFacts
<1>4. new \in Tables /\ Size(new) = Size(T[h])
  BY <1>3, IsTable
<1>5. U \in Seq(Tables) /\ Len(U) = n /\ U[h] = new /\ \A j \in 1..n : j # h => U[j] = T[j]
  BY <1>1, <1>4
<1>6. U # <<>>
  BY <1>1, <1>5
<1>7. new \in [0..(Size(T[h]) - 1) -> Nat] /\ BucketsOf(new) \subseteq 0..l
  <2>1. NoBucket = 0 /\ BucketsOf(new) \ {NoBucket} = 1..l
    BY DEF HasBuckets, NoBucket
  <2> QED BY <2>1 DEF HasBuckets
<1> HIDE DEF U, n
<1>8. \A j \in 1..n : BucketsOf(U[j]) \subseteq 0..l
  <2>1. 0..k \subseteq 0..l
    BY <1>1
  <2> QED BY <1>1, <1>5, <1>7, <2>1
<1>9. \A j \in 1..n : Size(U[j]) = Size(T[j])
  BY <1>4, <1>5
<1>10. \A j \in 1..(n - 1) : IsFull(U[j]) /\ Size(U[j]) < Size(U[j + 1])
  <2>1. \A j \in 1..(n - 1) : j \in 1..n /\ j # h /\ j + 1 \in 1..n
    BY <1>1
  <2> QED BY <1>1, <1>5, <1>9, <2>1
<1>11. TablesOf(U, h, l)
  <2>1. HasBuckets(U[h], Size(U[h]), l)
    BY <1>4, <1>5
  <2> QED BY <1>1, <1>5, <1>6, <1>8, <1>10, <2>1 DEF TablesOf
<1>12. Grown(T, U)
  <2>1. DOMAIN new = DOMAIN T[h]
    BY <1>3, <1>7
  <2>2. n = Len(T) /\ n <= Len(U)
    BY <1>1, <1>5 DEF n
  <2>3. \A j \in 1..n : /\ DOMAIN U[j] = DOMAIN T[j]
                        /\ \A i \in DOMAIN T[j] : T[j][i] # NoBucket => U[j][i] = T[j][i]
    BY <1>5, <2>1
  <2> QED BY <2>2, <2>3 DEF Grown
<1> QED
  BY <1>11, <1>12 DEF U

\* The current table is replaced.
LEMMA AppendedTables ==
  ASSUME NEW T, NEW h, NEW k, TablesOf(T, h, k), T # <<>>, IsFull(T[h]),
         NEW l \in 0..MaxBuckets, k <= l, NEW size \in Nat, Size(T[h]) < size,
         NEW new, HasBuckets(new, size, l)
  PROVE  TablesOf(Append(T, new), h + 1, l) /\ Grown(T, Append(T, new))
<1> DEFINE U == Append(T, new)
           n == Len(T)
<1>1. /\ T \in Seq(Tables) /\ h = n /\ n \in Nat \ {0} /\ k \in 0..MaxBuckets /\ h \in 1..n
      /\ \A j \in 1..n : BucketsOf(T[j]) \subseteq 0..k
      /\ \A j \in 1..(n - 1) : IsFull(T[j]) /\ Size(T[j]) < Size(T[j + 1])
  BY DEF TablesOf
<1>2. T[h] \in Tables
  BY <1>1
<1>3. Size(T[h]) \in Nat \ {0} /\ size \in Nat \ {0}
  BY <1>2, TableFacts
<1>4. new \in Tables /\ Size(new) = size
  BY <1>3, IsTable
<1>5. U \in Seq(Tables) /\ Len(U) = n + 1 /\ U[n + 1] = new /\ \A j \in 1..n : U[j] = T[j]
  BY <1>1, <1>4
<1>6. U # <<>>
  BY <1>1, <1>5
<1>7. BucketsOf(new) \subseteq 0..l
  <2>1. NoBucket = 0 /\ BucketsOf(new) \ {NoBucket} = 1..l
    BY DEF HasBuckets, NoBucket
  <2> QED BY <2>1 DEF HasBuckets
<1> HIDE DEF U
<1>8. \A j \in 1..(n + 1) : BucketsOf(U[j]) \subseteq 0..l
  <2>1. \A j \in 1..(n + 1) : j = n + 1 \/ j \in 1..n
    BY <1>1
  <2> QED BY <1>1, <1>5, <1>7, <2>1
<1>9. ASSUME NEW j \in 1..n PROVE IsFull(U[j]) /\ Size(U[j]) < Size(U[j + 1])
  <2>1. j = n \/ (j \in 1..(n - 1) /\ j + 1 \in 1..n)
    BY <1>1
  <2> HIDE DEF n
  <2>2. CASE j = n
    BY <1>1, <1>4, <1>5, <2>2
  <2>3. CASE j # n
    BY <1>1, <1>5, <2>1, <2>3
  <2> QED BY <2>2, <2>3
<1>10. TablesOf(U, h + 1, l)
  <2>1. Len(U) - 1 = n /\ h + 1 = Len(U)
    BY <1>1, <1>5
  <2>2. HasBuckets(U[h + 1], Size(U[h + 1]), l)
    BY <1>1, <1>4, <1>5
  <2>3. /\ \A j \in 1..Len(U) : BucketsOf(U[j]) \subseteq 0..l
        /\ \A j \in 1..(Len(U) - 1) : IsFull(U[j]) /\ Size(U[j]) < Size(U[j + 1])
    BY <1>5, <1>8, <1>9, <2>1
  <2> HIDE DEF n
  <2> QED BY <1>5, <1>6, <2>1, <2>2, <2>3 DEF TablesOf
<1>11. Grown(T, U)
  BY <1>1, <1>5 DEF Grown
<1> QED
  BY <1>10, <1>11 DEF U

LEMMA CurrentTable ==
  ASSUME NEW T, NEW h, NEW k, TablesOf(T, h, k), T # <<>>
  PROVE  /\ T \in Seq(Tables) /\ h \in 1..Len(T) /\ h = Len(T) /\ T[h] \in Tables
         /\ Size(T[h]) \in Nat \ {0} /\ HasBuckets(T[h], Size(T[h]), k)
         /\ T[h] \in [0..(Size(T[h]) - 1) -> Nat] /\ DOMAIN T[h] = 0..(Size(T[h]) - 1)
         /\ k \in 0..MaxBuckets /\ k \in Nat
         /\ \A j \in 1..Len(T) : T[j] \in Tables /\ BucketsOf(T[j]) \subseteq 0..k
<1>1. /\ T \in Seq(Tables) /\ h = Len(T) /\ HasBuckets(T[h], Size(T[h]), k) /\ k \in 0..MaxBuckets
      /\ \A j \in 1..Len(T) : BucketsOf(T[j]) \subseteq 0..k
  BY DEF TablesOf
<1>2. h \in 1..Len(T) /\ \A j \in 1..Len(T) : T[j] \in Tables
  BY <1>1
<1>3. Size(T[h]) \in Nat \ {0}
  BY <1>2, TableFacts
<1>4. T[h] \in [0..(Size(T[h]) - 1) -> Nat]
  BY <1>1 DEF HasBuckets
<1> QED
  BY <1>1, <1>2, <1>3, <1>4

LEMMA NewSizeLarger ==
  ASSUME NEW size \in Nat, NEW c \in Nat, ~LargeEnough(size, c)
  PROVE  NewSize(c) \in Nat /\ size < NewSize(c)
<1>1. MaxLoadFactor \in Nat /\ GrowthFactor \in Nat /\ GrowthFactor > 0
  BY ConstantsAssumption
<1> DEFINE x == MaxLoadFactor * c
<1>2. x \in Nat /\ size < x
  BY <1>1 DEF LargeEnough
<1>3. NewSize(c) = GrowthFactor * x
  BY <1>1 DEF NewSize
<1> HIDE DEF x
<1>4. GrowthFactor * x \in Nat /\ x <= GrowthFactor * x
  BY <1>1, <1>2
<1> QED
  BY <1>2, <1>3, <1>4

(***************************************************************************)
(* What the steps do to the tables.                                        *)
(***************************************************************************)
LEMMA FindBucketTables ==
  ASSUME TablesInv, arg \in [Threads -> Addresses \cup {NoAddress}], mine \in [Threads -> Nat],
         NEW t \in Threads, FindBucket(t)
  PROVE  /\ TablesInv' /\ Grown(tables, tables') /\ tables' # <<>> /\ numBuckets <= numBuckets'
         /\ tables # <<>> => hashtable' = hashtable
         /\ mine' = [mine EXCEPT ![t] = hashtable']
         /\ bucket \in [Threads -> Nat] => bucket'[t] = Slot(tables'[hashtable'], arg[t])
         /\ Slot(tables'[hashtable'], arg[t]) \in 1..numBuckets'
<1> DEFINE T == TablesEnsured
           h == HashtableEnsured
           n == Size(T[h])
           a == arg[t]
           i == Hash[a] % n
           k == numBuckets
<1>1. TablesOf(T, h, k) /\ T # <<>> /\ Grown(tables, T) /\ (tables # <<>> => h = hashtable)
  BY EnsuredTables
<1>2. a \in Addresses \cup {NoAddress} /\ hashtable' = h /\ mine' = [mine EXCEPT ![t] = hashtable']
  BY DEF FindBucket
<1>3. /\ IF Slot(T[h], a) # NoBucket
         THEN tables' = T /\ bucket' = [bucket EXCEPT ![t] = Slot(T[h], a)] /\ numBuckets' = k
         ELSE /\ k < MaxBuckets /\ numBuckets' = k + 1
              /\ tables' = [T EXCEPT ![h][i] = k + 1] /\ bucket' = [bucket EXCEPT ![t] = k + 1]
  BY DEF FindBucket
<1> HIDE DEF T, h, a, k
<1>4. /\ T \in Seq(Tables) /\ h \in 1..Len(T) /\ T[h] \in Tables /\ n \in Nat \ {0}
      /\ HasBuckets(T[h], n, k) /\ T[h] \in [0..(n - 1) -> Nat] /\ k \in 0..MaxBuckets /\ k \in Nat
  BY <1>1, CurrentTable
<1>5. i \in 0..(n - 1) /\ Slot(T[h], a) = T[h][i] /\ T[h][i] \in BucketsOf(T[h])
  BY <1>2, <1>4, TableFacts DEF Slot
<1>6. CASE Slot(T[h], a) # NoBucket
  <2>1. tables' = T /\ bucket' = [bucket EXCEPT ![t] = Slot(T[h], a)] /\ numBuckets' = k
    BY <1>3, <1>6
  <2>2. Slot(T[h], a) \in 1..k
    BY <1>4, <1>5, <1>6 DEF HasBuckets
  <2> QED BY <1>1, <1>2, <1>4, <2>1, <2>2 DEF TablesInv, a, k
<1>7. CASE Slot(T[h], a) = NoBucket
  <2> DEFINE b == k + 1
             new == [T[h] EXCEPT ![i] = b]
             U == [T EXCEPT ![h] = new]
  <2>1. k < MaxBuckets /\ numBuckets' = b /\ tables' = U /\ bucket' = [bucket EXCEPT ![t] = b]
    <3>1. /\ k < MaxBuckets /\ numBuckets' = k + 1
          /\ tables' = [T EXCEPT ![h][i] = k + 1] /\ bucket' = [bucket EXCEPT ![t] = k + 1]
      BY <1>3, <1>7
    <3> QED BY <3>1
  <2>2. b \in Nat \ {0} /\ b \in 0..MaxBuckets /\ k <= b /\ 1..b = (1..k) \cup {b} /\ b \notin 1..k
    BY <1>4, <2>1, ConstantsAssumption
  <2>3. new \in [0..(n - 1) -> Nat] /\ new[i] = b /\ \A j \in 0..(n - 1) : j # i => new[j] = T[h][j]
    BY <1>4, <1>5, <2>2
  <2> HIDE DEF b, new, n, i
  <2>4. b \notin BucketsOf(T[h]) /\ Distinct(T[h]) /\ BucketsOf(T[h]) \ {NoBucket} = 1..k
    BY <1>4, <2>2 DEF HasBuckets, NoBucket
  <2>5. Distinct(new) /\ BucketsOf(new) \ {NoBucket} = (BucketsOf(T[h]) \ {NoBucket}) \cup {b}
    <3>1. T[h][i] = NoBucket
      BY <1>5, <1>7
    <3> DEFINE f == T[h]
    <3>2. n \in Nat /\ f \in [0..(n - 1) -> Nat] /\ Distinct(f) /\ i \in 0..(n - 1) /\ f[i] = NoBucket
      BY <1>4, <1>5, <2>4, <3>1
    <3>3. b \in Nat \ {0} /\ b \notin BucketsOf(f)
      BY <2>2, <2>4
    <3>4. new \in [0..(n - 1) -> Nat] /\ new[i] = b /\ \A j \in 0..(n - 1) : j # i => new[j] = f[j]
      BY <2>3
    <3> HIDE DEF f
    <3>5. Distinct(new) /\ BucketsOf(new) \ {NoBucket} = (BucketsOf(f) \ {NoBucket}) \cup {b}
      BY <3>2, <3>3, <3>4, SlotFilled
    <3> QED BY <3>5 DEF f
  <2>6. HasBuckets(new, n, b)
    BY <2>2, <2>3, <2>4, <2>5 DEF HasBuckets
  <2>7. \A j \in DOMAIN T[h] : T[h][j] # NoBucket => new[j] = T[h][j]
    BY <1>4, <1>5, <1>7, <2>3
  <2>8. TablesOf(U, h, b) /\ Grown(T, U)
    BY <1>1, <2>2, <2>6, <2>7, UpdatedTables DEF n
  <2>9. U[h] = new /\ U # <<>> /\ Len(U) = Len(T)
    BY <1>1, <1>4
  <2> HIDE DEF U
  <2>10. U \in Seq(Tables)
    BY <2>8 DEF TablesOf
  <2>11. Slot(U[h], a) = b
    <3>1. Size(new) = n
      BY <1>4, <2>3, TableBuckets
    <3> QED BY <2>3, <2>9, <3>1 DEF Slot, i
  <2>12. Grown(tables, U)
    <3>1. tables \in Seq(Tables)
      BY DEF TablesInv, TablesOf
    <3> QED BY <1>1, <1>4, <2>8, <2>10, <3>1, GrownTrans
  <2>13. b \in 1..b
    BY <2>2
  <2> QED BY <1>1, <1>2, <2>1, <2>2, <2>8, <2>9, <2>11, <2>12, <2>13 DEF TablesInv, a, k
<1> QED
  BY <1>6, <1>7

LEMMA FindNoBucketTables ==
  ASSUME TablesInv, NEW t \in Threads, FindNoBucket(t)
  PROVE  /\ TablesInv' /\ Grown(tables, tables') /\ tables' # <<>> /\ numBuckets' = numBuckets
         /\ tables # <<>> => hashtable' = hashtable /\ tables' = tables
         /\ Slot(tables'[hashtable'], arg[t]) = NoBucket
<1>1. tables' = TablesEnsured /\ hashtable' = HashtableEnsured /\ numBuckets' = numBuckets
  BY DEF FindNoBucket
<1>2. Slot(TablesEnsured[HashtableEnsured], arg[t]) = NoBucket
  BY DEF FindNoBucket
<1> QED
  BY <1>1, <1>2, EnsuredTables DEF TablesInv

LEMMA LockHashtableFindTables ==
  ASSUME TablesInv, mine \in [Threads -> Nat], NEW t \in Threads, LockHashtableFind(t)
  PROVE  /\ TablesInv' /\ Grown(tables, tables') /\ tables' # <<>> /\ numBuckets <= numBuckets'
         /\ tables # <<>> => hashtable' = hashtable
         /\ mine'[t] = hashtable' /\ IsFull(tables'[hashtable'])
<1> DEFINE T == TablesEnsured
           h == HashtableEnsured
           n == Size(T[h])
           full == AllSlotsFilled(T[h])
           U == [T EXCEPT ![h] = full.slots]
<1>1. TablesOf(T, h, numBuckets) /\ T # <<>> /\ Grown(tables, T) /\ (tables # <<>> => h = hashtable)
  BY EnsuredTables
<1>2. /\ hashtable' = h /\ mine' = [mine EXCEPT ![t] = h] /\ tables' = U
      /\ numBuckets' = full.number /\ full.number <= MaxBuckets
  BY DEF LockHashtableFind
<1> HIDE DEF T, h
<1>3. /\ T \in Seq(Tables) /\ h \in 1..Len(T) /\ T[h] \in Tables /\ n \in Nat \ {0} /\ n \in Nat
      /\ HasBuckets(T[h], n, numBuckets) /\ DOMAIN T[h] = 0..(n - 1) /\ numBuckets \in Nat
  BY <1>1, CurrentTable
<1> HIDE DEF n
<1>4. /\ full.number \in Nat /\ numBuckets <= full.number
      /\ HasBuckets(full.slots, n, full.number) /\ IsFull(full.slots)
      /\ \A i \in 0..(n - 1) : T[h][i] # NoBucket => full.slots[i] = T[h][i]
  BY <1>3, FilledTable
<1> HIDE DEF full
<1>5. full.number \in 0..MaxBuckets
  BY <1>2, <1>4, ConstantsAssumption
<1>6. TablesOf(U, h, full.number) /\ Grown(T, U)
  <2>1. \A i \in DOMAIN T[h] : T[h][i] # NoBucket => full.slots[i] = T[h][i]
    BY <1>3, <1>4
  <2>2. HasBuckets(full.slots, Size(T[h]), full.number)
    BY <1>4 DEF n
  <2> QED BY <1>1, <1>4, <1>5, <2>1, <2>2, UpdatedTables
<1>7. U[h] = full.slots /\ U # <<>>
  BY <1>1, <1>3
<1> HIDE DEF U
<1>8. Grown(tables, U)
  <2>1. tables \in Seq(Tables) /\ U \in Seq(Tables)
    BY <1>6 DEF TablesInv, TablesOf
  <2> QED BY <1>1, <1>3, <1>6, <2>1, GrownTrans
<1> QED
  BY <1>1, <1>2, <1>4, <1>6, <1>7, <1>8 DEF TablesInv

\* What a step that replaces the table of a thread that owns it makes of the table.
LEMMA EnsureSizeSlowTables ==
  ASSUME TablesInv, ThreadTypes, LocksInOrder, OwnsTable, NEW t \in Threads, EnsureSizeSlow(t)
  PROVE  /\ TablesInv' /\ Grown(tables, tables') /\ tables # <<>> /\ tables' # <<>>
         /\ numBuckets <= numBuckets' /\ IsFull(tables[hashtable])
         /\ \/ UNCHANGED <<tables, hashtable, numBuckets, queues>>
            \/ \A u \in ToSet(GatheredThreads(tables[hashtable])) :
                 Slot(tables'[hashtable'], address[u]) # NoBucket
<1>1. tables # <<>> /\ IsFull(tables[hashtable])
  <2>1. pc[t] = "owning" /\ mine[t] = hashtable
    BY DEF OwnsTable, EnsureSizeSlow
  <2>2. mine[t] \in 1..Len(tables) /\ IsFull(tables[mine[t]])
    BY <2>1 DEF LocksInOrder, Locking
  <2>3. tables \in Seq(Tables) /\ tables # <<>>
    BY <2>2 DEF TablesInv, TablesOf
  <2> QED BY <2>1, <2>2, <2>3
<1> DEFINE T == tables
           h == hashtable
           n == Size(T[h])
           c == count[t]
           new == Rehashed(T[h], NewSize(c))
<1>2. /\ T \in Seq(Tables) /\ h \in 1..Len(T) /\ h = Len(T) /\ T[h] \in Tables /\ n \in Nat \ {0} /\ n \in Nat
      /\ HasBuckets(T[h], n, numBuckets) /\ numBuckets \in Nat /\ numBuckets \in 0..MaxBuckets
      /\ TablesOf(T, h, numBuckets)
  BY <1>1, CurrentTable DEF TablesInv
<1>3. CASE LargeEnough(n, c)
  <2>1. UNCHANGED <<tables, hashtable, numBuckets, queues>>
    BY <1>3 DEF EnsureSizeSlow
  <2> QED BY <1>1, <1>2, <2>1, GrownSame DEF TablesInv
<1>4. CASE ~LargeEnough(n, c)
  <2>1. /\ new.number <= MaxBuckets /\ tables' = Append(T, new.slots) /\ hashtable' = Len(tables')
        /\ numBuckets' = new.number
    BY <1>4 DEF EnsureSizeSlow
  <2>2. c \in Nat /\ queues \in [BucketIds -> Seq(Threads)] /\ address \in [Threads -> Addresses \cup {NoAddress}]
    BY DEF ThreadTypes
  <2> DEFINE size == NewSize(c)
  <2>3. size \in Nat /\ n < size
    BY <1>2, <1>4, <2>2, NewSizeLarger
  <2> HIDE DEF size, n, c
  <2>4. /\ Rehashed(T[h], size).number \in Nat /\ numBuckets <= Rehashed(T[h], size).number
        /\ HasBuckets(Rehashed(T[h], size).slots, size, Rehashed(T[h], size).number)
        /\ \A u \in ToSet(GatheredThreads(T[h])) :
             Slot(Rehashed(T[h], size).slots, address[u]) # NoBucket
    BY <1>1, <1>2, <2>2, <2>3, RehashedTable
  <2>5. /\ new.number \in Nat /\ numBuckets <= new.number /\ HasBuckets(new.slots, size, new.number)
        /\ \A u \in ToSet(GatheredThreads(T[h])) : Slot(new.slots, address[u]) # NoBucket
    BY <2>4 DEF size
  <2> DEFINE l == new.number
             f == new.slots
  <2>6. l \in 0..MaxBuckets
    BY <2>1, <2>5, ConstantsAssumption
  <2> HIDE DEF l, f, new
  <2>7. l \in Nat /\ numBuckets <= l /\ HasBuckets(f, size, l) /\ Size(T[h]) < size
    BY <2>3, <2>5 DEF l, f, n
  <2>8. TablesOf(Append(T, f), h + 1, l) /\ Grown(T, Append(T, f))
    BY <1>1, <1>2, <2>3, <2>6, <2>7, AppendedTables
  <2>9. f \in Tables
    BY <1>2, <2>3, <2>7, IsTable
  <2>10. Append(T, f) # <<>> /\ Len(Append(T, f)) = h + 1 /\ Append(T, f)[h + 1] = f
    BY <1>2, <2>9
  <2>11. tables' = Append(T, f) /\ hashtable' = h + 1 /\ numBuckets' = l
    BY <2>1, <2>10 DEF f, l
  <2>12. TablesInv' /\ Grown(tables, tables') /\ tables' # <<>> /\ numBuckets <= numBuckets'
    BY <2>7, <2>8, <2>10, <2>11 DEF TablesInv
  <2>13. \A u \in ToSet(GatheredThreads(T[h])) : Slot(tables'[hashtable'], address[u]) # NoBucket
    BY <2>5, <2>10, <2>11 DEF f
  <2> QED BY <1>1, <2>12, <2>13
<1> QED
  BY <1>3, <1>4

-----------------------------------------------------------------------------
(***************************************************************************)
(* The tables and the locks: TablesInv and LocksInv are inductive.         *)
(***************************************************************************)
\* The threads' part of ThreadTypes, which Return() changes, and the rest.
LocalTypes ==
  /\ pc \in [Threads -> PCs] /\ op \in [Threads -> Ops]
  /\ count \in [Threads -> Nat] /\ mine \in [Threads -> Nat]
  /\ held \in [Threads -> SUBSET BucketIds]
  /\ arg \in [Threads -> Addresses \cup {NoAddress}]
LotTypes ==
  /\ owner \in [BucketIds -> Threads \cup {NoThread}]
  /\ queues \in [BucketIds -> Seq(Threads)]
  /\ address \in [Threads -> Addresses \cup {NoAddress}]

LEMMA ThreadTypesSplit == ThreadTypes <=> LocalTypes /\ LotTypes
  BY DEF ThreadTypes, LocalTypes, LotTypes

LEMMA ReturnTypes ==
  ASSUME LocalTypes, NEW t \in Threads, Return(t)
  PROVE  LocalTypes'
  BY DEF LocalTypes, Return, PCs, Ops

LEMMA UnlockTypes ==
  ASSUME LotTypes, NEW t \in Threads, UnlockHashtable(t), UNCHANGED <<queues, address>>
  PROVE  LotTypes'
  BY DEF LotTypes, UnlockHashtable

LEMMA RehashedQueuesType ==
  ASSUME NEW n \in Nat, NEW table \in [0..(n - 1) -> Nat], BucketsOf(table) \subseteq BucketIds,
         queues \in [BucketIds -> Seq(Threads)], NEW slots
  PROVE  RehashedQueues(table, slots) \in [BucketIds -> Seq(Threads)]
<1> DEFINE g == GatheredThreads(table)
           A(b) == {u \in ToSet(g) : Slot(slots, address[u]) = b}
           O(b) == IF b \in BucketsOf(table) THEN <<>> ELSE queues[b]
           N(b) == Those(g, A(b))
<1>1. RehashedQueues(table, slots) = [b \in BucketIds |-> O(b) \o N(b)]
  BY DEF RehashedQueues
<1>2. g \in Seq(Threads)
  BY GatheredType
<1> HIDE DEF g, A
<1>3. ASSUME NEW b \in BucketIds PROVE O(b) \o N(b) \in Seq(Threads)
  <2>1. O(b) \in Seq(Threads)
    OBVIOUS
  <2>2. N(b) \in Seq(Threads)
    BY <1>2, ThoseElements
  <2> HIDE DEF O, N
  <2> QED BY <2>1, <2>2, ConcatElements
<1> HIDE DEF O, N
<1> QED
  BY <1>1, <1>3

LEMMA UnparkTypes ==
  ASSUME ThreadTypes, NEW t \in Threads, NEW woken, NEW rest, Unpark(t, woken, rest),
         bucket[t] \in BucketIds => rest \in Seq(Threads)
  PROVE  ThreadTypes'
<1>0. queues' = [queues EXCEPT ![bucket[t]] = rest] /\ queues \in [BucketIds -> Seq(Threads)]
  BY DEF Unpark, ThreadTypes
<1>a. queues' \in [BucketIds -> Seq(Threads)]
  BY <1>0
<1>1. LotTypes'
  BY <1>a DEF ThreadTypes, LotTypes, Unpark
<1>2. LocalTypes'
  <2>1. CASE woken = <<>>
    BY <2>1, ThreadTypesSplit, ReturnTypes DEF Unpark
  <2>2. CASE woken # <<>>
    BY <2>2 DEF Unpark, ThreadTypes, LocalTypes, Goto, PCs
  <2> QED BY <2>1, <2>2
<1> QED
  BY <1>1, <1>2 DEF ThreadTypes, LotTypes, LocalTypes

\* The next bucket to lock.
LEMMA NextToLockFacts ==
  ASSUME TablesInv, NEW t \in Threads, mine[t] \in 1..Len(tables), WantsBucket(t),
         held[t] \subseteq BucketsOf(tables[mine[t]])
  PROVE  /\ NextToLock(t) \in BucketsOf(tables[mine[t]]) \ held[t]
         /\ \A c \in BucketsOf(tables[mine[t]]) \ held[t] : NextToLock(t) <= c
<1> DEFINE B == BucketsOf(tables[mine[t]])
           rest == B \ held[t]
<1>1. tables[mine[t]] \in Tables
  BY DEF TablesInv, TablesOf
<1>2. B \subseteq Nat
  BY <1>1, TableFacts
<1>3. rest # {}
  BY DEF WantsBucket
<1>4. NextToLock(t) = CHOOSE b \in rest : \A c \in rest : b <= c
  BY DEF NextToLock
<1> HIDE DEF B
<1>5. \E b \in rest : \A c \in rest : b <= c
  <2>1. rest \in SUBSET Nat
    BY <1>2
  <2> HIDE DEF rest
  <2> QED BY <1>3, <2>1, LeastNumber
<1>6. NextToLock(t) \in rest /\ \A c \in rest : NextToLock(t) <= c
  <2> HIDE DEF rest
  <2> QED BY <1>4, <1>5
<1> QED
  BY <1>6 DEF B

LEMMA ThreadTypesNext ==
  ASSUME TablesInv, LocksInv, NEW t \in Threads, Call(t) \/ Step(t) \/ ParkTimeOut(t)
  PROVE  ThreadTypes'
<1>0. ThreadTypes /\ LocalTypes /\ LotTypes /\ numThreads \in Nat
  <2>1. numThreads \in Nat
    BY FS_CardinalityType DEF LocksInv, LiveCounted
  <2> QED BY <2>1, ThreadTypesSplit DEF LocksInv
<1>1. CASE ThreadDataCreate(t)
  BY <1>0, <1>1 DEF ThreadTypes, ThreadDataCreate, Goto, PCs, Ops
<1>2. CASE ThreadDataDestroy(t)
  BY <1>0, <1>2 DEF ThreadTypes, ThreadDataDestroy, locals, Goto, PCs
<1>3. CASE ForEachCall(t)
  BY <1>0, <1>3 DEF ThreadTypes, ForEachCall, lots, Goto, PCs, Ops
<1>4. ASSUME NEW a \in Addresses, ParkCall(t, a) PROVE ThreadTypes'
  BY <1>0, <1>4 DEF ThreadTypes, ParkCall, Begin, lots, Goto, PCs, Ops
<1>5. ASSUME NEW a \in Addresses, NEW o \in {"unparkOne", "unparkOneCallback", "unparkAll"}, UnparkCall(t, o, a)
      PROVE  ThreadTypes'
  BY <1>0, <1>5 DEF ThreadTypes, UnparkCall, Begin, lots, Goto, PCs, Ops
<1>6. CASE EnsureSizeFast(t)
  <2>1. LotTypes'
    BY <1>0, <1>6 DEF EnsureSizeFast, lots, LotTypes
  <2>2. CASE Return(t)
    BY <1>0, <2>1, <2>2, ReturnTypes DEF ThreadTypes, LotTypes, LocalTypes
  <2>3. CASE Goto(t, "lockTable") /\ UNCHANGED locals
    BY <1>0, <2>1, <2>3 DEF ThreadTypes, LotTypes, LocalTypes, Goto, locals, PCs
  <2> QED BY <1>6, <2>2, <2>3 DEF EnsureSizeFast
<1>7. CASE EnsureSizeSlow(t)
  <2>1. LocalTypes'
    BY <1>0, <1>7, ReturnTypes DEF EnsureSizeSlow
  <2>2. address' = address /\ owner' \in [BucketIds -> Threads \cup {NoThread}]
    BY <1>0, <1>7 DEF EnsureSizeSlow, UnlockHashtable, LotTypes
  <2>3. queues' \in [BucketIds -> Seq(Threads)]
    <3>1. tables # <<>> /\ IsFull(tables[hashtable])
      BY <1>7, EnsureSizeSlowTables DEF LocksInv
    <3> DEFINE table == tables[hashtable]
               n == Size(table)
    <3>2. n \in Nat /\ table \in [0..(n - 1) -> Nat] /\ BucketsOf(table) \subseteq 0..numBuckets /\ numBuckets \in 0..MaxBuckets
      BY <3>1, CurrentTable DEF TablesInv
    <3>3. table \in Tables
      BY <3>1, CurrentTable DEF TablesInv
    <3>4. NoBucket \notin BucketsOf(table)
      BY <3>1, <3>3, TableFacts
    <3> HIDE DEF table, n
    <3>5. BucketsOf(table) \subseteq BucketIds
      BY <3>2, <3>4, ConstantsAssumption DEF NoBucket, BucketIds
    <3>6. \/ queues' = queues
          \/ \E slots : queues' = RehashedQueues(table, slots)
      BY <1>7 DEF EnsureSizeSlow, table
    <3>7. queues \in [BucketIds -> Seq(Threads)]
      BY <1>0 DEF LotTypes
    <3> QED BY <3>2, <3>5, <3>6, <3>7, RehashedQueuesType
  <2> QED BY <1>0, <2>1, <2>2, <2>3 DEF ThreadTypes, LotTypes, LocalTypes
<1>8. CASE ForEachWalk(t)
  <2>1. LocalTypes'
    BY <1>0, <1>8, ReturnTypes DEF ForEachWalk
  <2>2. LotTypes'
    BY <1>0, <1>8, UnlockTypes DEF ForEachWalk
  <2> QED BY <2>1, <2>2 DEF ThreadTypes, LotTypes, LocalTypes
<1>9. CASE LockHashtableFind(t)
  <2>1. HashtableEnsured \in Nat
    BY EnsuredTables
  <2> QED BY <1>0, <1>9, <2>1 DEF ThreadTypes, LockHashtableFind, Goto, PCs
<1>10. CASE LockHashtableLock(t)
  <2>1. /\ owner' = [owner EXCEPT ![NextToLock(t)] = t]
        /\ held' = [held EXCEPT ![t] = held[t] \cup {NextToLock(t)}]
        /\ UNCHANGED <<pc, op, count, mine, queues, address, arg>>
    BY <1>10 DEF LockHashtableLock
  <2>2. NextToLock(t) \in BucketIds
    <3>1. pc[t] = "locking"
      BY <1>10 DEF LockHashtableLock, WantsBucket
    <3>2. mine[t] \in 1..Len(tables) /\ held[t] \subseteq BucketsOf(tables[mine[t]]) /\ IsFull(tables[mine[t]])
      BY <3>1 DEF LocksInv, LocksInOrder, Locking
    <3>3. NextToLock(t) \in BucketsOf(tables[mine[t]])
      BY <1>10, <3>2, NextToLockFacts DEF LockHashtableLock
    <3>4. tables[mine[t]] \in Tables /\ BucketsOf(tables[mine[t]]) \subseteq 0..numBuckets /\ numBuckets \in 0..MaxBuckets
      BY <3>2 DEF TablesInv, TablesOf
    <3>5. NoBucket \notin BucketsOf(tables[mine[t]])
      BY <3>2, <3>4, TableFacts
    <3> QED BY <3>3, <3>4, <3>5, ConstantsAssumption DEF NoBucket, BucketIds
  <2> QED BY <1>0, <2>1, <2>2 DEF ThreadTypes
<1>11. CASE LockHashtableDone(t)
  <2>1. UNCHANGED <<op, count, mine, queues, address, arg>>
    BY <1>11 DEF LockHashtableDone
  <2>2. pc' \in [Threads -> PCs]
    BY <1>0, <1>11 DEF LockHashtableDone, Goto, PCs, ThreadTypes
  <2>3. /\ owner' \in [BucketIds -> Threads \cup {NoThread}]
        /\ held' \in [Threads -> SUBSET BucketIds]
    BY <1>0, <1>11 DEF LockHashtableDone, UnlockHashtable, ThreadTypes
  <2> QED BY <1>0, <2>1, <2>2, <2>3 DEF ThreadTypes
<1>12. CASE FindBucket(t)
  <2>1. HashtableEnsured \in Nat
    BY EnsuredTables
  <2>2. /\ mine' = [mine EXCEPT ![t] = HashtableEnsured] /\ pc' = [pc EXCEPT ![t] = "enter"]
        /\ UNCHANGED <<op, count, held, owner, queues, address, arg>>
    BY <1>12 DEF FindBucket, Goto
  <2> QED BY <1>0, <2>1, <2>2 DEF ThreadTypes, PCs
<1>13. CASE FindNoBucket(t)
  <2>1. LotTypes'
    BY <1>0, <1>13 DEF FindNoBucket, LotTypes
  <2>2. CASE Return(t)
    BY <1>0, <2>1, <2>2, ReturnTypes DEF ThreadTypes, LotTypes, LocalTypes
  <2>3. CASE Goto(t, "clear") /\ UNCHANGED locals
    BY <1>0, <2>1, <2>3 DEF ThreadTypes, LotTypes, LocalTypes, Goto, locals, PCs
  <2> QED BY <1>13, <2>2, <2>3 DEF FindNoBucket
<1>14. CASE EnterStale(t)
  BY <1>0, <1>14 DEF ThreadTypes, EnterStale, lots, locals, Goto, PCs
<1>15. CASE ParkEnqueue(t)
  <2>1. /\ address' = [address EXCEPT ![t] = arg[t]] /\ mine' = [mine EXCEPT ![t] = 0]
        /\ pc' = [pc EXCEPT ![t] = "parked"]
        /\ UNCHANGED <<owner, op, arg, count, held>>
        /\ queues' = [queues EXCEPT ![bucket[t]] = Append(queues[bucket[t]], t)]
    BY <1>15 DEF ParkEnqueue, Goto
  <2>a. \A b \in BucketIds : Append(queues[b], t) \in Seq(Threads)
    BY <1>0 DEF ThreadTypes
  <2>2. queues' \in [BucketIds -> Seq(Threads)]
    BY <1>0, <2>1, <2>a DEF ThreadTypes
  <2> QED BY <1>0, <2>1, <2>2 DEF ThreadTypes, PCs
<1>16. CASE ParkInvalid(t) \/ ParkWakeUp(t)
  <2>1. LocalTypes'
    BY <1>0, <1>16, ReturnTypes DEF ParkInvalid, ParkWakeUp
  <2>2. LotTypes'
    BY <1>0, <1>16 DEF ParkInvalid, ParkWakeUp, lots, LotTypes
  <2> QED BY <2>1, <2>2 DEF ThreadTypes, LotTypes, LocalTypes
<1>17. CASE ParkTimeOut(t)
  BY <1>0, <1>17 DEF ThreadTypes, ParkTimeOut, lots, Goto, PCs, Ops
<1>18. CASE ParkDequeueSelf(t)
  <2>1. /\ pc' = [pc EXCEPT ![t] = "clear"] /\ UNCHANGED <<owner, op, arg, count, held, mine, address>>
        /\ queues' = [queues EXCEPT ![bucket[t]] = RemoveFirst(queues[bucket[t]], t)]
    BY <1>18 DEF ParkDequeueSelf, Goto
  <2>2. \A b \in BucketIds : RemoveFirst(queues[b], t) \in Seq(Threads)
    BY <1>0, RemoveFirstType DEF ThreadTypes
  <2>3. queues' \in [BucketIds -> Seq(Threads)]
    BY <1>0, <2>1, <2>2 DEF ThreadTypes
  <2> QED BY <1>0, <2>1, <2>3 DEF ThreadTypes, PCs
<1>19. CASE ParkClear(t)
  <2>1. LocalTypes'
    BY <1>0, <1>19, ReturnTypes DEF ParkClear
  <2>2. LotTypes'
    BY <1>0, <1>19 DEF ParkClear, LotTypes
  <2> QED BY <2>1, <2>2 DEF ThreadTypes, LotTypes, LocalTypes
<1>20. CASE UnparkOneDequeue(t) \/ UnparkAllDequeue(t)
  <2> DEFINE q == queues[bucket[t]]
             A == OnAddress(arg[t])
  <2>1. CASE bucket[t] \in BucketIds
    <3>1. q \in Seq(Threads)
      BY <1>0, <2>1 DEF ThreadTypes
    <3> HIDE DEF q, A
    <3>2. \A x : RemoveFirst(q, x) \in Seq(Threads)
      BY <3>1, RemoveFirstType
    <3>3. Those(q, Threads \ A) \in Seq(Threads)
      BY <3>1, ThoseElements
    <3>4. \E woken, rest : rest \in Seq(Threads) /\ Unpark(t, woken, rest)
      <4>1. CASE UnparkOneDequeue(t)
        <5>1. \/ Unpark(t, <<>>, q)
              \/ Unpark(t, <<Head(Those(q, A))>>, RemoveFirst(q, Head(Those(q, A))))
          BY <4>1 DEF UnparkOneDequeue, q, A
        <5> QED BY <3>1, <3>2, <5>1
      <4>2. CASE UnparkAllDequeue(t)
        <5>1. Unpark(t, Those(q, A), Those(q, Threads \ A))
          BY <4>2 DEF UnparkAllDequeue, q, A
        <5> QED BY <3>3, <5>1
      <4> QED BY <1>20, <4>1, <4>2
    <3> QED BY <1>0, <3>4, UnparkTypes
  <2>2. CASE bucket[t] \notin BucketIds
    <3>1. \E woken, rest : Unpark(t, woken, rest)
      <4>1. CASE UnparkOneDequeue(t)
        BY <4>1 DEF UnparkOneDequeue
      <4>2. CASE UnparkAllDequeue(t)
        BY <4>2 DEF UnparkAllDequeue
      <4> QED BY <1>20, <4>1, <4>2
    <3> QED BY <1>0, <2>2, <3>1, UnparkTypes
  <2> QED BY <2>1, <2>2
<1>21. CASE UnparkWake(t)
  <2>1. LotTypes'
    BY <1>0, <1>21 DEF UnparkWake, LotTypes
  <2>2. CASE Return(t)
    BY <1>0, <2>1, <2>2, ReturnTypes DEF ThreadTypes, LotTypes, LocalTypes
  <2>3. CASE UNCHANGED <<pc, op, arg, count, mine, bucket, held, didFind>>
    BY <1>0, <2>1, <2>3 DEF ThreadTypes, LotTypes, LocalTypes
  <2> QED BY <1>21, <2>2, <2>3 DEF UnparkWake
<1> QED
  BY <1>1, <1>2, <1>3, <1>4, <1>5, <1>6, <1>7, <1>8, <1>9, <1>10, <1>11, <1>12, <1>13, <1>14,
     <1>15, <1>16, <1>17, <1>18, <1>19, <1>20, <1>21
     DEF Call, Step, UnparkOneCall, UnparkOneCallbackCall, UnparkAllCall

\* The table whose buckets a thread locks is full, so it does not change.
LEMMA LockedTableSame ==
  ASSUME TablesInv, TablesInv', Grown(tables, tables'), LocksInOrder, NEW u \in Threads, pc[u] \in Locking
  PROVE  /\ tables # <<>> /\ mine[u] \in 1..Len(tables) /\ mine[u] \in 1..Len(tables')
         /\ tables'[mine[u]] = tables[mine[u]] /\ IsFull(tables[mine[u]])
         /\ tables[mine[u]] \in Tables
<1>1. mine[u] \in 1..Len(tables) /\ IsFull(tables[mine[u]])
  BY DEF LocksInOrder
<1>2. tables \in Seq(Tables) /\ tables' \in Seq(Tables)
  BY DEF TablesInv, TablesOf
<1>3. tables # <<>> /\ tables[mine[u]] \in Tables
  BY <1>1, <1>2
<1> QED
  BY <1>1, <1>2, <1>3, GrownFull

LEMMA LockedOthers ==
  ASSUME TablesInv, TablesInv', LocksInv, Grown(tables, tables'), NEW u \in Threads,
         pc'[u] = pc[u], mine'[u] = mine[u], held'[u] = held[u]
  PROVE  /\ IF pc'[u] \in Locking
            THEN /\ mine'[u] \in 1..Len(tables') /\ IsFull(tables'[mine'[u]])
                 /\ held'[u] \subseteq BucketsOf(tables'[mine'[u]])
                 /\ \A b \in held'[u], c \in BucketsOf(tables'[mine'[u]]) : c < b => c \in held'[u]
            ELSE held'[u] = {}
         /\ (tables # <<>> => hashtable' = hashtable) => (pc'[u] = "owning" =>
              mine'[u] = hashtable' /\ held'[u] = BucketsOf(tables'[hashtable']))
<1>1. CASE pc[u] \notin Locking
  BY <1>1 DEF LocksInv, LocksInOrder, Locking
<1>2. CASE pc[u] \in Locking
  <2>1. /\ tables # <<>> /\ mine[u] \in 1..Len(tables')
        /\ tables'[mine[u]] = tables[mine[u]] /\ IsFull(tables[mine[u]])
    BY <1>2, LockedTableSame DEF LocksInv
  <2>2. /\ held[u] \subseteq BucketsOf(tables[mine[u]])
        /\ \A b \in held[u], c \in BucketsOf(tables[mine[u]]) : c < b => c \in held[u]
    BY <1>2 DEF LocksInv, LocksInOrder
  <2>3. pc[u] = "owning" => mine[u] = hashtable /\ held[u] = BucketsOf(tables[hashtable])
    BY DEF LocksInv, OwnsTable
  <2> QED BY <1>2, <2>1, <2>2, <2>3
<1> QED
  BY <1>1, <1>2

LEMMA LiveSame ==
  ASSUME LocksInv, NEW t \in Threads, pc[t] # "none", pc'[t] # "none",
         \A u \in Threads \ {t} : pc'[u] = pc[u], numThreads' = numThreads
  PROVE  LiveCounted'
<1>1. Live' = Live
  BY DEF Live
<1> QED
  BY <1>1 DEF LocksInv, LiveCounted

\* A step of a thread that holds no bucket and starts to lock none.
LEMMA QuietStep ==
  ASSUME TablesInv, TablesInv', LocksInv, Grown(tables, tables'),
         tables # <<>> => hashtable' = hashtable,
         NEW t \in Threads, pc[t] \notin Locking, pc'[t] \notin Locking, owner' = owner,
         held'[t] = {},
         \A u \in Threads \ {t} : pc'[u] = pc[u] /\ held'[u] = held[u] /\ mine'[u] = mine[u]
  PROVE  LocksInOrder' /\ OwnersHold' /\ OwnsTable'
<1>1. held[t] = {}
  BY DEF LocksInv, LocksInOrder
<1>2. OwnersHold'
  <2>1. \A u \in Threads : held'[u] = held[u]
    BY <1>1
  <2> QED BY <2>1 DEF LocksInv, OwnersHold
<1>3. ASSUME NEW u \in Threads
      PROVE  IF pc'[u] \in Locking
             THEN /\ mine'[u] \in 1..Len(tables') /\ IsFull(tables'[mine'[u]])
                  /\ held'[u] \subseteq BucketsOf(tables'[mine'[u]])
                  /\ \A b \in held'[u], c \in BucketsOf(tables'[mine'[u]]) : c < b => c \in held'[u]
             ELSE held'[u] = {}
  <2>1. CASE u = t
    BY <2>1
  <2>2. CASE u # t
    <3>1. pc'[u] = pc[u] /\ held'[u] = held[u] /\ mine'[u] = mine[u]
      BY <2>2
    <3> QED BY <3>1, LockedOthers
  <2> QED BY <2>1, <2>2
<1>4. ASSUME NEW u \in Threads, pc'[u] = "owning"
      PROVE  mine'[u] = hashtable' /\ held'[u] = BucketsOf(tables'[hashtable'])
  <2>1. u # t
    BY <1>4 DEF Locking
  <2>2. pc'[u] = pc[u] /\ held'[u] = held[u] /\ mine'[u] = mine[u]
    BY <2>1
  <2> QED BY <1>4, <2>2, LockedOthers
<1> QED
  BY <1>2, <1>3, <1>4 DEF LocksInOrder, OwnsTable

\* A thread gives back the buckets it holds.
LEMMA UnlockStep ==
  ASSUME TablesInv, TablesInv', LocksInv, Grown(tables, tables'), NEW t \in Threads,
         pc[t] \in Locking, pc'[t] \notin Locking, UnlockHashtable(t), held' = [held EXCEPT ![t] = {}],
         \A u \in Threads \ {t} : pc'[u] = pc[u] /\ mine'[u] = mine[u],
         hashtable' = hashtable \/ pc[t] = "owning"
  PROVE  LocksInOrder' /\ OwnersHold' /\ OwnsTable'
<1>0. held'[t] = {} /\ \A u \in Threads \ {t} : held'[u] = held[u]
  BY DEF LocksInv, ThreadTypes
<1>1. OwnersHold'
  <2> SUFFICES ASSUME NEW b \in BucketIds, NEW u \in Threads PROVE owner'[b] = u <=> b \in held'[u]
    BY DEF OwnersHold
  <2>1. owner'[b] = IF b \in held[t] THEN NoThread ELSE owner[b]
    BY DEF UnlockHashtable
  <2>2. (owner[b] = u <=> b \in held[u]) /\ (owner[b] = t <=> b \in held[t]) /\ u # NoThread
    BY ConstantsAssumption DEF LocksInv, OwnersHold
  <2>3. CASE u = t
    BY <1>0, <2>1, <2>2, <2>3
  <2>4. CASE u # t
    BY <1>0, <2>1, <2>2, <2>4
  <2> QED BY <2>3, <2>4
<1>2. ASSUME NEW u \in Threads
      PROVE  IF pc'[u] \in Locking
             THEN /\ mine'[u] \in 1..Len(tables') /\ IsFull(tables'[mine'[u]])
                  /\ held'[u] \subseteq BucketsOf(tables'[mine'[u]])
                  /\ \A b \in held'[u], c \in BucketsOf(tables'[mine'[u]]) : c < b => c \in held'[u]
             ELSE held'[u] = {}
  <2>1. CASE u = t
    BY <1>0, <2>1
  <2>2. CASE u # t
    <3>1. pc'[u] = pc[u] /\ held'[u] = held[u] /\ mine'[u] = mine[u]
      BY <1>0, <2>2
    <3> QED BY <3>1, LockedOthers
  <2> QED BY <2>1, <2>2
<1>3. ASSUME NEW u \in Threads, pc'[u] = "owning"
      PROVE  mine'[u] = hashtable' /\ held'[u] = BucketsOf(tables'[hashtable'])
  <2>1. u # t
    BY <1>3 DEF Locking
  <2>2. pc'[u] = pc[u] /\ held'[u] = held[u] /\ mine'[u] = mine[u]
    BY <1>0, <2>1
  <2>3. hashtable' = hashtable
    <3> SUFFICES ASSUME pc[t] = "owning" PROVE FALSE
      OBVIOUS
    <3>1. mine[t] = hashtable /\ held[t] = BucketsOf(tables[hashtable]) /\ held[u] = BucketsOf(tables[hashtable])
      BY <1>3, <2>2 DEF LocksInv, OwnsTable
    <3>2. tables[mine[t]] \in Tables
      BY LockedTableSame DEF LocksInv, Locking
    <3>3. PICK b \in held[t] : b \in held[u]
      BY <3>1, <3>2, TableFacts
    <3>4. b \in BucketIds
      BY <3>3 DEF LocksInv, ThreadTypes
    <3>5. owner[b] = t /\ owner[b] = u
      BY <3>3, <3>4 DEF LocksInv, OwnersHold
    <3> QED BY <2>1, <3>5
  <2> QED BY <1>3, <2>2, <2>3, LockedOthers
<1> QED
  BY <1>1, <1>2, <1>3 DEF LocksInOrder, OwnsTable

\* The steps that change neither the buckets that are locked nor who holds them.
Quiet(t) ==
  /\ pc[t] \notin Locking /\ pc'[t] \notin Locking /\ owner' = owner /\ held'[t] = {}
  /\ \A u \in Threads \ {t} : pc'[u] = pc[u] /\ held'[u] = held[u] /\ mine'[u] = mine[u]

\* A thread has a ThreadData before and after all steps but these two.
Lives(t) == ThreadDataCreate(t) \/ ThreadDataDestroy(t) \/ (pc[t] # "none" /\ pc'[t] # "none" /\ numThreads' = numThreads)

LEMMA QuietActions ==
  ASSUME LocksInv, NEW t \in Threads,
         \/ Call(t) \/ ParkTimeOut(t)
         \/ EnsureSizeFast(t) \/ FindBucket(t) \/ FindNoBucket(t) \/ EnterStale(t)
         \/ ParkEnqueue(t) \/ ParkInvalid(t) \/ ParkWakeUp(t) \/ ParkDequeueSelf(t) \/ ParkClear(t)
         \/ UnparkOneDequeue(t) \/ UnparkAllDequeue(t) \/ UnparkWake(t)
  PROVE  Quiet(t) /\ Lives(t)
<1>0. /\ pc \in [Threads -> PCs] /\ mine \in [Threads -> Nat] /\ held \in [Threads -> SUBSET BucketIds]
      /\ pc[t] \notin Locking => held[t] = {}
  BY DEF LocksInv, ThreadTypes, LocksInOrder
<1>1. CASE ThreadDataCreate(t)
  BY <1>0, <1>1 DEF Quiet, Lives, Locking, ThreadDataCreate, Goto
<1>2. CASE ThreadDataDestroy(t)
  BY <1>0, <1>2 DEF Quiet, Lives, Locking, ThreadDataDestroy, locals, Goto
<1>3. CASE ForEachCall(t)
  BY <1>0, <1>3 DEF Quiet, Lives, Locking, ForEachCall, lots, Goto
<1>4. CASE EnsureSizeFast(t)
  BY <1>0, <1>4 DEF Quiet, Lives, Locking, EnsureSizeFast, lots, locals, Goto, Return
<1>5. CASE FindBucket(t)
  BY <1>0, <1>5 DEF Quiet, Lives, Locking, FindBucket, Goto
<1>6. CASE FindNoBucket(t)
  BY <1>0, <1>6 DEF Quiet, Lives, Locking, FindNoBucket, locals, Goto, Return
<1>7. CASE EnterStale(t)
  BY <1>0, <1>7 DEF Quiet, Lives, Locking, EnterStale, BucketFree, lots, locals, Goto
<1>8. CASE ParkEnqueue(t)
  BY <1>0, <1>8 DEF Quiet, Lives, Locking, ParkEnqueue, Enter, BucketFree, Goto
<1>9. CASE ParkInvalid(t)
  BY <1>0, <1>9 DEF Quiet, Lives, Locking, ParkInvalid, Enter, BucketFree, lots, Return
<1>10. CASE ParkWakeUp(t)
  BY <1>0, <1>10 DEF Quiet, Lives, Locking, ParkWakeUp, lots, Return
<1>11. CASE ParkTimeOut(t)
  BY <1>0, <1>11 DEF Quiet, Lives, Locking, ParkTimeOut, lots, Goto
<1>12. CASE ParkDequeueSelf(t)
  BY <1>0, <1>12 DEF Quiet, Lives, Locking, ParkDequeueSelf, Enter, BucketFree, Goto
<1>13. CASE ParkClear(t)
  BY <1>0, <1>13 DEF Quiet, Lives, Locking, ParkClear, Return
<1>14. CASE UnparkOneDequeue(t)
  BY <1>0, <1>14 DEF Quiet, Lives, Locking, UnparkOneDequeue, Unpark, Enter, BucketFree, Goto, Return
<1>15. CASE UnparkAllDequeue(t)
  BY <1>0, <1>15 DEF Quiet, Lives, Locking, UnparkAllDequeue, Unpark, Enter, BucketFree, Goto, Return
<1>16. CASE UnparkWake(t)
  BY <1>0, <1>16 DEF Quiet, Lives, Locking, UnparkWake, Return
<1>17. ASSUME NEW a \in Addresses, ParkCall(t, a) PROVE Quiet(t) /\ Lives(t)
  BY <1>0, <1>17 DEF Quiet, Lives, Locking, ParkCall, Begin, lots, Goto
<1>18. ASSUME NEW a \in Addresses, NEW o \in {"unparkOne", "unparkOneCallback", "unparkAll"}, UnparkCall(t, o, a)
      PROVE  Quiet(t) /\ Lives(t)
  BY <1>0, <1>18 DEF Quiet, Lives, Locking, UnparkCall, Begin, lots, Goto
<1> QED
  BY <1>1, <1>2, <1>3, <1>4, <1>5, <1>6, <1>7, <1>8, <1>9, <1>10, <1>11, <1>12, <1>13, <1>14, <1>15, <1>16, <1>17, <1>18
     DEF Call, UnparkOneCall, UnparkOneCallbackCall, UnparkAllCall

LEMMA TablesNext ==
  ASSUME TablesInv, LocksInv, NEW t \in Threads, Call(t) \/ Step(t) \/ ParkTimeOut(t)
  PROVE  /\ TablesInv' /\ Grown(tables, tables') /\ numBuckets <= numBuckets'
         /\ tables # <<>> => tables' # <<>> /\ (hashtable' = hashtable \/ EnsureSizeSlow(t))
<1>0. /\ tables \in Seq(Tables) /\ numBuckets \in Nat /\ ThreadTypes /\ LocksInOrder /\ OwnsTable
      /\ arg \in [Threads -> Addresses \cup {NoAddress}] /\ mine \in [Threads -> Nat]
  BY DEF TablesInv, TablesOf, LocksInv, ThreadTypes
<1>1. CASE FindBucket(t)
  BY <1>0, <1>1, FindBucketTables
<1>2. CASE FindNoBucket(t)
  BY <1>0, <1>2, FindNoBucketTables
<1>3. CASE LockHashtableFind(t)
  BY <1>0, <1>3, LockHashtableFindTables
<1>4. CASE EnsureSizeSlow(t)
  BY <1>0, <1>4, EnsureSizeSlowTables
<1>5. CASE UNCHANGED <<tables, hashtable, numBuckets>>
  BY <1>0, <1>5, GrownSame DEF TablesInv
<1>6. CASE ThreadDataCreate(t) \/ ThreadDataDestroy(t) \/ ForEachCall(t) \/ EnsureSizeFast(t) \/ ForEachWalk(t)
  BY <1>5, <1>6 DEF ThreadDataCreate, ThreadDataDestroy, ForEachCall, EnsureSizeFast, ForEachWalk, lots
<1>7. ASSUME NEW a \in Addresses,
             ParkCall(t, a) \/ UnparkOneCall(t, a) \/ UnparkOneCallbackCall(t, a) \/ UnparkAllCall(t, a)
      PROVE  UNCHANGED <<tables, hashtable, numBuckets>>
  BY <1>7 DEF ParkCall, UnparkOneCall, UnparkOneCallbackCall, UnparkAllCall, UnparkCall, Begin, lots
<1>8. CASE LockHashtableLock(t) \/ LockHashtableDone(t) \/ EnterStale(t)
  BY <1>5, <1>8 DEF LockHashtableLock, LockHashtableDone, EnterStale, lots
<1>9. CASE ParkEnqueue(t) \/ ParkInvalid(t) \/ ParkWakeUp(t) \/ ParkTimeOut(t) \/ ParkDequeueSelf(t) \/ ParkClear(t)
  BY <1>5, <1>9 DEF ParkEnqueue, ParkInvalid, ParkWakeUp, ParkTimeOut, ParkDequeueSelf, ParkClear, lots
<1>10. CASE UnparkOneDequeue(t) \/ UnparkAllDequeue(t) \/ UnparkWake(t)
  BY <1>5, <1>10 DEF UnparkOneDequeue, UnparkAllDequeue, Unpark, UnparkWake
<1> QED
  BY <1>1, <1>2, <1>3, <1>4, <1>5, <1>6, <1>7, <1>8, <1>9, <1>10 DEF Call, Step

LEMMA LiveNext ==
  ASSUME LocksInv, NEW t \in Threads, Lives(t),
         \A u \in Threads \ {t} : pc'[u] = pc[u], pc' \in [Threads -> PCs]
  PROVE  LiveCounted'
<1>0. IsFiniteSet(Live) /\ numThreads = Cardinality(Live) /\ pc \in [Threads -> PCs]
  BY DEF LocksInv, LiveCounted, ThreadTypes
<1>1. CASE ThreadDataCreate(t)
  <2>1. pc[t] = "none" /\ pc'[t] # "none" /\ numThreads' = numThreads + 1
    BY <1>0, <1>1 DEF ThreadDataCreate, Goto
  <2>2. Live' = Live \cup {t} /\ t \notin Live
    BY <2>1 DEF Live
  <2>3. IsFiniteSet(Live \cup {t}) /\ Cardinality(Live \cup {t}) = Cardinality(Live) + 1
    BY <1>0, <2>2, FS_AddElement
  <2> QED BY <1>0, <2>1, <2>2, <2>3 DEF LiveCounted
<1>2. CASE ThreadDataDestroy(t)
  <2>1. pc[t] # "none" /\ pc'[t] = "none" /\ numThreads' = numThreads - 1
    BY <1>0, <1>2 DEF ThreadDataDestroy, Goto
  <2>2. Live' = Live \ {t} /\ t \in Live
    BY <2>1 DEF Live
  <2>3. IsFiniteSet(Live \ {t}) /\ Cardinality(Live \ {t}) = Cardinality(Live) - 1
    BY <1>0, <2>2, FS_RemoveElement
  <2> QED BY <1>0, <2>1, <2>2, <2>3 DEF LiveCounted
<1>3. CASE pc[t] # "none" /\ pc'[t] # "none" /\ numThreads' = numThreads
  BY <1>3, LiveSame
<1> QED
  BY <1>1, <1>2, <1>3 DEF Lives

LEMMA LocksNext ==
  ASSUME TablesInv, LocksInv, NEW t \in Threads, Call(t) \/ Step(t) \/ ParkTimeOut(t)
  PROVE  LocksInv'
<1>0. ThreadTypes /\ LiveCounted /\ LocksInOrder /\ OwnersHold /\ OwnsTable
  BY DEF LocksInv
<1>1. /\ TablesInv' /\ Grown(tables, tables')
      /\ tables # <<>> => hashtable' = hashtable \/ EnsureSizeSlow(t)
  BY TablesNext
<1>2. ThreadTypes'
  BY ThreadTypesNext
<1>3. ASSUME Quiet(t), Lives(t), ~EnsureSizeSlow(t) PROVE LocksInv'
  <2>1. LiveCounted'
    BY <1>2, <1>3, LiveNext DEF Quiet, ThreadTypes
  <2>2. /\ tables # <<>> => hashtable' = hashtable
        /\ pc[t] \notin Locking /\ pc'[t] \notin Locking /\ owner' = owner /\ held'[t] = {}
        /\ \A u \in Threads \ {t} : pc'[u] = pc[u] /\ held'[u] = held[u] /\ mine'[u] = mine[u]
    BY <1>1, <1>3 DEF Quiet
  <2>3. LocksInOrder' /\ OwnersHold' /\ OwnsTable'
    BY <1>1, <2>2, QuietStep
  <2> QED BY <1>2, <2>1, <2>3 DEF LocksInv
<1>4. CASE \/ Call(t) \/ ParkTimeOut(t)
           \/ EnsureSizeFast(t) \/ FindBucket(t) \/ FindNoBucket(t) \/ EnterStale(t)
           \/ ParkEnqueue(t) \/ ParkInvalid(t) \/ ParkWakeUp(t) \/ ParkDequeueSelf(t) \/ ParkClear(t)
           \/ UnparkOneDequeue(t) \/ UnparkAllDequeue(t) \/ UnparkWake(t)
  <2>1. Quiet(t) /\ Lives(t)
    BY <1>4, QuietActions
  <2>2. ~EnsureSizeSlow(t)
    BY <2>1 DEF Quiet, EnsureSizeSlow, Locking
  <2> QED BY <1>3, <2>1, <2>2
<1>5. CASE EnsureSizeSlow(t) \/ ForEachWalk(t)
  <2>1. /\ pc[t] = "owning" /\ pc' = [pc EXCEPT ![t] = "ready"] /\ mine' = [mine EXCEPT ![t] = 0]
        /\ held' = [held EXCEPT ![t] = {}] /\ UnlockHashtable(t) /\ numThreads' = numThreads
    BY <1>5 DEF EnsureSizeSlow, ForEachWalk, Return
  <2>2. /\ pc[t] \in Locking /\ pc'[t] \notin Locking /\ pc[t] # "none" /\ pc'[t] # "none"
        /\ \A u \in Threads \ {t} : pc'[u] = pc[u] /\ mine'[u] = mine[u]
    BY <1>0, <2>1 DEF ThreadTypes, Locking
  <2>3. LiveCounted'
    BY <2>1, <2>2, LiveSame
  <2>4. LocksInOrder' /\ OwnersHold' /\ OwnsTable'
    BY <1>1, <2>1, <2>2, UnlockStep
  <2> QED BY <1>2, <2>3, <2>4 DEF LocksInv
<1>6. CASE LockHashtableFind(t)
  <2>1. /\ pc[t] = "lockTable" /\ pc' = [pc EXCEPT ![t] = "locking"] /\ UNCHANGED <<held, owner, numThreads>>
        /\ mine' = [mine EXCEPT ![t] = HashtableEnsured]
    BY <1>6 DEF LockHashtableFind, Goto
  <2>2. /\ pc[t] \notin Locking /\ pc'[t] = "locking" /\ held[t] = {} /\ pc[t] # "none" /\ pc'[t] # "none"
        /\ \A u \in Threads \ {t} : pc'[u] = pc[u] /\ mine'[u] = mine[u] /\ held'[u] = held[u]
    BY <1>0, <2>1 DEF ThreadTypes, Locking, LocksInOrder
  <2>3. mine'[t] = hashtable' /\ IsFull(tables'[hashtable']) /\ tables' # <<>> /\ (tables # <<>> => hashtable' = hashtable)
    BY <1>0, <1>6, LockHashtableFindTables DEF ThreadTypes
  <2>4. LiveCounted'
    BY <2>1, <2>2, LiveSame
  <2>5. OwnersHold'
    BY <1>0, <2>1 DEF OwnersHold
  <2>6. hashtable' \in 1..Len(tables')
    BY <1>1, <2>3 DEF TablesInv, TablesOf
  <2>7. ASSUME NEW u \in Threads
        PROVE  IF pc'[u] \in Locking
               THEN /\ mine'[u] \in 1..Len(tables') /\ IsFull(tables'[mine'[u]])
                    /\ held'[u] \subseteq BucketsOf(tables'[mine'[u]])
                    /\ \A b \in held'[u], c \in BucketsOf(tables'[mine'[u]]) : c < b => c \in held'[u]
               ELSE held'[u] = {}
    <3>1. CASE u = t
      <4>1. held'[u] = {} /\ pc'[u] \in Locking
        BY <2>1, <2>2, <3>1 DEF Locking
      <4> QED BY <2>3, <2>6, <3>1, <4>1
    <3>2. CASE u # t
      <4>1. pc'[u] = pc[u] /\ mine'[u] = mine[u] /\ held'[u] = held[u]
        BY <2>2, <3>2
      <4> QED BY <1>1, <4>1, LockedOthers
    <3> QED BY <3>1, <3>2
  <2>8. ASSUME NEW u \in Threads, pc'[u] = "owning"
        PROVE  mine'[u] = hashtable' /\ held'[u] = BucketsOf(tables'[hashtable'])
    <3>1. u # t
      BY <2>2, <2>8
    <3>2. pc'[u] = pc[u] /\ mine'[u] = mine[u] /\ held'[u] = held[u]
      BY <2>2, <3>1
    <3> QED BY <1>1, <2>3, <2>8, <3>2, LockedOthers
  <2> QED BY <1>2, <2>4, <2>5, <2>7, <2>8 DEF LocksInv, LocksInOrder, OwnsTable
<1>7. CASE LockHashtableLock(t)
  <2> DEFINE n == NextToLock(t)
             B == BucketsOf(tables[mine[t]])
  <2>1. /\ owner[n] = NoThread /\ owner' = [owner EXCEPT ![n] = t] /\ held' = [held EXCEPT ![t] = held[t] \cup {n}]
        /\ UNCHANGED <<pc, mine, tables, hashtable, numThreads>> /\ WantsBucket(t)
    BY <1>7 DEF LockHashtableLock
  <2>2. pc[t] = "locking"
    BY <2>1 DEF WantsBucket
  <2>3. /\ mine[t] \in 1..Len(tables) /\ IsFull(tables[mine[t]]) /\ held[t] \subseteq B
        /\ \A b \in held[t], c \in B : c < b => c \in held[t]
    BY <1>0, <2>2 DEF LocksInOrder, Locking
  <2>4. n \in B \ held[t] /\ \A c \in B \ held[t] : n <= c
    BY <2>1, <2>3, NextToLockFacts
  <2>5. B \subseteq Nat
    <3>1. tables[mine[t]] \in Tables
      BY <2>3 DEF TablesInv, TablesOf
    <3> QED BY <3>1, TableFacts
  <2>6. /\ held'[t] = held[t] \cup {n} /\ pc'[t] = "locking" /\ mine'[t] = mine[t] /\ tables' = tables
        /\ \A u \in Threads \ {t} : pc'[u] = pc[u] /\ mine'[u] = mine[u] /\ held'[u] = held[u]
    BY <1>0, <2>1, <2>2 DEF ThreadTypes
  <2> HIDE DEF n, B
  <2>7. LiveCounted'
    BY <2>1, <2>2, <2>6, LiveSame
  <2>8. OwnersHold'
    <3> SUFFICES ASSUME NEW b \in BucketIds, NEW u \in Threads PROVE owner'[b] = u <=> b \in held'[u]
      BY DEF OwnersHold
    <3>1. owner'[b] = IF b = n THEN t ELSE owner[b]
      BY <1>0, <2>1 DEF ThreadTypes
    <3>2. (owner[b] = u <=> b \in held[u]) /\ u # NoThread
      BY <1>0, ConstantsAssumption DEF OwnersHold
    <3>3. CASE u = t
      BY <2>6, <3>1, <3>2, <3>3
    <3>4. CASE u # t
      BY <2>1, <2>6, <3>1, <3>2, <3>4
    <3> QED BY <3>3, <3>4
  <2>9. ASSUME NEW u \in Threads
        PROVE  IF pc'[u] \in Locking
               THEN /\ mine'[u] \in 1..Len(tables') /\ IsFull(tables'[mine'[u]])
                    /\ held'[u] \subseteq BucketsOf(tables'[mine'[u]])
                    /\ \A b \in held'[u], c \in BucketsOf(tables'[mine'[u]]) : c < b => c \in held'[u]
               ELSE held'[u] = {}
    <3>1. CASE u = t
      <4>1. ASSUME NEW b \in held[t] \cup {n}, NEW c \in B, c < b PROVE c \in held[t] \cup {n}
        <5>1. CASE b \in held[t]
          BY <2>3, <4>1, <5>1
        <5>2. CASE b = n
          <6>1. n \in Nat /\ c \in Nat /\ c < n
            BY <2>4, <2>5, <4>1, <5>2
          <6> QED BY <2>4, <6>1
        <5> QED BY <5>1, <5>2
      <4>2. held[t] \cup {n} \subseteq B
        BY <2>3, <2>4
      <4> QED BY <2>3, <2>6, <3>1, <4>1, <4>2 DEF B, Locking
    <3>2. CASE u # t
      <4>1. pc'[u] = pc[u] /\ mine'[u] = mine[u] /\ held'[u] = held[u]
        BY <2>6, <3>2
      <4> QED BY <1>1, <4>1, LockedOthers
    <3> QED BY <3>1, <3>2
  <2>10. ASSUME NEW u \in Threads, pc'[u] = "owning"
        PROVE  mine'[u] = hashtable' /\ held'[u] = BucketsOf(tables'[hashtable'])
    <3>1. u # t
      BY <2>6, <2>10
    <3>2. pc'[u] = pc[u] /\ mine'[u] = mine[u] /\ held'[u] = held[u]
      BY <2>6, <3>1
    <3> QED BY <1>1, <2>1, <2>10, <3>2, LockedOthers
  <2> QED BY <1>2, <2>7, <2>8, <2>9, <2>10 DEF LocksInv, LocksInOrder, OwnsTable
<1>8. CASE LockHashtableDone(t)
  <2>1. /\ pc[t] = "locking" /\ held[t] = BucketsOf(tables[mine[t]])
        /\ UNCHANGED <<mine, tables, hashtable, numThreads>>
    BY <1>8 DEF LockHashtableDone, WantsBucket
  <2>2. CASE hashtable = mine[t]
    <3>1. UNCHANGED <<owner, held>> /\ pc' = [pc EXCEPT ![t] = "owning"]
      BY <1>8, <2>2 DEF LockHashtableDone, Goto
    <3>2. pc'[t] = "owning" /\ \A u \in Threads \ {t} : pc'[u] = pc[u]
      BY <1>0, <3>1 DEF ThreadTypes
    <3>3. LiveCounted'
      BY <2>1, <3>2, LiveSame
    <3>4. OwnersHold'
      BY <1>0, <3>1 DEF OwnersHold
    <3>5. \A u \in Threads : pc'[u] \in Locking <=> pc[u] \in Locking
      BY <2>1, <3>2 DEF Locking
    <3>6. LocksInOrder'
      BY <1>0, <2>1, <3>1, <3>5 DEF LocksInOrder
    <3>7. OwnsTable'
      BY <1>0, <2>1, <2>2, <3>1, <3>2 DEF OwnsTable
    <3> QED BY <1>2, <3>3, <3>4, <3>6, <3>7 DEF LocksInv
  <2>3. CASE hashtable # mine[t]
    <3>1. UnlockHashtable(t) /\ held' = [held EXCEPT ![t] = {}] /\ pc' = [pc EXCEPT ![t] = "lockTable"]
      BY <1>8, <2>3 DEF LockHashtableDone, Goto
    <3>2. /\ pc[t] \in Locking /\ pc'[t] \notin Locking /\ pc[t] # "none" /\ pc'[t] # "none"
          /\ \A u \in Threads \ {t} : pc'[u] = pc[u] /\ mine'[u] = mine[u]
      BY <1>0, <2>1, <3>1 DEF ThreadTypes, Locking
    <3>3. LiveCounted'
      BY <2>1, <3>2, LiveSame
    <3>4. LocksInOrder' /\ OwnersHold' /\ OwnsTable'
      BY <1>1, <2>1, <3>1, <3>2, UnlockStep
    <3> QED BY <1>2, <3>3, <3>4 DEF LocksInv
  <2> QED BY <2>2, <2>3
<1> QED
  BY <1>4, <1>5, <1>6, <1>7, <1>8 DEF Step

LEMMA InitTablesLocks ==
  ASSUME Init
  PROVE  TablesInv /\ LocksInv
<1>1. TablesInv
  <2>1. tables = <<>> /\ hashtable = 0 /\ numBuckets = 0 /\ 0 \in 0..MaxBuckets
    BY ConstantsAssumption DEF Init
  <2> QED BY <2>1 DEF TablesInv, TablesOf
<1>2. ThreadTypes
  BY DEF Init, ThreadTypes, PCs, Ops
<1>3. LiveCounted
  <2>1. Live = {} /\ numThreads = 0
    BY DEF Init, Live
  <2> QED BY <2>1, FS_EmptySet DEF LiveCounted
<1>4. LocksInOrder /\ OwnersHold /\ OwnsTable
  BY ConstantsAssumption DEF Init, LocksInOrder, OwnersHold, OwnsTable, Locking
<1> QED
  BY <1>1, <1>2, <1>3, <1>4 DEF LocksInv

LEMMA NextTablesLocks ==
  ASSUME TablesInv, LocksInv, [Next]_vars
  PROVE  TablesInv' /\ LocksInv'
<1>1. CASE Next
  <2>1. PICK t \in Threads : Call(t) \/ Step(t) \/ ParkTimeOut(t)
    BY <1>1 DEF Next
  <2> QED BY <2>1, TablesNext, LocksNext
<1>2. CASE UNCHANGED vars
  BY <1>2 DEF vars, lots, locals, TablesInv, LocksInv, ThreadTypes, LiveCounted, Live, LocksInOrder,
     OwnersHold, OwnsTable
<1> QED
  BY <1>1, <1>2

\* The hash tables and the locks of their buckets are as TablesInv and LocksInv say.
THEOREM TablesAndLocks == Spec => [](TablesInv /\ LocksInv)
<1>1. Init => TablesInv /\ LocksInv
  BY InitTablesLocks
<1>2. (TablesInv /\ LocksInv) /\ [Next]_vars => (TablesInv /\ LocksInv)'
  BY NextTablesLocks
<1> QED
  BY <1>1, <1>2, PTL DEF Spec

LEMMA SizesGrow ==
  ASSUME TablesInv
  PROVE  BucketsNotLeaked
<1>0. tables \in Seq(Tables)
  BY DEF TablesInv, TablesOf
<1>1. ASSUME NEW k \in 2..Len(tables) PROVE Size(tables[k - 1]) < Size(tables[k])
  <2>1. k - 1 \in 1..(Len(tables) - 1) /\ (k - 1) + 1 = k
    BY <1>0
  <2>2. \A j \in 1..(Len(tables) - 1) : Size(tables[j]) < Size(tables[j + 1])
    BY DEF TablesInv, TablesOf
  <2>3. Size(tables[k - 1]) < Size(tables[(k - 1) + 1])
    BY <2>1, <2>2
  <2> QED BY <2>1, <2>3
<1>2. ASSUME NEW b \in 1..numBuckets
      PROVE  Cardinality({i \in DOMAIN tables[hashtable] : tables[hashtable][i] = b}) = 1
  <2> DEFINE f == tables[hashtable]
             I == {i \in DOMAIN f : f[i] = b}
  <2>1. numBuckets \in Nat /\ b # NoBucket
    BY DEF TablesInv, TablesOf, NoBucket
  <2>2. tables # <<>>
    BY <2>1 DEF TablesInv, TablesOf
  <2>3. Distinct(f) /\ BucketsOf(f) \ {NoBucket} = 1..numBuckets
    BY <2>2, CurrentTable DEF TablesInv, HasBuckets
  <2> HIDE DEF f
  <2>4. PICK i \in DOMAIN f : f[i] = b
    BY <2>3 DEF BucketsOf
  <2>5. I = {i}
    BY <2>1, <2>3, <2>4 DEF Distinct
  <2>6. Cardinality({i}) = 1
    BY FS_Singleton
  <2> QED BY <2>5, <2>6 DEF f
<1> QED
  BY <1>1, <1>2 DEF BucketsNotLeaked

\* A thread waits for a bucket that its owner locked before the one that owner waits for.
LEMMA WaitsForLater ==
  ASSUME TablesInv, LocksInv, NEW t \in Threads, NEW u \in Threads, WantsBucket(t), WantsBucket(u),
         owner[NextToLock(t)] = u
  PROVE  /\ NextToLock(t) \in BucketIds /\ NextToLock(u) \in BucketIds
         /\ NextToLock(t) < NextToLock(u)
<1>1. ASSUME NEW v \in Threads, WantsBucket(v)
      PROVE  /\ NextToLock(v) \in BucketsOf(tables[mine[v]]) \ held[v] /\ NextToLock(v) \in BucketIds
             /\ \A b \in held[v], c \in BucketsOf(tables[mine[v]]) : c < b => c \in held[v]
  <2>1. pc[v] \in Locking
    BY <1>1 DEF WantsBucket, Locking
  <2>2. /\ mine[v] \in 1..Len(tables) /\ held[v] \subseteq BucketsOf(tables[mine[v]]) /\ IsFull(tables[mine[v]])
        /\ \A b \in held[v], c \in BucketsOf(tables[mine[v]]) : c < b => c \in held[v]
    BY <2>1 DEF LocksInv, LocksInOrder
  <2>3. NextToLock(v) \in BucketsOf(tables[mine[v]]) \ held[v]
    BY <1>1, <2>2, NextToLockFacts
  <2>4. tables[mine[v]] \in Tables /\ BucketsOf(tables[mine[v]]) \subseteq 0..numBuckets /\ numBuckets \in 0..MaxBuckets
    BY <2>2 DEF TablesInv, TablesOf
  <2>5. NoBucket \notin BucketsOf(tables[mine[v]])
    BY <2>2, <2>4, TableFacts
  <2>6. NextToLock(v) \in BucketIds
    BY <2>3, <2>4, <2>5, ConstantsAssumption DEF NoBucket, BucketIds
  <2> QED BY <2>2, <2>3, <2>6
<1>2. NextToLock(t) \in BucketIds /\ NextToLock(u) \in BucketIds
  BY <1>1
<1>3. NextToLock(t) \in held[u]
  BY <1>2 DEF LocksInv, OwnersHold
<1>4. NextToLock(u) \notin held[u] /\ ~(NextToLock(u) < NextToLock(t))
  BY <1>1, <1>3
<1>5. NextToLock(t) \in Nat /\ NextToLock(u) \in Nat
  BY <1>2, ConstantsAssumption DEF BucketIds
<1> QED
  BY <1>2, <1>3, <1>4, <1>5

LEMMA NoCycle ==
  ASSUME TablesInv, LocksInv
  PROVE  NoWaitCycle
<1> SUFFICES \A S \in (SUBSET Threads) \ {{}} :
               \E t \in S : ~(WantsBucket(t) /\ owner[NextToLock(t)] \in S)
  BY DEF NoWaitCycle
<1> TAKE S \in (SUBSET Threads) \ {{}}
<1> SUFFICES ASSUME \A t \in S : WantsBucket(t) /\ owner[NextToLock(t)] \in S
             PROVE  FALSE
  BY Zenon
<1>a. S # {} /\ S \subseteq Threads
  OBVIOUS
<1>1. ASSUME NEW t \in S
      PROVE  /\ NextToLock(t) \in BucketIds
             /\ \E u \in S : NextToLock(u) \in BucketIds /\ NextToLock(t) < NextToLock(u)
  <2>1. PICK u \in S : owner[NextToLock(t)] = u
    OBVIOUS
  <2>2. t \in Threads /\ u \in Threads /\ WantsBucket(t) /\ WantsBucket(u)
    BY <1>a
  <2> QED BY <2>1, <2>2, WaitsForLater
<1> DEFINE D == {n \in Nat : \E t \in S : NextToLock(t) = MaxBuckets - n}
<1>2. MaxBuckets \in Nat /\ BucketIds = 1..MaxBuckets
  BY ConstantsAssumption DEF BucketIds
<1>3. ASSUME NEW t \in S PROVE MaxBuckets - NextToLock(t) \in D
  <2>1. NextToLock(t) \in 1..MaxBuckets
    BY <1>1, <1>2
  <2> DEFINE n == MaxBuckets - NextToLock(t)
  <2>2. n \in Nat /\ NextToLock(t) = MaxBuckets - n
    BY <1>2, <2>1
  <2> QED BY <2>2
<1>4. D # {} /\ D \in SUBSET Nat
  BY <1>3, <1>a
<1> HIDE DEF D
<1>5. PICK m \in D : \A k \in D : m <= k
  BY <1>4, LeastNumber
<1>6. PICK t \in S : NextToLock(t) = MaxBuckets - m
  BY <1>5 DEF D
<1>7. PICK u \in S : NextToLock(u) \in BucketIds /\ NextToLock(t) < NextToLock(u)
  BY <1>1
<1>8. m <= MaxBuckets - NextToLock(u)
  BY <1>3, <1>5
<1>9. m \in Nat /\ NextToLock(u) \in 1..MaxBuckets
  BY <1>2, <1>4, <1>5, <1>7
<1> QED
  BY <1>2, <1>6, <1>7, <1>8, <1>9

\* Whatever the order in which threads find, create, lock and replace hash tables,
\* every bucket is in one slot of the current table and tables grow: the assertion of
\* ensureHashtableSize() that the preallocated buckets are used up cannot fail.
THEOREM BucketsNotLeakedAlways == Spec => []BucketsNotLeaked
<1>1. TablesInv /\ LocksInv => BucketsNotLeaked
  BY SizesGrow
<1> QED
  BY <1>1, TablesAndLocks, PTL

\* Threads that lock the buckets of a hash table, also of different ones, never wait
\* for each other in a circle: lockHashtable() sorts the buckets before it locks them.
THEOREM NoWaitCycleAlways == Spec => []NoWaitCycle
<1>1. TablesInv /\ LocksInv => NoWaitCycle
  BY NoCycle
<1> QED
  BY <1>1, TablesAndLocks, PTL

-----------------------------------------------------------------------------
(***************************************************************************)
(* The queues: QueueInv is inductive as long as ParksAwake holds.          *)
(***************************************************************************)
LEMMA WokenContains ==
  ASSUME NEW p \in [Threads -> Seq(Threads)], NEW t
  PROVE  (\E u \in Threads : Contains(p[u], t)) <=> t \in UNION {ToSet(p[u]) : u \in Threads}
<1>1. \A u \in Threads : Contains(p[u], t) <=> t \in ToSet(p[u])
  BY ToSetContains
<1> QED
  BY <1>1

\* A step of t leaves the locals of the other threads alone.
OthersSame(t) ==
  \A u \in Threads \ {t} :
    /\ pc'[u] = pc[u] /\ op'[u] = op[u] /\ arg'[u] = arg[u] /\ mine'[u] = mine[u]
    /\ bucket'[u] = bucket[u] /\ didFind'[u] = didFind[u] /\ pending'[u] = pending[u]

LEMMA OthersSameNext ==
  ASSUME LocksInv, QueueTypes, NEW t \in Threads, Call(t) \/ Step(t) \/ ParkTimeOut(t)
  PROVE  OthersSame(t)
<1>0. /\ pc \in [Threads -> PCs] /\ op \in [Threads -> Ops] /\ mine \in [Threads -> Nat]
      /\ arg \in [Threads -> Addresses \cup {NoAddress}] /\ bucket \in [Threads -> Nat]
      /\ pending \in [Threads -> Seq(Threads)] /\ didFind \in [Threads -> BOOLEAN]
  BY DEF LocksInv, ThreadTypes, QueueTypes
<1> USE DEF OthersSame
<1>1. CASE ThreadDataCreate(t)
  BY <1>0, <1>1 DEF ThreadDataCreate, Goto
<1>2. CASE ThreadDataDestroy(t)
  BY <1>0, <1>2 DEF ThreadDataDestroy, locals, Goto
<1>3. CASE ForEachCall(t)
  BY <1>0, <1>3 DEF ForEachCall, lots, Goto
<1>4. CASE EnsureSizeFast(t)
  BY <1>0, <1>4 DEF EnsureSizeFast, lots, locals, Goto, Return
<1>5. CASE EnsureSizeSlow(t)
  BY <1>0, <1>5 DEF EnsureSizeSlow, Return
<1>6. CASE ForEachWalk(t)
  BY <1>0, <1>6 DEF ForEachWalk, Return
<1>7. CASE LockHashtableFind(t)
  BY <1>0, <1>7 DEF LockHashtableFind, Goto
<1>8. CASE LockHashtableLock(t)
  BY <1>0, <1>8 DEF LockHashtableLock
<1>9. CASE LockHashtableDone(t)
  BY <1>0, <1>9 DEF LockHashtableDone, Goto
<1>10. CASE FindBucket(t)
  BY <1>0, <1>10 DEF FindBucket, Goto
<1>11. CASE FindNoBucket(t)
  BY <1>0, <1>11 DEF FindNoBucket, locals, Goto, Return
<1>12. CASE EnterStale(t)
  BY <1>0, <1>12 DEF EnterStale, lots, locals, Goto
<1>13. CASE ParkEnqueue(t)
  BY <1>0, <1>13 DEF ParkEnqueue, Goto
<1>14. CASE ParkInvalid(t)
  BY <1>0, <1>14 DEF ParkInvalid, lots, Return
<1>15. CASE ParkWakeUp(t)
  BY <1>0, <1>15 DEF ParkWakeUp, lots, Return
<1>16. CASE ParkTimeOut(t)
  BY <1>0, <1>16 DEF ParkTimeOut, lots, Goto
<1>17. CASE ParkDequeueSelf(t)
  BY <1>0, <1>17 DEF ParkDequeueSelf, Goto
<1>18. CASE ParkClear(t)
  BY <1>0, <1>18 DEF ParkClear, Return
<1>19. CASE UnparkOneDequeue(t)
  BY <1>0, <1>19 DEF UnparkOneDequeue, Unpark, Goto, Return
<1>20. CASE UnparkAllDequeue(t)
  BY <1>0, <1>20 DEF UnparkAllDequeue, Unpark, Goto, Return
<1>21. CASE UnparkWake(t)
  BY <1>0, <1>21 DEF UnparkWake, Return
<1>22. ASSUME NEW a \in Addresses, ParkCall(t, a) PROVE OthersSame(t)
  BY <1>0, <1>22 DEF ParkCall, Begin, lots, Goto
<1>23. ASSUME NEW a \in Addresses, NEW o \in {"unparkOne", "unparkOneCallback", "unparkAll"}, UnparkCall(t, o, a)
      PROVE  OthersSame(t)
  BY <1>0, <1>23 DEF UnparkCall, Begin, lots, Goto
<1> HIDE DEF OthersSame
<1> QED
  BY <1>1, <1>2, <1>3, <1>4, <1>5, <1>6, <1>7, <1>8, <1>9, <1>10, <1>11, <1>12, <1>13, <1>14, <1>15, <1>16, <1>17, <1>18, <1>19, <1>20, <1>21, <1>22, <1>23
     DEF Call, Step, UnparkOneCall, UnparkOneCallbackCall, UnparkAllCall

LEMMA InOperationFrame ==
  ASSUME TablesInv, TablesInv', Grown(tables, tables'), numBuckets <= numBuckets', NEW u \in Threads, InOperation(u),
         arg \in [Threads -> Addresses \cup {NoAddress}],
         pc'[u] = pc[u] /\ op'[u] = op[u] /\ arg'[u] = arg[u] /\ mine'[u] = mine[u],
         bucket'[u] = bucket[u] /\ didFind'[u] = didFind[u] /\ pending'[u] = pending[u]
  PROVE  InOperation(u)'
<1>1. ASSUME pc[u] = "enter"
      PROVE  /\ mine[u] \in 1..Len(tables') /\ bucket[u] \in 1..numBuckets'
             /\ bucket[u] = Slot(tables'[mine[u]], arg[u])
  <2>1. /\ mine[u] \in 1..Len(tables) /\ bucket[u] \in 1..numBuckets
        /\ bucket[u] = Slot(tables[mine[u]], arg[u])
    BY <1>1 DEF InOperation
  <2>2. tables \in Seq(Tables) /\ tables' \in Seq(Tables) /\ numBuckets \in Nat /\ numBuckets' \in Nat
    BY DEF TablesInv, TablesOf
  <2>3. bucket[u] # NoBucket /\ bucket[u] \in 1..numBuckets'
    BY <2>1, <2>2 DEF NoBucket
  <2>4. arg[u] \in Addresses \cup {NoAddress}
    OBVIOUS
  <2> QED BY <2>1, <2>2, <2>3, <2>4, GrownFull
<1> QED
  BY <1>1 DEF InOperation

\* The bucket of an address that has one does not change.
SlotsStay ==
  \A a \in Addresses : tables # <<>> /\ Slot(tables[hashtable], a) # NoBucket =>
    tables' # <<>> /\ Slot(tables'[hashtable'], a) = Slot(tables[hashtable], a)

LEMMA SlotsStayNext ==
  ASSUME TablesInv, LocksInv, NEW t \in Threads, Call(t) \/ Step(t) \/ ParkTimeOut(t), ~EnsureSizeSlow(t)
  PROVE  SlotsStay
<1>1. /\ TablesInv' /\ Grown(tables, tables')
      /\ tables # <<>> => tables' # <<>> /\ hashtable' = hashtable
  BY TablesNext
<1>2. tables \in Seq(Tables) /\ tables' \in Seq(Tables)
  BY <1>1 DEF TablesInv, TablesOf
<1>3. ASSUME tables # <<>> PROVE hashtable \in 1..Len(tables)
  BY <1>3, CurrentTable DEF TablesInv
<1> QED
  BY <1>1, <1>2, <1>3, GrownFull DEF SlotsStay

\* A step that moves no thread on or off a queue or among the threads to wake.
LEMMA QueuesQuiet ==
  ASSUME TablesInv, TablesInv', Grown(tables, tables'), numBuckets <= numBuckets', SlotsStay,
         LocksInv, QueueInv, NEW t \in Threads, OthersSame(t), QueueTypes',
         UNCHANGED <<queues, address, pending>>,
         InOperation(t)', Addressed(t)', Verdict(t)', pc[t] # "clear",
         \/ pc'[t] = "parked" \/ (op'[t] = "dequeueSelf" /\ pc'[t] \in {"find", "enter"})
         \/ \A b \in BucketIds : t \notin ToSet(queues[b])
  PROVE  QueueInv'
<1>0. Woken' = Woken
  BY DEF Woken
<1>1. ASSUME NEW u \in Threads, u # t PROVE InOperation(u)' /\ Addressed(u)' /\ Verdict(u)'
  <2>1. /\ pc'[u] = pc[u] /\ op'[u] = op[u] /\ arg'[u] = arg[u] /\ mine'[u] = mine[u]
        /\ bucket'[u] = bucket[u] /\ didFind'[u] = didFind[u] /\ pending'[u] = pending[u]
    BY <1>1 DEF OthersSame
  <2>2. InOperation(u) /\ Addressed(u) /\ Verdict(u)
    BY DEF QueueInv
  <2>3. arg \in [Threads -> Addresses \cup {NoAddress}]
    BY DEF LocksInv, ThreadTypes
  <2>4. InOperation(u)'
    BY <2>1, <2>2, <2>3, InOperationFrame
  <2>5. Addressed(u)'
    BY <2>1, <2>2 DEF Addressed, TimingOut
  <2>6. Verdict(u)'
    BY <1>0, <2>1, <2>2 DEF Verdict
  <2> QED BY <2>4, <2>5, <2>6
<1>2. ASSUME NEW u \in Threads PROVE Unstranded(u)'
  <2>1. Unstranded(u) /\ address \in [Threads -> Addresses \cup {NoAddress}]
    BY DEF QueueInv, LocksInv, ThreadTypes
  <2>2. pc'[u] # "clear" => pc[u] # "clear"
    BY DEF OthersSame
  <2>3. ASSUME address[u] # NoAddress, pc'[u] # "clear", u \notin Woken
        PROVE  /\ tables' # <<>> /\ Slot(tables'[hashtable'], address[u]) \in BucketIds
               /\ u \in ToSet(queues[Slot(tables'[hashtable'], address[u])])
    <3>1. /\ tables # <<>> /\ Slot(tables[hashtable], address[u]) \in BucketIds
          /\ u \in ToSet(queues[Slot(tables[hashtable], address[u])])
      BY <2>1, <2>2, <2>3 DEF Unstranded
    <3>2. address[u] \in Addresses /\ Slot(tables[hashtable], address[u]) # NoBucket
      BY <2>1, <2>3, <3>1 DEF BucketIds, NoBucket
    <3> QED BY <3>1, <3>2 DEF SlotsStay
  <2> QED BY <1>0, <2>3 DEF Unstranded
<1>3. ASSUME NEW b \in BucketIds, NEW u \in ToSet(queues[b]) PROVE QueuedHere(u, b)'
  <2>1. QueuedHere(u, b) /\ u \in Threads
    <3>1. queues[b] \in Seq(Threads)
      BY DEF LocksInv, ThreadTypes
    <3> QED BY <3>1, ToSetContains DEF QueueInv
  <2>2. pc'[u] = "parked" \/ TimingOut(u)'
    <3>1. CASE u = t
      BY <3>1 DEF TimingOut
    <3>2. CASE u # t
      BY <2>1, <3>2 DEF OthersSame, TimingOut, QueuedHere
    <3> QED BY <3>1, <3>2
  <2>3. b # NoBucket
    BY DEF BucketIds, NoBucket
  <2>4. tables' # <<>> /\ b = Slot(tables'[hashtable'], address[u])
    BY <2>1, <2>3 DEF QueuedHere, SlotsStay
  <2> QED BY <1>0, <2>1, <2>2, <2>4 DEF QueuedHere
<1>4. \A b \in BucketIds : Once(queues'[b]) /\ \A u \in ToSet(queues'[b]) : QueuedHere(u, b)'
  BY <1>3 DEF QueueInv
<1>5. \A u \in Threads : (InOperation(u) /\ Addressed(u) /\ Verdict(u) /\ Unstranded(u))'
  BY <1>1, <1>2
<1> QED
  BY <1>4, <1>5 DEF QueueInv

LEMMA ReturnQueueTypes ==
  ASSUME QueueTypes, NEW t \in Threads,
         \/ UNCHANGED <<bucket, didFind>>
         \/ bucket' = [bucket EXCEPT ![t] = NoBucket] /\ didFind' = [didFind EXCEPT ![t] = FALSE]
  PROVE  bucket' \in [Threads -> Nat] /\ didFind' \in [Threads -> BOOLEAN]
<1>1. bucket' \in [Threads -> Nat]
  <2>1. bucket' = bucket \/ bucket' = [bucket EXCEPT ![t] = NoBucket]
    OBVIOUS
  <2>2. bucket \in [Threads -> Nat] /\ NoBucket \in Nat
    BY DEF QueueTypes, NoBucket
  <2> QED BY <2>1, <2>2
<1>2. didFind' \in [Threads -> BOOLEAN]
  <2>1. didFind' = didFind \/ didFind' = [didFind EXCEPT ![t] = FALSE]
    OBVIOUS
  <2>2. didFind \in [Threads -> BOOLEAN] /\ FALSE \in BOOLEAN
    BY DEF QueueTypes
  <2> QED BY <2>1, <2>2, Zenon
<1> QED
  BY <1>1, <1>2

LEMMA UnparkQueueTypes ==
  ASSUME QueueTypes, NEW t \in Threads, NEW woken \in Seq(Threads), NEW rest, Unpark(t, woken, rest)
  PROVE  QueueTypes'
<1>1. pending' = [pending EXCEPT ![t] = woken]
  BY DEF Unpark
<1>2. \/ UNCHANGED <<bucket, didFind>>
      \/ bucket' = [bucket EXCEPT ![t] = NoBucket] /\ didFind' = [didFind EXCEPT ![t] = FALSE]
  BY DEF Unpark, Return
<1>3. bucket' \in [Threads -> Nat] /\ didFind' \in [Threads -> BOOLEAN]
  BY <1>2, ReturnQueueTypes
<1>4. pending' \in [Threads -> Seq(Threads)]
  BY <1>1 DEF QueueTypes
<1> QED
  BY <1>3, <1>4 DEF QueueTypes

\* A thread that is about to lock a bucket has one, and one that wakes threads has some.
HasWork(t) ==
  /\ pc[t] = "enter" => bucket[t] \in 1..numBuckets
  /\ pc[t] = "wake" => pending[t] # <<>>

LEMMA QueueTypesNext ==
  ASSUME TablesInv, LocksInv, QueueTypes, NEW t \in Threads, HasWork(t), Call(t) \/ Step(t) \/ ParkTimeOut(t)
  PROVE  QueueTypes'
<1>0. QueueTypes
  OBVIOUS
<1>1. ASSUME \/ UNCHANGED <<bucket, didFind, pending>>
             \/ Return(t) /\ UNCHANGED pending
      PROVE  QueueTypes'
  <2>1. \/ UNCHANGED <<bucket, didFind>>
        \/ bucket' = [bucket EXCEPT ![t] = NoBucket] /\ didFind' = [didFind EXCEPT ![t] = FALSE]
    BY <1>1 DEF Return
  <2>2. bucket' \in [Threads -> Nat] /\ didFind' \in [Threads -> BOOLEAN]
    BY <1>0, <2>1, ReturnQueueTypes
  <2>3. pending' = pending
    BY <1>1
  <2> QED BY <1>0, <2>2, <2>3 DEF QueueTypes
<1>2. CASE Call(t) \/ ParkTimeOut(t)
  BY <1>1, <1>2 DEF Call, ThreadDataCreate, ThreadDataDestroy, ForEachCall, ParkTimeOut, ParkCall,
     UnparkOneCall, UnparkOneCallbackCall, UnparkAllCall, UnparkCall, Begin, locals
<1>3. CASE EnsureSizeFast(t) \/ EnsureSizeSlow(t) \/ ForEachWalk(t)
  BY <1>1, <1>3 DEF EnsureSizeFast, EnsureSizeSlow, ForEachWalk, locals
<1>4. CASE LockHashtableFind(t) \/ LockHashtableLock(t) \/ LockHashtableDone(t) \/ EnterStale(t)
  BY <1>1, <1>4 DEF LockHashtableFind, LockHashtableLock, LockHashtableDone, EnterStale, locals
<1>5. CASE FindNoBucket(t)
  BY <1>1, <1>5 DEF FindNoBucket, locals
<1>6. CASE FindBucket(t)
  <2> DEFINE b == Slot(TablesEnsured[HashtableEnsured], arg[t])
  <2>1. b \in Nat /\ numBuckets + 1 \in Nat
    <3>1. TablesEnsured[HashtableEnsured] \in Tables /\ numBuckets \in Nat
      BY EnsuredTables, CurrentTable
    <3>2. arg[t] \in Addresses \cup {NoAddress}
      BY DEF LocksInv, ThreadTypes
    <3> QED BY <3>1, <3>2, TableFacts
  <2>2. bucket' = [bucket EXCEPT ![t] = b] \/ bucket' = [bucket EXCEPT ![t] = numBuckets + 1]
    BY <1>6 DEF FindBucket
  <2>3. UNCHANGED <<pending, didFind>>
    BY <1>6 DEF FindBucket
  <2> HIDE DEF b
  <2> QED BY <1>0, <2>1, <2>2, <2>3 DEF QueueTypes
<1>7. CASE ParkEnqueue(t)
  BY <1>0, <1>7 DEF ParkEnqueue, QueueTypes, NoBucket
<1>8. CASE ParkInvalid(t) \/ ParkWakeUp(t) \/ ParkClear(t)
  BY <1>1, <1>8 DEF ParkInvalid, ParkWakeUp, ParkClear
<1>9. CASE ParkDequeueSelf(t)
  <2>1. Contains(queues[bucket[t]], t) \in BOOLEAN
    BY DEF Contains
  <2>2. /\ didFind' = [didFind EXCEPT ![t] = Contains(queues[bucket[t]], t)]
        /\ UNCHANGED <<bucket, pending>>
    BY <1>9 DEF ParkDequeueSelf
  <2> QED BY <1>0, <2>1, <2>2 DEF QueueTypes
<1>10. CASE UnparkOneDequeue(t) \/ UnparkAllDequeue(t)
  <2> DEFINE q == queues[bucket[t]]
             A == OnAddress(arg[t])
             s == Those(q, A)
  <2>1. q \in Seq(Threads)
    <3>1. pc[t] = "enter"
      BY <1>10 DEF UnparkOneDequeue, UnparkAllDequeue, Enter, BucketFree
    <3>2. bucket[t] \in 1..numBuckets
      BY <3>1 DEF HasWork
    <3>3. numBuckets \in 0..MaxBuckets
      BY DEF TablesInv, TablesOf
    <3>4. bucket[t] \in BucketIds
      BY <3>2, <3>3, ConstantsAssumption DEF BucketIds
    <3> QED BY <3>4 DEF LocksInv, ThreadTypes
  <2>2. s \in Seq(Threads) /\ (s # <<>> => <<Head(s)>> \in Seq(Threads))
    <3> HIDE DEF q, A
    <3>1. s \in Seq(Threads)
      BY <2>1, ThoseElements
    <3> HIDE DEF s
    <3> QED BY <3>1
  <2>3. CASE UnparkOneDequeue(t)
    <3>1. IF s = <<>> THEN Unpark(t, <<>>, q) ELSE Unpark(t, <<Head(s)>>, RemoveFirst(q, Head(s)))
      BY <2>3 DEF UnparkOneDequeue
    <3>2. <<>> \in Seq(Threads)
      OBVIOUS
    <3> HIDE DEF q, A, s
    <3> QED BY <1>0, <2>2, <3>1, <3>2, UnparkQueueTypes
  <2>4. CASE UnparkAllDequeue(t)
    <3>1. Unpark(t, s, Those(q, Threads \ A))
      BY <2>4 DEF UnparkAllDequeue
    <3> HIDE DEF q, A, s
    <3> QED BY <1>0, <2>2, <3>1, UnparkQueueTypes
  <2> QED BY <1>10, <2>3, <2>4
<1>11. CASE UnparkWake(t)
  <2>1. pending[t] # <<>> /\ pending[t] \in Seq(Threads)
    BY <1>0, <1>11 DEF UnparkWake, HasWork, QueueTypes
  <2>2. Tail(pending[t]) \in Seq(Threads)
    BY <2>1
  <2>3. pending' = [pending EXCEPT ![t] = Tail(pending[t])]
    BY <1>11 DEF UnparkWake
  <2>4. \/ UNCHANGED <<bucket, didFind>>
        \/ bucket' = [bucket EXCEPT ![t] = NoBucket] /\ didFind' = [didFind EXCEPT ![t] = FALSE]
    BY <1>11 DEF UnparkWake, Return
  <2>5. bucket' \in [Threads -> Nat] /\ didFind' \in [Threads -> BOOLEAN]
    BY <1>0, <2>4, ReturnQueueTypes
  <2>6. pending' \in [Threads -> Seq(Threads)]
    BY <1>0, <2>2, <2>3 DEF QueueTypes
  <2> QED BY <2>5, <2>6 DEF QueueTypes
<1> QED
  BY <1>2, <1>3, <1>4, <1>5, <1>6, <1>7, <1>8, <1>9, <1>10, <1>11 DEF Step

LEMMA NotQueued ==
  ASSUME QueueInv, NEW t \in Threads, address[t] = NoAddress \/ ~(pc[t] = "parked" \/ TimingOut(t))
  PROVE  \A b \in BucketIds : t \notin ToSet(queues[b])
<1>1. \A b \in BucketIds : t \in ToSet(queues[b]) => QueuedHere(t, b)
  BY DEF QueueInv
<1> QED
  BY <1>1, ConstantsAssumption DEF QueuedHere

LEMMA NoAddressOutside ==
  ASSUME QueueInv, NEW t \in Threads, pc[t] \notin {"parked", "clear", "find", "enter"}
  PROVE  address[t] = NoAddress
BY DEF QueueInv, Addressed, TimingOut

\* t is, and stays, outside of parkConditionally() or returns from it.
Outside(t) ==
  /\ address[t] = NoAddress /\ pc[t] \notin {"clear", "wake"}
  /\ pc'[t] \notin {"find", "enter", "parked", "clear", "wake"} /\ op'[t] # "dequeueSelf"
  /\ op'[t] \in {"none", "grow", "forEach", op[t]}
  /\ didFind'[t] = FALSE \/ didFind'[t] = didFind[t]
  /\ UNCHANGED <<queues, address, pending>>

LEMMA OutsideQuiet ==
  ASSUME TablesInv, TablesInv', Grown(tables, tables'), numBuckets <= numBuckets', SlotsStay,
         LocksInv, QueueInv, NEW t \in Threads, OthersSame(t), QueueTypes', Outside(t)
  PROVE  QueueInv'
<1>1. InOperation(t) /\ pc[t] # "clear" /\ UNCHANGED <<queues, address, pending>>
  BY DEF QueueInv, Outside
<1>2. InOperation(t)'
  BY <1>1 DEF InOperation, Outside
<1>3. Addressed(t)' /\ Verdict(t)'
  BY DEF Outside, Addressed, Verdict
<1>4. \A b \in BucketIds : t \notin ToSet(queues[b])
  BY NotQueued DEF Outside
<1> QED
  BY <1>1, <1>2, <1>3, <1>4, QueuesQuiet

LEMMA OutsideActions ==
  ASSUME TablesInv, LocksInv, QueueInv, NEW t \in Threads,
         \/ ThreadDataCreate(t) \/ ThreadDataDestroy(t) \/ ForEachCall(t) \/ EnsureSizeFast(t)
         \/ ForEachWalk(t) \/ LockHashtableFind(t) \/ LockHashtableLock(t) \/ LockHashtableDone(t)
         \/ ParkInvalid(t) \/ ParkWakeUp(t)
         \/ EnsureSizeSlow(t) /\ LargeEnough(Size(tables[hashtable]), count[t])
         \/ FindNoBucket(t) /\ op[t] # "dequeueSelf"
  PROVE  Outside(t)
<1>0. /\ pc \in [Threads -> PCs] /\ op \in [Threads -> Ops]
      /\ didFind \in [Threads -> BOOLEAN]
  BY DEF LocksInv, ThreadTypes, QueueTypes, QueueInv
<1>1. InOperation(t) /\ Addressed(t)
  BY DEF QueueInv
<1>2. ASSUME Return(t) PROVE pc'[t] = "ready" /\ op'[t] = "none" /\ didFind'[t] = FALSE
  BY <1>0, <1>2 DEF Return
<1>3. CASE ThreadDataCreate(t)
  BY <1>0, <1>1, <1>3 DEF ThreadDataCreate, Goto, Outside, Addressed, TimingOut
<1>4. CASE ThreadDataDestroy(t)
  BY <1>0, <1>1, <1>4 DEF ThreadDataDestroy, Goto, locals, Outside, Addressed, TimingOut, InOperation
<1>5. CASE ForEachCall(t)
  BY <1>0, <1>1, <1>5 DEF ForEachCall, Goto, lots, Outside, Addressed, TimingOut
<1>6. CASE EnsureSizeFast(t)
  <2>1. pc[t] = "ensureSize" /\ UNCHANGED <<queues, address, pending>>
    BY <1>6 DEF EnsureSizeFast, lots, locals
  <2>2. address[t] = NoAddress /\ op[t] # "dequeueSelf"
    BY <1>1, <2>1 DEF Addressed, TimingOut, InOperation
  <2>3. \/ pc'[t] = "ready" /\ op'[t] = "none" /\ didFind'[t] = FALSE
        \/ pc'[t] = "lockTable" /\ op'[t] = op[t] /\ didFind'[t] = didFind[t]
    BY <1>0, <1>2, <1>6 DEF EnsureSizeFast, Goto, locals
  <2> QED BY <2>1, <2>2, <2>3 DEF Outside
<1>7. CASE ForEachWalk(t) \/ (EnsureSizeSlow(t) /\ LargeEnough(Size(tables[hashtable]), count[t]))
  <2>1. pc[t] = "owning" /\ UNCHANGED <<queues, address, pending>> /\ Return(t)
    BY <1>7 DEF ForEachWalk, EnsureSizeSlow
  <2> QED BY <1>1, <1>2, <2>1 DEF Outside, Addressed, TimingOut
<1>8. CASE LockHashtableFind(t) \/ LockHashtableLock(t) \/ LockHashtableDone(t)
  <2>1. /\ pc[t] \in {"lockTable", "locking"} /\ UNCHANGED <<queues, address, pending, op, didFind>>
    BY <1>8 DEF LockHashtableFind, LockHashtableLock, LockHashtableDone, WantsBucket
  <2>2. pc'[t] \in {"lockTable", "locking", "owning"}
    BY <1>0, <1>8, <2>1 DEF LockHashtableFind, LockHashtableLock, LockHashtableDone, Goto
  <2>3. address[t] = NoAddress /\ op[t] # "dequeueSelf"
    BY <1>1, <2>1 DEF Addressed, TimingOut, InOperation
  <2> QED BY <2>1, <2>2, <2>3 DEF Outside
<1>9. CASE ParkInvalid(t) \/ ParkWakeUp(t) \/ (FindNoBucket(t) /\ op[t] # "dequeueSelf")
  <2>1. UNCHANGED <<queues, address, pending>> /\ Return(t)
    BY <1>9 DEF ParkInvalid, ParkWakeUp, FindNoBucket, lots
  <2>2. /\ pc[t] \in {"enter", "parked", "find"} /\ (pc[t] = "parked" => address[t] = NoAddress)
        /\ op[t] = "dequeueSelf" => pc[t] = "parked"
    BY <1>9 DEF ParkInvalid, ParkWakeUp, FindNoBucket, Enter, BucketFree
  <2>3. address[t] = NoAddress
    BY <1>1, <2>2 DEF Addressed, TimingOut
  <2> QED BY <1>2, <2>1, <2>2, <2>3 DEF Outside
<1> QED
  BY <1>3, <1>4, <1>5, <1>6, <1>7, <1>8, <1>9

\* The steps that leave the queues alone.
LEMMA QueuesQuietNext ==
  ASSUME TablesInv, LocksInv, QueueInv, NEW t \in Threads, TablesInv', Grown(tables, tables'),
         numBuckets <= numBuckets', SlotsStay, OthersSame(t), QueueTypes',
         \/ Call(t) \/ ParkTimeOut(t) \/ EnsureSizeFast(t) \/ ForEachWalk(t)
         \/ LockHashtableFind(t) \/ LockHashtableLock(t) \/ LockHashtableDone(t)
         \/ FindBucket(t) \/ FindNoBucket(t) \/ EnterStale(t)
         \/ ParkInvalid(t) \/ ParkWakeUp(t)
         \/ EnsureSizeSlow(t) /\ LargeEnough(Size(tables[hashtable]), count[t])
  PROVE  QueueInv'
<1>0. /\ pc \in [Threads -> PCs] /\ op \in [Threads -> Ops] /\ mine \in [Threads -> Nat]
      /\ arg \in [Threads -> Addresses \cup {NoAddress}] /\ bucket \in [Threads -> Nat]
      /\ pending \in [Threads -> Seq(Threads)] /\ didFind \in [Threads -> BOOLEAN]
  BY DEF LocksInv, ThreadTypes, QueueTypes, QueueInv
<1>1. InOperation(t) /\ Addressed(t) /\ Unstranded(t)
  BY DEF QueueInv
<1>2. CASE Outside(t)
  BY <1>2, OutsideQuiet
<1>3. CASE ParkTimeOut(t)
  <2>1. /\ pc[t] = "parked" /\ address[t] # NoAddress /\ UNCHANGED <<queues, address, pending, arg, didFind>>
        /\ pc'[t] = "find" /\ op'[t] = "dequeueSelf"
    BY <1>0, <1>3 DEF ParkTimeOut, Goto, lots
  <2>2. InOperation(t)'
    BY <1>1, <2>1 DEF InOperation
  <2>3. Addressed(t)' /\ Verdict(t)'
    BY <1>1, <2>1 DEF Addressed, Verdict, TimingOut
  <2> QED BY <2>1, <2>2, <2>3, QueuesQuiet
<1>4. CASE EnterStale(t)
  <2>1. /\ pc[t] = "enter" /\ UNCHANGED <<queues, address, pending, arg, didFind, op>>
        /\ pc'[t] = "find"
    BY <1>0, <1>4 DEF EnterStale, BucketFree, Goto, lots, locals
  <2>2. InOperation(t)'
    BY <1>1, <2>1 DEF InOperation
  <2>3. Addressed(t)' /\ Verdict(t)'
    BY <1>1, <2>1 DEF Addressed, Verdict, TimingOut
  <2>4. op'[t] = "dequeueSelf" \/ \A b \in BucketIds : t \notin ToSet(queues[b])
    BY <2>1, NotQueued DEF TimingOut
  <2> QED BY <2>1, <2>2, <2>3, <2>4, QueuesQuiet
<1>5. CASE FindBucket(t)
  <2>1. /\ pc[t] = "find" /\ UNCHANGED <<queues, address, pending, arg, didFind, op>>
        /\ pc'[t] = "enter"
    BY <1>0, <1>5 DEF FindBucket, Goto
  <2>2. InOperation(t)'
    <3>1. /\ tables' # <<>> /\ mine'[t] = hashtable' /\ bucket'[t] = Slot(tables'[hashtable'], arg[t])
          /\ Slot(tables'[hashtable'], arg[t]) \in 1..numBuckets'
      BY <1>0, <1>5, FindBucketTables
    <3>2. hashtable' \in 1..Len(tables')
      BY <3>1, CurrentTable DEF TablesInv
    <3>3. bucket'[t] = Slot(tables'[mine'[t]], arg'[t]) /\ bucket'[t] \in 1..numBuckets' /\ mine'[t] \in 1..Len(tables')
      BY <2>1, <3>1, <3>2
    <3> QED BY <1>1, <2>1, <3>3 DEF InOperation
  <2>3. Addressed(t)' /\ Verdict(t)'
    BY <1>1, <2>1 DEF Addressed, Verdict, TimingOut
  <2>4. op'[t] = "dequeueSelf" \/ \A b \in BucketIds : t \notin ToSet(queues[b])
    BY <2>1, NotQueued DEF TimingOut
  <2> QED BY <2>1, <2>2, <2>3, <2>4, QueuesQuiet
<1>6. CASE FindNoBucket(t) /\ op[t] = "dequeueSelf"
  <2>1. /\ pc[t] = "find" /\ UNCHANGED <<queues, address, pending, arg, didFind, op>>
        /\ pc'[t] = "clear"
    BY <1>0, <1>6 DEF FindNoBucket, Goto, locals
  <2>2. InOperation(t)'
    BY <1>1, <1>6, <2>1 DEF InOperation
  <2>3. ASSUME tables # <<>> PROVE Slot(tables[hashtable], arg[t]) = NoBucket
    BY <1>6, <2>3, EnsuredTables DEF FindNoBucket
  <2>4. address[t] # NoAddress => arg[t] = address[t]
    BY <1>1, <2>1 DEF Addressed
  <2>5. NoBucket \notin BucketIds
    BY DEF NoBucket, BucketIds
  <2>6. address[t] = NoAddress \/ t \in Woken
    BY <1>1, <2>1, <2>3, <2>4, <2>5 DEF Unstranded
  <2>7. Addressed(t)' /\ Verdict(t)'
    <3>1. Woken' = Woken /\ didFind[t] = FALSE
      BY <1>1, <2>1 DEF Woken, InOperation
    <3> QED BY <2>1, <2>6, <3>1 DEF Addressed, Verdict
  <2>8. ASSUME NEW b \in BucketIds, t \in ToSet(queues[b]) PROVE FALSE
    <3>1. QueuedHere(t, b)
      BY <2>8 DEF QueueInv
    <3>2. address[t] # NoAddress
      BY <3>1, ConstantsAssumption DEF QueuedHere
    <3> QED BY <2>3, <2>4, <2>5, <3>1, <3>2 DEF QueuedHere
  <2> QED BY <2>1, <2>2, <2>7, <2>8, QueuesQuiet
<1>7. ASSUME NEW a \in Addresses, NEW o \in {"park", "unparkOne", "unparkOneCallback", "unparkAll"}, Begin(t, o, a)
      PROVE  QueueInv'
  <2>1. /\ pc[t] = "ready" /\ UNCHANGED <<queues, address, pending, didFind>>
        /\ pc'[t] = "find" /\ op'[t] = o /\ arg'[t] = a
    BY <1>0, <1>7 DEF Begin, Goto, lots
  <2>2. address[t] = NoAddress
    BY <2>1, NoAddressOutside
  <2>3. InOperation(t)'
    BY <1>1, <2>1 DEF InOperation
  <2>4. Addressed(t)' /\ Verdict(t)'
    BY <2>1, <2>2 DEF Addressed, Verdict
  <2>5. \A b \in BucketIds : t \notin ToSet(queues[b])
    BY <2>2, NotQueued
  <2> QED BY <2>1, <2>3, <2>4, <2>5, QueuesQuiet
<1>8. CASE Call(t)
  <2>1. ThreadDataCreate(t) \/ ThreadDataDestroy(t) \/ ForEachCall(t) => QueueInv'
    BY <1>2, OutsideActions
  <2> QED BY <1>7, <1>8, <2>1 DEF Call, ParkCall, UnparkOneCall, UnparkOneCallbackCall, UnparkAllCall, UnparkCall
<1> QED
  BY <1>2, <1>3, <1>4, <1>5, <1>6, <1>8, OutsideActions

LEMMA EnterFacts ==
  ASSUME TablesInv, LocksInv, QueueInv, NEW t \in Threads, Enter(t)
  PROVE  /\ pc[t] = "enter" /\ arg[t] \in Addresses /\ pending[t] = <<>> /\ tables # <<>>
         /\ bucket[t] \in BucketIds /\ bucket[t] = Slot(tables[hashtable], arg[t])
         /\ queues[bucket[t]] \in Seq(Threads) /\ Once(queues[bucket[t]])
<1>1. pc[t] = "enter" /\ mine[t] = hashtable /\ InOperation(t)
  BY DEF Enter, BucketFree, QueueInv
<1>2. /\ arg[t] \in Addresses /\ mine[t] \in 1..Len(tables) /\ bucket[t] \in 1..numBuckets
      /\ pending[t] = <<>> /\ bucket[t] = Slot(tables[hashtable], arg[t])
  BY <1>1 DEF InOperation
<1>3. numBuckets \in 0..MaxBuckets /\ tables \in Seq(Tables)
  BY DEF TablesInv, TablesOf
<1>4. bucket[t] \in BucketIds
  BY <1>2, <1>3, ConstantsAssumption DEF BucketIds
<1>5. queues[bucket[t]] \in Seq(Threads) /\ Once(queues[bucket[t]])
  BY <1>4 DEF LocksInv, ThreadTypes, QueueInv
<1>6. tables # <<>>
  BY <1>2, <1>3
<1> QED
  BY <1>1, <1>2, <1>4, <1>5, <1>6

LEMMA QueuedFacts ==
  ASSUME LocksInv, QueueInv, NEW b \in BucketIds, NEW u \in ToSet(queues[b])
  PROVE  /\ u \in Threads /\ QueuedHere(u, b) /\ address[u] # NoAddress
         /\ pc[u] \notin {"clear", "wake"} /\ (pc[u] = "enter" => op[u] = "dequeueSelf")
<1>1. queues[b] \in Seq(Threads) /\ QueuedHere(u, b)
  BY DEF LocksInv, ThreadTypes, QueueInv
<1>2. u \in Threads
  BY <1>1, ToSetContains
<1>3. address[u] # NoAddress
  BY <1>1, ConstantsAssumption DEF QueuedHere
<1> QED
  BY <1>1, <1>2, <1>3 DEF QueuedHere, TimingOut

LEMMA QueuesDisjoint ==
  ASSUME LocksInv, QueueInv, NEW b \in BucketIds, NEW c \in BucketIds, NEW u \in ToSet(queues[b]), u \in ToSet(queues[c])
  PROVE  b = c
<1>1. QueuedHere(u, b) /\ QueuedHere(u, c)
  BY DEF QueueInv
<1> QED
  BY <1>1 DEF QueuedHere

\* A step that leaves the tables alone.
LEMMA QueuesMoved ==
  ASSUME TablesInv, LocksInv, QueueInv, NEW t \in Threads, OthersSame(t), QueueTypes',
         UNCHANGED <<tables, hashtable, numBuckets>>, InOperation(t)',
         \A u \in Threads : Addressed(u)' /\ Verdict(u)' /\ Unstranded(u)',
         \A b \in BucketIds : Once(queues'[b]) /\ \A u \in ToSet(queues'[b]) : QueuedHere(u, b)'
  PROVE  QueueInv'
<1>1. TablesInv' /\ Grown(tables, tables') /\ numBuckets <= numBuckets'
  <2>1. tables \in Seq(Tables) /\ numBuckets \in Nat
    BY DEF TablesInv, TablesOf
  <2>2. TablesInv'
    BY DEF TablesInv
  <2> QED BY <2>1, <2>2, GrownSame
<1>2. ASSUME NEW u \in Threads, u # t PROVE InOperation(u)'
  <2>1. /\ pc'[u] = pc[u] /\ op'[u] = op[u] /\ arg'[u] = arg[u] /\ mine'[u] = mine[u]
        /\ bucket'[u] = bucket[u] /\ didFind'[u] = didFind[u] /\ pending'[u] = pending[u]
    BY <1>2 DEF OthersSame
  <2>2. InOperation(u) /\ arg \in [Threads -> Addresses \cup {NoAddress}]
    BY DEF QueueInv, LocksInv, ThreadTypes
  <2> QED BY <1>1, <2>1, <2>2, InOperationFrame
<1>3. \A u \in Threads : InOperation(u)'
  BY <1>2
<1> QED
  BY <1>3 DEF QueueInv

LEMMA ParkEnqueueQueues ==
  ASSUME TablesInv, LocksInv, QueueInv, ParksAwake, NEW t \in Threads, OthersSame(t), QueueTypes', ParkEnqueue(t)
  PROVE  QueueInv'
<1> DEFINE b0 == bucket[t]
           q == queues[b0]
           a == arg[t]
<1>0. /\ pc \in [Threads -> PCs] /\ op \in [Threads -> Ops] /\ queues \in [BucketIds -> Seq(Threads)]
      /\ address \in [Threads -> Addresses \cup {NoAddress}] /\ pending \in [Threads -> Seq(Threads)]
  BY DEF LocksInv, ThreadTypes, QueueTypes, QueueInv
<1>1. Enter(t) /\ op[t] = "park"
  BY DEF ParkEnqueue
<1>2. /\ pc[t] = "enter" /\ a \in Addresses /\ tables # <<>> /\ b0 \in BucketIds
      /\ b0 = Slot(tables[hashtable], a) /\ q \in Seq(Threads) /\ Once(q)
  BY <1>1, EnterFacts
<1>3. /\ UNCHANGED <<tables, hashtable, numBuckets, op, arg, pending, didFind>> /\ pc'[t] = "parked"
      /\ address' = [address EXCEPT ![t] = a] /\ queues' = [queues EXCEPT ![b0] = Append(q, t)]
  BY <1>0 DEF ParkEnqueue, Goto
<1>4. t \notin Woken /\ Woken' = Woken
  <2>1. ~BeingWoken(t)
    BY <1>1, <1>2 DEF ParksAwake
  <2> QED BY <1>0, <1>3, <2>1, WokenContains DEF BeingWoken, Woken
<1>5. \A b \in BucketIds : t \notin ToSet(queues[b])
  BY <1>1, <1>2, NotQueued DEF TimingOut
<1>6. /\ ToSet(queues'[b0]) = ToSet(q) \cup {t} /\ Once(queues'[b0])
      /\ \A b \in BucketIds : b # b0 => queues'[b] = queues[b]
  <2>1. ToSet(Append(q, t)) = ToSet(q) \cup {t} /\ Once(Append(q, t))
    BY <1>2, <1>5, AppendElements
  <2>2. queues'[b0] = Append(q, t) /\ \A b \in BucketIds : b # b0 => queues'[b] = queues[b]
    BY <1>0, <1>2, <1>3
  <2> QED BY <2>1, <2>2
<1>7. address'[t] = a /\ \A u \in Threads : u # t => address'[u] = address[u]
  BY <1>0, <1>3
<1> HIDE DEF b0, q, a
<1>8. InOperation(t)'
  <2>1. InOperation(t)
    BY DEF QueueInv
  <2> QED BY <1>1, <1>2, <1>3, <2>1 DEF InOperation
<1>9. ASSUME NEW u \in Threads PROVE Addressed(u)' /\ Verdict(u)' /\ Unstranded(u)'
  <2>1. CASE u = t
    <3>1. Addressed(t)' /\ Verdict(t)'
      BY <1>3, <1>7 DEF Addressed, Verdict, a
    <3>2. Unstranded(t)'
      BY <1>2, <1>3, <1>6, <1>7 DEF Unstranded
    <3> QED BY <2>1, <3>1, <3>2
  <2>2. CASE u # t
    <3>1. Addressed(u) /\ Verdict(u) /\ Unstranded(u)
      BY DEF QueueInv
    <3>2. Addressed(u)' /\ Verdict(u)'
      BY <1>4, <1>7, <2>2, <3>1 DEF Addressed, Verdict, OthersSame, TimingOut
    <3>3. \A b \in BucketIds : ToSet(queues[b]) \subseteq ToSet(queues'[b])
      BY <1>6 DEF q
    <3>4. Unstranded(u)'
      BY <1>3, <1>4, <1>7, <2>2, <3>1, <3>3 DEF Unstranded, OthersSame
    <3> QED BY <3>2, <3>4
  <2> QED BY <2>1, <2>2
<1>10. ASSUME NEW b \in BucketIds PROVE Once(queues'[b]) /\ \A u \in ToSet(queues'[b]) : QueuedHere(u, b)'
  <2>1. Once(queues'[b])
    BY <1>6 DEF QueueInv
  <2>2. ASSUME NEW u \in ToSet(queues'[b]) PROVE QueuedHere(u, b)'
    <3>1. CASE u = t
      <4>1. b = b0
        BY <1>5, <1>6, <2>2, <3>1
      <4> QED BY <1>2, <1>3, <1>4, <1>7, <3>1, <4>1 DEF QueuedHere
    <3>2. CASE u # t
      <4>1. u \in ToSet(queues[b])
        BY <1>6, <2>2, <3>2 DEF q
      <4>2. QueuedHere(u, b) /\ u \in Threads
        BY <4>1, QueuedFacts
      <4> QED BY <1>3, <1>4, <1>7, <3>2, <4>2 DEF QueuedHere, TimingOut, OthersSame
    <3> QED BY <3>1, <3>2
  <2> QED BY <2>1, <2>2
<1> QED
  BY <1>3, <1>8, <1>9, <1>10, QueuesMoved

LEMMA ParkClearQueues ==
  ASSUME TablesInv, LocksInv, QueueInv, NEW t \in Threads, OthersSame(t), QueueTypes', ParkClear(t)
  PROVE  QueueInv'
<1>0. /\ pc \in [Threads -> PCs] /\ op \in [Threads -> Ops] /\ didFind \in [Threads -> BOOLEAN]
      /\ address \in [Threads -> Addresses \cup {NoAddress}]
  BY DEF LocksInv, ThreadTypes, QueueTypes, QueueInv
<1>1. /\ UNCHANGED <<tables, hashtable, numBuckets, queues, pending>> /\ pc[t] = "clear"
      /\ address' = [address EXCEPT ![t] = NoAddress]
  BY DEF ParkClear
<1>2. pc'[t] = "ready" /\ op'[t] = "none" /\ didFind'[t] = FALSE
  BY <1>0 DEF ParkClear, Return
<1>3. Woken' = Woken
  BY <1>1 DEF Woken
<1>4. address'[t] = NoAddress /\ \A u \in Threads : u # t => address'[u] = address[u]
  BY <1>0, <1>1
<1>5. InOperation(t)'
  <2>1. InOperation(t)
    BY DEF QueueInv
  <2> QED BY <1>1, <1>2, <2>1 DEF InOperation
<1>6. ASSUME NEW u \in Threads PROVE Addressed(u)' /\ Verdict(u)' /\ Unstranded(u)'
  <2>1. CASE u = t
    BY <1>2, <1>4, <2>1 DEF Addressed, Verdict, Unstranded
  <2>2. CASE u # t
    <3>1. Addressed(u) /\ Verdict(u) /\ Unstranded(u)
      BY DEF QueueInv
    <3>2. Addressed(u)' /\ Verdict(u)'
      BY <1>3, <1>4, <2>2, <3>1 DEF Addressed, Verdict, OthersSame, TimingOut
    <3>3. Unstranded(u)'
      BY <1>1, <1>3, <1>4, <2>2, <3>1 DEF Unstranded, OthersSame
    <3> QED BY <3>2, <3>3
  <2> QED BY <2>1, <2>2
<1>7. ASSUME NEW b \in BucketIds PROVE Once(queues'[b]) /\ \A u \in ToSet(queues'[b]) : QueuedHere(u, b)'
  <2>1. Once(queues'[b])
    BY <1>1 DEF QueueInv
  <2>2. ASSUME NEW u \in ToSet(queues'[b]) PROVE QueuedHere(u, b)'
    <3>1. u \in ToSet(queues[b])
      BY <1>1, <2>2
    <3>2. QueuedHere(u, b) /\ u \in Threads /\ u # t
      BY <1>1, <3>1, QueuedFacts
    <3> QED BY <1>1, <1>3, <1>4, <3>2 DEF QueuedHere, TimingOut, OthersSame
  <2> QED BY <2>1, <2>2
<1> QED
  BY <1>1, <1>5, <1>6, <1>7, QueuesMoved

\* The threads of W leave the queue of bucket b0, for rest.
Leave(b0, W, rest) ==
  /\ b0 \in BucketIds /\ W \subseteq ToSet(queues[b0])
  /\ rest \in Seq(Threads) /\ Once(rest) /\ ToSet(rest) = ToSet(queues[b0]) \ W
  /\ queues' = [queues EXCEPT ![b0] = rest]

LEMMA LeaveFacts ==
  ASSUME LocksInv, QueueInv, NEW b0, NEW W, NEW rest, Leave(b0, W, rest)
  PROVE  \A b \in BucketIds : Once(queues'[b]) /\ ToSet(queues'[b]) = ToSet(queues[b]) \ W
<1>0. queues \in [BucketIds -> Seq(Threads)] /\ b0 \in BucketIds
  BY DEF LocksInv, ThreadTypes, Leave
<1>1. ASSUME NEW b \in BucketIds PROVE Once(queues'[b]) /\ ToSet(queues'[b]) = ToSet(queues[b]) \ W
  <2>1. CASE b = b0
    <3>1. queues'[b] = rest
      BY <1>0, <2>1 DEF Leave
    <3> QED BY <2>1, <3>1 DEF Leave
  <2>2. CASE b # b0
    <3>1. queues'[b] = queues[b] /\ Once(queues[b])
      BY <1>0, <2>2 DEF Leave, QueueInv
    <3>2. ToSet(queues[b]) \cap ToSet(queues[b0]) = {}
      BY <1>0, <2>2, QueuesDisjoint
    <3> QED BY <3>1, <3>2 DEF Leave
  <2> QED BY <2>1, <2>2
<1> QED
  BY <1>1

LEMMA ParkDequeueSelfQueues ==
  ASSUME TablesInv, LocksInv, QueueInv, NEW t \in Threads, OthersSame(t), QueueTypes', ParkDequeueSelf(t)
  PROVE  QueueInv'
<1> DEFINE b0 == bucket[t]
           q == queues[b0]
           rest == RemoveFirst(q, t)
           W == ToSet(q) \cap {t}
<1>0. /\ pc \in [Threads -> PCs] /\ didFind \in [Threads -> BOOLEAN]
      /\ address \in [Threads -> Addresses \cup {NoAddress}]
  BY DEF LocksInv, ThreadTypes, QueueTypes, QueueInv
<1>1. Enter(t) /\ op[t] = "dequeueSelf"
  BY DEF ParkDequeueSelf
<1>2. /\ pc[t] = "enter" /\ tables # <<>> /\ b0 \in BucketIds /\ pending[t] = <<>>
      /\ b0 = Slot(tables[hashtable], arg[t]) /\ q \in Seq(Threads) /\ Once(q)
  BY <1>1, EnterFacts
<1>3. /\ UNCHANGED <<tables, hashtable, numBuckets, op, arg, pending, address>> /\ pc'[t] = "clear"
      /\ didFind' = [didFind EXCEPT ![t] = Contains(q, t)] /\ queues' = [queues EXCEPT ![b0] = rest]
  BY <1>0 DEF ParkDequeueSelf, Goto
<1>4. /\ t \in ToSet(q) => didFind'[t] = TRUE
      /\ t \notin ToSet(q) => didFind'[t] = FALSE
  <2>1. didFind'[t] = Contains(q, t)
    BY <1>0, <1>3
  <2>2. Contains(q, t) \in BOOLEAN /\ (Contains(q, t) <=> t \in ToSet(q))
    BY <1>2, ToSetContains DEF Contains
  <2> HIDE DEF q
  <2> QED BY <2>1, <2>2, Zenon
<1>5. Leave(b0, W, rest)
  <2>1. rest = Those(q, Threads \ {t})
    <3> HIDE DEF q
    <3> QED BY <1>2, RemoveFirstThose
  <2>2. /\ Those(q, Threads \ {t}) \in Seq(Threads) /\ Once(Those(q, Threads \ {t}))
        /\ ToSet(Those(q, Threads \ {t})) = ToSet(q) \cap (Threads \ {t}) /\ ToSet(q) \subseteq Threads
    <3> HIDE DEF q
    <3> QED BY <1>2, ThoseElements, ToSetContains
  <2>3. ToSet(rest) = ToSet(q) \ W /\ rest \in Seq(Threads) /\ Once(rest)
    <3> HIDE DEF q, rest
    <3> QED BY <2>1, <2>2
  <2> QED BY <1>2, <1>3, <2>3 DEF Leave
<1> HIDE DEF b0, q, W, rest
<1>6. \A b \in BucketIds : Once(queues'[b]) /\ ToSet(queues'[b]) = ToSet(queues[b]) \ W
  BY <1>5, LeaveFacts
<1>7. Woken' = Woken
  BY <1>3 DEF Woken
<1>8. InOperation(t)'
  <2>1. InOperation(t)
    BY DEF QueueInv
  <2> QED BY <1>1, <1>2, <1>3, <2>1 DEF InOperation
<1>9. Addressed(t) /\ Unstranded(t)
  BY DEF QueueInv
<1>10. Verdict(t)'
  <2>1. ASSUME didFind'[t] = TRUE PROVE t \notin Woken
    <3>1. t \in ToSet(queues[b0])
      BY <1>4, <2>1 DEF q
    <3> QED BY <1>2, <3>1, QueuedFacts DEF QueuedHere
  <2>2. ASSUME didFind'[t] = FALSE PROVE t \in Woken \/ address[t] = NoAddress
    <3>1. t \notin ToSet(queues[b0])
      BY <1>4, <2>2 DEF q
    <3>2. address[t] # NoAddress => arg[t] = address[t]
      BY <1>2, <1>9 DEF Addressed
    <3> QED BY <1>2, <1>9, <3>1, <3>2 DEF Unstranded
  <2> QED BY <1>3, <1>7, <2>1, <2>2 DEF Verdict
<1>11. ASSUME NEW u \in Threads PROVE Addressed(u)' /\ Verdict(u)' /\ Unstranded(u)'
  <2>1. CASE u = t
    <3>1. Addressed(t)' /\ Unstranded(t)'
      BY <1>3 DEF Addressed, Unstranded
    <3> QED BY <1>10, <2>1, <3>1
  <2>2. CASE u # t
    <3>1. Addressed(u) /\ Verdict(u) /\ Unstranded(u)
      BY DEF QueueInv
    <3>2. Addressed(u)' /\ Verdict(u)'
      BY <1>3, <1>7, <2>2, <3>1 DEF Addressed, Verdict, OthersSame, TimingOut
    <3>3. \A b \in BucketIds : u \in ToSet(queues[b]) => u \in ToSet(queues'[b])
      BY <1>6, <2>2 DEF W
    <3>4. Unstranded(u)'
      BY <1>3, <1>7, <2>2, <3>1, <3>3 DEF Unstranded, OthersSame
    <3> QED BY <3>2, <3>4
  <2> QED BY <2>1, <2>2
<1>12. ASSUME NEW b \in BucketIds, NEW u \in ToSet(queues'[b]) PROVE QueuedHere(u, b)'
  <2>1. u \in ToSet(queues[b]) /\ u \notin W
    BY <1>6, <1>12
  <2>2. QueuedHere(u, b) /\ u \in Threads
    BY <2>1, QueuedFacts
  <2>3. u # t
    <3>1. ASSUME u = t PROVE FALSE
      <4>1. arg[t] = address[t]
        BY <1>2, <1>9, <2>1, <3>1, QueuedFacts DEF Addressed
      <4>2. b = b0
        BY <1>2, <2>2, <3>1, <4>1 DEF QueuedHere
      <4> QED BY <2>1, <3>1, <4>2 DEF W, q
    <3> QED BY <3>1
  <2> QED BY <1>3, <1>7, <2>2, <2>3 DEF QueuedHere, TimingOut, OthersSame
<1> QED
  BY <1>3, <1>6, <1>8, <1>11, <1>12, QueuesMoved

WokenBy(p, S) == UNION {ToSet(p[u]) : u \in S}

LEMMA WokenAfter ==
  ASSUME NEW t \in Threads, NEW p, NEW r, \A u \in Threads \ {t} : r[u] = p[u]
  PROVE  WokenBy(r, Threads) = WokenBy(p, Threads \ {t}) \cup ToSet(r[t])
<1>1. ASSUME NEW x
      PROVE  x \in WokenBy(r, Threads) <=> x \in WokenBy(p, Threads \ {t}) \/ x \in ToSet(r[t])
  <2>1. x \in WokenBy(r, Threads) <=> \E u \in Threads : x \in ToSet(r[u])
    BY DEF WokenBy
  <2>2. x \in WokenBy(p, Threads \ {t}) <=> \E u \in Threads \ {t} : x \in ToSet(p[u])
    BY DEF WokenBy
  <2> QED BY <2>1, <2>2
<1> QED
  BY <1>1

LEMMA UnparkQueues ==
  ASSUME TablesInv, LocksInv, QueueInv, NEW t \in Threads, OthersSame(t), QueueTypes', Enter(t),
         op[t] \in {"unparkOne", "unparkOneCallback", "unparkAll"},
         NEW woken \in Seq(Threads), NEW rest, Unpark(t, woken, rest), Leave(bucket[t], ToSet(woken), rest)
  PROVE  QueueInv'
<1> DEFINE W == ToSet(woken)
<1>0. /\ pc \in [Threads -> PCs] /\ op \in [Threads -> Ops] /\ didFind \in [Threads -> BOOLEAN]
      /\ pending \in [Threads -> Seq(Threads)]
  BY DEF LocksInv, ThreadTypes, QueueTypes, QueueInv
<1>1. pc[t] = "enter" /\ pending[t] = <<>> /\ bucket[t] \in BucketIds
  BY EnterFacts
<1>2. UNCHANGED <<tables, hashtable, numBuckets, address>> /\ pending' = [pending EXCEPT ![t] = woken]
  BY DEF Unpark
<1>3. IF woken = <<>> THEN pc'[t] = "ready" /\ op'[t] = "none" /\ didFind'[t] = FALSE
      ELSE pc'[t] = "wake" /\ op'[t] = op[t] /\ didFind'[t] = didFind[t]
  BY <1>0 DEF Unpark, Return, Goto
<1>4. Woken' = Woken \cup W
  <2>1. Woken' = WokenBy(pending', Threads) /\ Woken = WokenBy(pending, Threads)
    BY DEF Woken, WokenBy
  <2>2. pending'[t] = woken /\ \A u \in Threads \ {t} : pending'[u] = pending[u]
    BY <1>0, <1>2
  <2>3. WokenBy(pending', Threads) = WokenBy(pending, Threads \ {t}) \cup ToSet(pending'[t])
    BY <2>2, WokenAfter
  <2>4. WokenBy(pending, Threads) = WokenBy(pending, Threads \ {t}) \cup ToSet(pending[t])
    BY WokenAfter
  <2>5. ToSet(pending[t]) = {} /\ ToSet(pending'[t]) = W
    BY <1>1, <2>2, EmptyElements
  <2> HIDE DEF W
  <2> QED BY <2>1, <2>3, <2>4, <2>5
<1>5. /\ \A b \in BucketIds : Once(queues'[b]) /\ ToSet(queues'[b]) = ToSet(queues[b]) \ W
      /\ W \subseteq ToSet(queues[bucket[t]])
  BY LeaveFacts DEF Leave
<1>6. InOperation(t)'
  <2>1. InOperation(t) /\ pending'[t] = woken
    BY <1>0, <1>2 DEF QueueInv
  <2>2. didFind[t] = FALSE
    BY <1>1, <2>1 DEF InOperation
  <2>3. CASE woken = <<>>
    BY <1>3, <2>1, <2>3 DEF InOperation
  <2>4. CASE woken # <<>>
    BY <1>3, <2>1, <2>2, <2>4 DEF InOperation
  <2> QED BY <2>3, <2>4
<1> HIDE DEF W
<1>7. address[t] = NoAddress
  BY <1>1 DEF QueueInv, Addressed, TimingOut
<1>8. pc'[t] \in {"ready", "wake"}
  BY <1>3
<1>9. ASSUME NEW u \in Threads PROVE Addressed(u)' /\ Verdict(u)' /\ Unstranded(u)'
  <2>1. CASE u = t
    BY <1>2, <1>7, <1>8, <2>1 DEF Addressed, Verdict, Unstranded
  <2>2. CASE u # t
    <3>1. Addressed(u) /\ Verdict(u) /\ Unstranded(u)
      BY DEF QueueInv
    <3>2. Addressed(u)'
      BY <1>2, <2>2, <3>1 DEF Addressed, OthersSame, TimingOut
    <3>3. pc[u] = "clear" => u \notin W
      BY <1>1, <1>5, QueuedFacts
    <3>4. Verdict(u)'
      BY <1>2, <1>4, <2>2, <3>1, <3>3 DEF Verdict, OthersSame
    <3>5. \A b \in BucketIds : u \in ToSet(queues[b]) /\ u \notin W => u \in ToSet(queues'[b])
      BY <1>5
    <3>6. Unstranded(u)'
      BY <1>2, <1>4, <2>2, <3>1, <3>5 DEF Unstranded, OthersSame
    <3> QED BY <3>2, <3>4, <3>6
  <2> QED BY <2>1, <2>2
<1>10. ASSUME NEW b \in BucketIds, NEW u \in ToSet(queues'[b]) PROVE QueuedHere(u, b)'
  <2>1. u \in ToSet(queues[b]) /\ u \notin W
    BY <1>5, <1>10
  <2>2. QueuedHere(u, b) /\ u \in Threads /\ u # t
    BY <1>7, <2>1, QueuedFacts
  <2> QED BY <1>2, <1>4, <2>1, <2>2 DEF QueuedHere, TimingOut, OthersSame
<1> QED
  BY <1>2, <1>5, <1>6, <1>9, <1>10, QueuesMoved

LEMMA UnparkDequeueFacts ==
  ASSUME TablesInv, LocksInv, QueueInv, NEW t \in Threads, UnparkOneDequeue(t) \/ UnparkAllDequeue(t)
  PROVE  /\ Enter(t) /\ op[t] \in {"unparkOne", "unparkOneCallback", "unparkAll"}
         /\ \E woken \in Seq(Threads) : \E rest :
              Unpark(t, woken, rest) /\ Leave(bucket[t], ToSet(woken), rest) /\ Once(woken)
<1> DEFINE b0 == bucket[t]
           q == queues[b0]
           A == OnAddress(arg[t])
           s == Those(q, A)
<1>1. Enter(t) /\ op[t] \in {"unparkOne", "unparkOneCallback", "unparkAll"}
  BY DEF UnparkOneDequeue, UnparkAllDequeue
<1>2. b0 \in BucketIds /\ q \in Seq(Threads) /\ Once(q)
  BY <1>1, EnterFacts
<1>3. s \in Seq(Threads) /\ ToSet(s) = ToSet(q) \cap A /\ ToSet(q) \subseteq Threads /\ Once(s)
  <2> HIDE DEF q, A
  <2> QED BY <1>2, ThoseElements, ToSetContains
<1>4. ASSUME NEW woken, NEW rest, Unpark(t, woken, rest) PROVE queues' = [queues EXCEPT ![b0] = rest]
  BY <1>4 DEF Unpark
<1>5. CASE UnparkOneDequeue(t)
  <2>1. IF s = <<>> THEN Unpark(t, <<>>, q) ELSE Unpark(t, <<Head(s)>>, RemoveFirst(q, Head(s)))
    BY <1>5 DEF UnparkOneDequeue
  <2>2. CASE s = <<>>
    <3> DEFINE woken == <<>>
    <3>1. Unpark(t, woken, q) /\ woken \in Seq(Threads) /\ ToSet(woken) = {} /\ Once(woken)
      BY <2>1, <2>2, EmptyElements
    <3> HIDE DEF woken
    <3>2. Leave(b0, ToSet(woken), q)
      BY <1>2, <1>4, <3>1 DEF Leave
    <3> HIDE DEF q, s, A
    <3> QED BY <1>1, <3>1, <3>2 DEF b0
  <2>3. CASE s # <<>>
    <3> DEFINE h == Head(s)
               woken == <<h>>
               rest == RemoveFirst(q, h)
    <3>1. Unpark(t, woken, rest)
      BY <2>1, <2>3
    <3>2. h \in ToSet(s) /\ h \in Threads
      <4> HIDE DEF s
      <4> QED BY <1>3, <2>3, TailElements
    <3>3. woken \in Seq(Threads) /\ ToSet(woken) = {h} /\ Once(woken)
      <4> HIDE DEF h
      <4>1. woken \in Seq(Threads) /\ DOMAIN woken = {1} /\ woken[1] = h
        BY <3>2
      <4> QED BY <4>1 DEF ToSet, Once
    <3>4. rest = Those(q, Threads \ {h})
      <4> HIDE DEF h, q
      <4> QED BY <1>2, RemoveFirstThose
    <3> HIDE DEF h, rest
    <3>5. rest \in Seq(Threads) /\ Once(rest) /\ ToSet(rest) = ToSet(q) \ {h}
      <4>1. /\ Those(q, Threads \ {h}) \in Seq(Threads) /\ Once(Those(q, Threads \ {h}))
            /\ ToSet(Those(q, Threads \ {h})) = ToSet(q) \cap (Threads \ {h})
        <5> HIDE DEF q
        <5> QED BY <1>2, ThoseElements
      <4> HIDE DEF q
      <4> QED BY <1>3, <3>4, <4>1
    <3> HIDE DEF woken
    <3>6. Leave(b0, ToSet(woken), rest)
      <4>1. {h} \subseteq ToSet(q)
        BY <1>3, <3>2
      <4> QED BY <1>2, <1>4, <3>1, <3>3, <3>5, <4>1 DEF Leave
    <3> HIDE DEF q, s, A
    <3> QED BY <1>1, <3>1, <3>3, <3>6 DEF b0
  <2> QED BY <2>2, <2>3
<1>6. CASE UnparkAllDequeue(t)
  <2> DEFINE rest == Those(q, Threads \ A)
  <2>1. Unpark(t, s, rest)
    BY <1>6 DEF UnparkAllDequeue
  <2>2. rest \in Seq(Threads) /\ Once(rest) /\ ToSet(rest) = ToSet(q) \cap (Threads \ A)
    <3> HIDE DEF q, A
    <3> QED BY <1>2, ThoseElements
  <2> HIDE DEF rest, s, A
  <2>3. Leave(b0, ToSet(s), rest)
    <3>1. ToSet(rest) = ToSet(q) \ ToSet(s) /\ ToSet(s) \subseteq ToSet(q)
      <4> HIDE DEF q
      <4> QED BY <1>3, <2>2
    <3> QED BY <1>2, <1>4, <2>1, <2>2, <3>1 DEF Leave
  <2> HIDE DEF q
  <2> QED BY <1>1, <1>3, <2>1, <2>3 DEF b0
<1> QED
  BY <1>5, <1>6

LEMMA UnparkDequeueQueues ==
  ASSUME TablesInv, LocksInv, QueueInv, NEW t \in Threads, OthersSame(t), QueueTypes',
         UnparkOneDequeue(t) \/ UnparkAllDequeue(t)
  PROVE  QueueInv'
<1>1. Enter(t) /\ op[t] \in {"unparkOne", "unparkOneCallback", "unparkAll"}
  BY UnparkDequeueFacts
<1>2. PICK woken \in Seq(Threads) : \E rest :
        Unpark(t, woken, rest) /\ Leave(bucket[t], ToSet(woken), rest) /\ Once(woken)
  BY UnparkDequeueFacts
<1>3. PICK rest : Unpark(t, woken, rest) /\ Leave(bucket[t], ToSet(woken), rest)
  BY <1>2
<1> QED
  BY <1>1, <1>3, UnparkQueues

LEMMA UnparkWakeQueues ==
  ASSUME TablesInv, LocksInv, QueueInv, NEW t \in Threads, OthersSame(t), QueueTypes', UnparkWake(t)
  PROVE  QueueInv'
<1> DEFINE p == pending[t]
           h == Head(p)
<1>0. /\ pc \in [Threads -> PCs] /\ op \in [Threads -> Ops] /\ didFind \in [Threads -> BOOLEAN]
      /\ pending \in [Threads -> Seq(Threads)] /\ address \in [Threads -> Addresses \cup {NoAddress}]
  BY DEF LocksInv, ThreadTypes, QueueTypes, QueueInv
<1>1. pc[t] = "wake" /\ InOperation(t) /\ p # <<>> /\ p \in Seq(Threads)
  BY <1>0 DEF UnparkWake, QueueInv, InOperation
<1>2. /\ UNCHANGED <<tables, hashtable, numBuckets, queues>> /\ pending' = [pending EXCEPT ![t] = Tail(p)]
      /\ address' = [address EXCEPT ![h] = NoAddress]
  BY DEF UnparkWake
<1>3. IF Len(p) = 1 THEN pc'[t] = "ready" /\ op'[t] = "none" /\ didFind'[t] = FALSE
      ELSE pc'[t] = "wake" /\ op'[t] = op[t] /\ didFind'[t] = didFind[t]
  BY <1>0, <1>1 DEF UnparkWake, Return
<1>4. pending'[t] = Tail(p) /\ \A u \in Threads \ {t} : pending'[u] = pending[u]
  BY <1>0, <1>2
<1>5. h \in Threads /\ ToSet(p) = ToSet(Tail(p)) \cup {h}
  <2> HIDE DEF p
  <2> QED BY <1>1, TailElements
<1>6. Woken = Woken' \cup {h}
  <2>1. Woken' = WokenBy(pending', Threads) /\ Woken = WokenBy(pending, Threads)
    BY DEF Woken, WokenBy
  <2>2. WokenBy(pending', Threads) = WokenBy(pending, Threads \ {t}) \cup ToSet(pending'[t])
    BY <1>4, WokenAfter
  <2>3. WokenBy(pending, Threads) = WokenBy(pending, Threads \ {t}) \cup ToSet(pending[t])
    BY WokenAfter
  <2>4. ToSet(pending[t]) = ToSet(pending'[t]) \cup {h}
    BY <1>4, <1>5
  <2> HIDE DEF h
  <2> QED BY <2>1, <2>2, <2>3, <2>4
<1>7. InOperation(t)'
  <2>1. Len(p) = 1 <=> Tail(p) = <<>>
    <3> HIDE DEF p
    <3>1. Tail(p) \in Seq(Threads) /\ Len(Tail(p)) = Len(p) - 1 /\ Len(p) \in Nat /\ Len(p) # 0
      BY <1>1
    <3> DEFINE x == Tail(p)
    <3>2. x \in Seq(Threads)
      BY <3>1
    <3> HIDE DEF x
    <3>3. x = <<>> <=> Len(x) = 0
      BY <3>2
    <3> QED BY <3>1, <3>3 DEF x
  <2>2. didFind[t] = FALSE /\ op[t] # "dequeueSelf"
    BY <1>1 DEF InOperation
  <2>3. CASE Len(p) = 1
    BY <1>3, <1>4, <2>1, <2>3 DEF InOperation
  <2>4. CASE Len(p) # 1
    BY <1>3, <1>4, <2>1, <2>2, <2>4 DEF InOperation
  <2> QED BY <2>3, <2>4
<1>8. address'[h] = NoAddress /\ \A u \in Threads : u # h => address'[u] = address[u]
  BY <1>0, <1>2, <1>5
<1> HIDE DEF h, p
<1>9. address[t] = NoAddress /\ pc'[t] \in {"ready", "wake"}
  BY <1>1, <1>3 DEF QueueInv, Addressed, TimingOut
<1>10. ASSUME NEW u \in Threads PROVE Addressed(u)' /\ Verdict(u)' /\ Unstranded(u)'
  <2>1. CASE address'[u] = NoAddress
    <3>1. Addressed(u) /\ Verdict(u)
      BY DEF QueueInv
    <3>2. Addressed(u)' /\ Unstranded(u)'
      BY <2>1 DEF Addressed, Unstranded
    <3>3. CASE u = t
      BY <1>9, <3>2, <3>3 DEF Verdict
    <3>4. CASE u # t
      BY <1>6, <2>1, <3>1, <3>2, <3>4 DEF Verdict, OthersSame
    <3> QED BY <3>3, <3>4
  <2>2. CASE address'[u] # NoAddress
    <3>1. Addressed(u) /\ Verdict(u) /\ Unstranded(u)
      BY DEF QueueInv
    <3>2. u # h /\ u # t /\ address'[u] = address[u]
      BY <1>8, <1>9, <2>2
    <3>3. Addressed(u)'
      BY <3>1, <3>2 DEF Addressed, OthersSame, TimingOut
    <3>4. u \in Woken' <=> u \in Woken
      BY <1>6, <3>2
    <3>5. Verdict(u)'
      BY <3>1, <3>2, <3>4 DEF Verdict, OthersSame
    <3>6. Unstranded(u)'
      BY <1>2, <3>1, <3>2, <3>4 DEF Unstranded, OthersSame
    <3> QED BY <3>3, <3>5, <3>6
  <2> QED BY <2>1, <2>2
<1>11. ASSUME NEW b \in BucketIds PROVE Once(queues'[b]) /\ \A u \in ToSet(queues'[b]) : QueuedHere(u, b)'
  <2>1. Once(queues'[b])
    BY <1>2 DEF QueueInv
  <2>2. ASSUME NEW u \in ToSet(queues'[b]) PROVE QueuedHere(u, b)'
    <3>1. u \in ToSet(queues[b])
      BY <1>2, <2>2
    <3>2. QueuedHere(u, b) /\ u \in Threads /\ u # t
      BY <1>1, <3>1, QueuedFacts
    <3>3. u # h /\ u \notin Woken'
      BY <1>6, <3>2 DEF QueuedHere
    <3> QED BY <1>2, <1>8, <3>2, <3>3 DEF QueuedHere, TimingOut, OthersSame
  <2> QED BY <2>1, <2>2
<1> QED
  BY <1>2, <1>7, <1>10, <1>11, QueuesMoved

\* Rehashing: the gathered threads are the ones on a queue, and each moves to the
\* bucket that its address has in the new table.
LEMMA RehashFacts ==
  ASSUME TablesInv, LocksInv, QueueInv, NEW t \in Threads, EnsureSizeSlow(t),
         ~LargeEnough(Size(tables[hashtable]), count[t]), NEW G, G = GatheredThreads(tables[hashtable])
  PROVE  /\ tables # <<>> /\ tables' # <<>> /\ TablesInv' /\ Grown(tables, tables') /\ numBuckets <= numBuckets'
         /\ G \in Seq(Threads) /\ Once(G)
         /\ \A u : u \in ToSet(G) <=> \E b \in BucketIds : u \in ToSet(queues[b])
         /\ \A u \in ToSet(G) : Slot(tables'[hashtable'], address[u]) \in BucketIds
         /\ \A b \in BucketIds :
              queues'[b] = Those(G, {u \in ToSet(G) : Slot(tables'[hashtable'], address[u]) = b})
         /\ BucketsOf(tables[hashtable]) \subseteq BucketIds
<1> DEFINE f == tables[hashtable]
           n == Size(f)
           new == Rehashed(f, NewSize(count[t])).slots
<1>0. /\ queues \in [BucketIds -> Seq(Threads)] /\ ThreadTypes /\ LocksInOrder /\ OwnsTable
      /\ address \in [Threads -> Addresses \cup {NoAddress}] /\ tables \in Seq(Tables)
  BY DEF LocksInv, ThreadTypes, TablesInv, TablesOf
<1>1. tables' = Append(tables, new) /\ hashtable' = Len(tables') /\ queues' = RehashedQueues(f, new)
  BY DEF EnsureSizeSlow
<1>2. tables'[hashtable'] = new /\ tables' # tables
  BY <1>0, <1>1
<1>3. /\ TablesInv' /\ Grown(tables, tables') /\ tables # <<>> /\ tables' # <<>>
      /\ numBuckets <= numBuckets' /\ IsFull(f)
      /\ \A u \in ToSet(G) : Slot(tables'[hashtable'], address[u]) # NoBucket
  BY <1>0, <1>2, EnsureSizeSlowTables
<1>4. /\ f \in Tables /\ n \in Nat /\ f \in [0..(n - 1) -> Nat] /\ HasBuckets(f, n, numBuckets) /\ numBuckets \in 0..MaxBuckets
  BY <1>3, CurrentTable DEF TablesInv
<1>5. BucketsOf(f) = 1..numBuckets /\ BucketsOf(f) \subseteq BucketIds
  <2>1. NoBucket \notin BucketsOf(f)
    BY <1>3 DEF IsFull, BucketsOf
  <2>2. BucketsOf(f) \ {NoBucket} = 1..numBuckets
    BY <1>4 DEF HasBuckets
  <2>3. 1..numBuckets \subseteq BucketIds
    BY <1>4, ConstantsAssumption DEF BucketIds
  <2> HIDE DEF f
  <2> QED BY <2>1, <2>2, <2>3
<1>6. \A b \in BucketIds : Once(queues[b])
  BY DEF QueueInv
<1>7. \A b, c \in BucketIds : b # c => ToSet(queues[b]) \cap ToSet(queues[c]) = {}
  BY QueuesDisjoint
<1>8. ASSUME NEW b \in BucketIds, NEW u \in ToSet(queues[b]) PROVE b \in BucketsOf(f)
  <2>1. address[u] \in Addresses /\ b = Slot(f, address[u])
    BY <1>8, QueuedFacts DEF QueuedHere
  <2> HIDE DEF f
  <2> QED BY <1>4, <2>1, TableFacts
<1>9. /\ G \in Seq(Threads) /\ Once(G)
      /\ ToSet(G) = UNION {ToSet(queues[b]) : b \in BucketsOf(f)}
  <2> HIDE DEF f, n
  <2> QED BY <1>0, <1>4, <1>5, <1>6, <1>7, GatheredElements DEF f
<1>10. ASSUME NEW u PROVE u \in ToSet(G) <=> \E b \in BucketIds : u \in ToSet(queues[b])
  <2>1. u \in ToSet(G) <=> \E b \in BucketsOf(f) : u \in ToSet(queues[b])
    <3> HIDE DEF f
    <3> QED BY <1>9
  <2> HIDE DEF f
  <2> QED BY <1>5, <1>8, <2>1
<1>11. ASSUME NEW u \in ToSet(G) PROVE Slot(tables'[hashtable'], address[u]) \in BucketIds
  <2> DEFINE s == Slot(tables'[hashtable'], address[u])
  <2>1. u \in Threads
    BY <1>9, ToSetContains
  <2>2. address[u] \in Addresses \cup {NoAddress}
    BY <1>0, <2>1
  <2>3. /\ tables'[hashtable'] \in Tables /\ numBuckets' \in 0..MaxBuckets
        /\ BucketsOf(tables'[hashtable']) \ {NoBucket} = 1..numBuckets'
    BY <1>3, CurrentTable DEF TablesInv, HasBuckets
  <2>4. s \in BucketsOf(tables'[hashtable']) /\ s # NoBucket
    BY <1>3, <2>2, <2>3, TableFacts
  <2> HIDE DEF s
  <2>5. s \in 1..numBuckets'
    BY <2>3, <2>4
  <2>6. s \in BucketIds
    BY <2>3, <2>5, ConstantsAssumption DEF BucketIds
  <2> QED BY <2>6 DEF s
<1>12. ASSUME NEW b \in BucketIds
       PROVE  queues'[b] = Those(G, {u \in ToSet(G) : Slot(tables'[hashtable'], address[u]) = b})
  <2> DEFINE e == IF b \in BucketsOf(f) THEN <<>> ELSE queues[b]
             r == Those(G, {u \in ToSet(G) : Slot(new, address[u]) = b})
  <2>1. queues'[b] = e \o r
    BY <1>1 DEF RehashedQueues
  <2>2. r \in Seq(Threads)
    <3> HIDE DEF new
    <3> QED BY <1>9, ThoseElements
  <2>3. e = <<>>
    <3>1. b \notin BucketsOf(f) => ToSet(queues[b]) = {}
      BY <1>8
    <3>2. queues[b] \in Seq(Threads)
      BY <1>0
    <3> HIDE DEF f
    <3> QED BY <3>1, <3>2, EmptyElements
  <2> HIDE DEF e, r
  <2>4. queues'[b] = r
    BY <2>1, <2>2, <2>3
  <2> QED BY <1>2, <2>4 DEF r
<1> QED
  BY <1>3, <1>5, <1>9, <1>10, <1>11, <1>12

LEMMA RehashQueues ==
  ASSUME TablesInv, LocksInv, QueueInv, NEW t \in Threads, OthersSame(t), QueueTypes', EnsureSizeSlow(t),
         ~LargeEnough(Size(tables[hashtable]), count[t])
  PROVE  QueueInv'
<1> DEFINE G == GatheredThreads(tables[hashtable])
           S(b) == {u \in ToSet(G) : Slot(tables'[hashtable'], address[u]) = b}
<1>1. /\ tables' # <<>> /\ TablesInv' /\ Grown(tables, tables') /\ numBuckets <= numBuckets'
      /\ G \in Seq(Threads) /\ Once(G)
      /\ \A u : u \in ToSet(G) <=> \E b \in BucketIds : u \in ToSet(queues[b])
      /\ \A u \in ToSet(G) : Slot(tables'[hashtable'], address[u]) \in BucketIds
      /\ \A b \in BucketIds : queues'[b] = Those(G, S(b))
  BY RehashFacts
<1> HIDE DEF G
<1>2. \A b \in BucketIds : Once(queues'[b]) /\ ToSet(queues'[b]) = S(b)
  <2>1. \A b \in BucketIds : Once(Those(G, S(b))) /\ ToSet(Those(G, S(b))) = ToSet(G) \cap S(b)
    BY <1>1, ThoseElements
  <2> QED BY <1>1, <2>1
<1>3. /\ pc[t] = "owning" /\ UNCHANGED <<address, pending>> /\ Woken' = Woken
      /\ pc'[t] = "ready" /\ op'[t] = "none" /\ didFind'[t] = FALSE
  <2>1. /\ pc \in [Threads -> PCs] /\ op \in [Threads -> Ops] /\ didFind \in [Threads -> BOOLEAN]
    BY DEF LocksInv, ThreadTypes, QueueTypes, QueueInv
  <2> QED BY <2>1 DEF EnsureSizeSlow, Return, Woken
<1>4. address[t] = NoAddress
  BY <1>3, NoAddressOutside
<1>5. ASSUME NEW u \in Threads PROVE InOperation(u)' /\ Addressed(u)' /\ Verdict(u)' /\ Unstranded(u)'
  <2>0. InOperation(u) /\ Addressed(u) /\ Verdict(u) /\ Unstranded(u)
    BY DEF QueueInv
  <2>1. CASE u = t
    <3>1. InOperation(t)'
      BY <1>3, <2>0, <2>1 DEF InOperation
    <3> QED BY <1>3, <1>4, <2>1, <3>1 DEF Addressed, Verdict, Unstranded
  <2>2. CASE u # t
    <3>1. /\ pc'[u] = pc[u] /\ op'[u] = op[u] /\ arg'[u] = arg[u] /\ mine'[u] = mine[u]
          /\ bucket'[u] = bucket[u] /\ didFind'[u] = didFind[u] /\ pending'[u] = pending[u]
      BY <2>2 DEF OthersSame
    <3>2. arg \in [Threads -> Addresses \cup {NoAddress}]
      BY DEF LocksInv, ThreadTypes
    <3>3. InOperation(u)'
      BY <1>1, <2>0, <3>1, <3>2, InOperationFrame
    <3>4. Addressed(u)' /\ Verdict(u)'
      BY <1>3, <2>0, <3>1 DEF Addressed, Verdict, TimingOut
    <3>5. ASSUME address[u] # NoAddress, pc[u] # "clear", u \notin Woken
          PROVE  /\ Slot(tables'[hashtable'], address[u]) \in BucketIds
                 /\ u \in ToSet(queues'[Slot(tables'[hashtable'], address[u])])
      <4>1. u \in ToSet(G)
        BY <1>1, <2>0, <3>5 DEF Unstranded
      <4> QED BY <1>1, <1>2, <4>1
    <3>6. Unstranded(u)'
      BY <1>1, <1>3, <3>1, <3>5 DEF Unstranded
    <3> QED BY <3>3, <3>4, <3>6
  <2> QED BY <2>1, <2>2
<1>6. ASSUME NEW b \in BucketIds, NEW u \in ToSet(queues'[b]) PROVE QueuedHere(u, b)'
  <2>1. u \in ToSet(G) /\ Slot(tables'[hashtable'], address[u]) = b
    BY <1>2
  <2>2. PICK c \in BucketIds : u \in ToSet(queues[c])
    BY <1>1, <2>1
  <2>3. QueuedHere(u, c) /\ u \in Threads /\ u # t
    BY <1>4, <2>2, QueuedFacts
  <2> QED BY <1>1, <1>3, <2>1, <2>3 DEF QueuedHere, TimingOut, OthersSame
<1> QED
  BY <1>2, <1>5, <1>6 DEF QueueInv

LEMMA QueueInvNext ==
  ASSUME TablesInv, LocksInv, QueueInv, ParksAwake, [Next]_vars
  PROVE  QueueInv'
<1>1. ASSUME NEW t \in Threads, Call(t) \/ Step(t) \/ ParkTimeOut(t) PROVE QueueInv'
  <2>0. QueueTypes /\ HasWork(t)
    BY DEF QueueInv, InOperation, HasWork
  <2>1. OthersSame(t) /\ QueueTypes'
    BY <1>1, <2>0, OthersSameNext, QueueTypesNext
  <2>2. TablesInv' /\ Grown(tables, tables') /\ numBuckets <= numBuckets'
    BY <1>1, TablesNext
  <2>3. CASE ParkEnqueue(t)
    BY <2>1, <2>3, ParkEnqueueQueues
  <2>4. CASE ParkDequeueSelf(t)
    BY <2>1, <2>4, ParkDequeueSelfQueues
  <2>5. CASE ParkClear(t)
    BY <2>1, <2>5, ParkClearQueues
  <2>6. CASE UnparkOneDequeue(t) \/ UnparkAllDequeue(t)
    BY <2>1, <2>6, UnparkDequeueQueues
  <2>7. CASE UnparkWake(t)
    BY <2>1, <2>7, UnparkWakeQueues
  <2>8. CASE EnsureSizeSlow(t)
    <3>1. CASE LargeEnough(Size(tables[hashtable]), count[t])
      <4>1. UNCHANGED <<tables, hashtable>>
        BY <2>8, <3>1 DEF EnsureSizeSlow
      <4>2. SlotsStay
        BY <4>1 DEF SlotsStay
      <4> QED BY <2>1, <2>2, <2>8, <3>1, <4>2, QueuesQuietNext
    <3>2. CASE ~LargeEnough(Size(tables[hashtable]), count[t])
      BY <2>1, <2>8, <3>2, RehashQueues
    <3> QED BY <3>1, <3>2
  <2>9. CASE ~EnsureSizeSlow(t)
    <3>1. SlotsStay
      BY <1>1, <2>9, SlotsStayNext
    <3> QED BY <1>1, <2>1, <2>2, <2>3, <2>4, <2>5, <2>6, <2>7, <2>9, <3>1, QueuesQuietNext DEF Step
  <2> QED BY <2>8, <2>9
<1>2. CASE UNCHANGED vars
  <2>1. /\ UNCHANGED <<tables, hashtable, numBuckets, queues, address, pc, op, arg>>
        /\ UNCHANGED <<mine, bucket, pending, didFind>>
    BY <1>2 DEF vars, lots, locals
  <2>2. QueueTypes'
    BY <2>1 DEF QueueInv, QueueTypes
  <2>3. Woken' = Woken
    BY <2>1 DEF Woken
  <2>4. \A t \in Threads : InOperation(t)' /\ Addressed(t)' /\ Verdict(t)' /\ Unstranded(t)'
    BY <2>1, <2>3 DEF QueueInv, InOperation, Addressed, Verdict, Unstranded, TimingOut
  <2>5. \A b \in BucketIds : Once(queues'[b]) /\ \A u \in ToSet(queues'[b]) : QueuedHere(u, b)'
    BY <2>1, <2>3 DEF QueueInv, QueuedHere, TimingOut
  <2> QED BY <2>2, <2>4, <2>5 DEF QueueInv
<1> QED
  BY <1>1, <1>2 DEF Next

LEMMA InitQueues ==
  ASSUME Init
  PROVE  QueueInv
<1>1. QueueTypes
  <2>1. bucket = [t \in Threads |-> 0] /\ pending = [t \in Threads |-> <<>>]
    BY DEF Init, NoBucket
  <2>2. bucket \in [Threads -> Nat] /\ pending \in [Threads -> Seq(Threads)]
    BY <2>1
  <2>3. didFind \in [Threads -> BOOLEAN]
    <3>1. didFind = [t \in Threads |-> FALSE] /\ FALSE \in BOOLEAN
      BY DEF Init
    <3> QED BY <3>1, Zenon
  <2> QED BY <2>2, <2>3 DEF QueueTypes
<1>2. ASSUME NEW t \in Threads PROVE InOperation(t) /\ Addressed(t) /\ Verdict(t) /\ Unstranded(t)
  <2>1. pc[t] = "none" /\ op[t] = "none" /\ address[t] = NoAddress /\ pending[t] = <<>> /\ didFind[t] = FALSE
    BY DEF Init
  <2> QED BY <2>1 DEF InOperation, Addressed, Verdict, Unstranded
<1>3. ASSUME NEW b \in BucketIds PROVE Once(queues[b]) /\ ToSet(queues[b]) = {}
  <2>1. queues[b] = <<>>
    BY DEF Init
  <2> QED BY <2>1, EmptyElements
<1> QED
  BY <1>1, <1>2, <1>3 DEF QueueInv

LEMMA QueueInvMeans ==
  ASSUME TablesInv, LocksInv, QueueInv
  PROVE  NoStrandedThread /\ QueuedOnlyWhileParked /\ TimeoutVerdict
<1>0. queues \in [BucketIds -> Seq(Threads)] /\ pending \in [Threads -> Seq(Threads)]
  BY DEF LocksInv, ThreadTypes, QueueInv, QueueTypes
<1>1. \A t : BeingWoken(t) <=> t \in Woken
  BY <1>0, WokenContains DEF BeingWoken, Woken
<1>2. NoStrandedThread
  <2> DEFINE b(t) == Slot(tables[hashtable], address[t])
  <2>1. SUFFICES ASSUME NEW t \in Threads, address[t] # NoAddress /\ pc[t] # "clear" /\ ~BeingWoken(t)
                 PROVE  b(t) # NoBucket /\ Contains(queues[b(t)], t)
    BY DEF NoStrandedThread
  <2>2. b(t) \in BucketIds /\ t \in ToSet(queues[b(t)])
    BY <1>1, <2>1 DEF QueueInv, Unstranded
  <2>3. queues[b(t)] \in Seq(Threads)
    BY <1>0, <2>2
  <2> HIDE DEF b
  <2>4. b(t) # NoBucket
    BY <2>2 DEF BucketIds, NoBucket
  <2> QED BY <2>2, <2>3, <2>4, ToSetContains
<1>3. QueuedOnlyWhileParked
  <2>1. ASSUME NEW t \in Queued PROVE pc[t] = "parked" \/ op[t] = "dequeueSelf"
    <3>1. PICK b \in BucketIds : t \in ToSet(queues[b])
      BY DEF Queued
    <3> QED BY <3>1, QueuedFacts DEF QueuedHere, TimingOut
  <2>2. ASSUME NEW b \in BucketIds, NEW c \in BucketIds, NEW i \in DOMAIN queues[b], NEW j \in DOMAIN queues[c],
               queues[b][i] = queues[c][j]
        PROVE  b = c /\ i = j
    <3>1. queues[b][i] \in ToSet(queues[b]) /\ queues[b][i] \in ToSet(queues[c])
      BY <2>2 DEF ToSet
    <3>2. b = c
      BY <3>1, QueuesDisjoint
    <3>3. Once(queues[b])
      BY DEF QueueInv
    <3> QED BY <2>2, <3>2, <3>3 DEF Once
  <2> QED BY <2>1, <2>2 DEF QueuedOnlyWhileParked
<1>4. TimeoutVerdict
  <2>1. ASSUME NEW t \in Threads, pc[t] = "clear"
        PROVE  IF didFind[t] THEN ~BeingWoken(t) ELSE BeingWoken(t) \/ address[t] = NoAddress
    <3>1. didFind[t] = TRUE \/ didFind[t] = FALSE
      BY DEF QueueInv, QueueTypes
    <3>2. /\ didFind[t] = TRUE => t \notin Woken
          /\ didFind[t] = FALSE => t \in Woken \/ address[t] = NoAddress
      BY <2>1 DEF QueueInv, Verdict
    <3>3. CASE didFind[t] = TRUE
      BY <1>1, <3>2, <3>3
    <3>4. CASE didFind[t] = FALSE
      BY <1>1, <3>2, <3>4
    <3> QED BY <3>1, <3>3, <3>4
  <2> QED BY <2>1 DEF TimeoutVerdict
<1> QED
  BY <1>2, <1>3, <1>4

-----------------------------------------------------------------------------
(***************************************************************************)
(* ParksAwake holds if no thread that parks with a timeout parks twice.    *)
(***************************************************************************)
LEMMA ParksKept ==
  ASSUME parks \in [Threads -> Nat], NEW t \in Threads, Call(t) \/ Step(t) \/ ParkTimeOut(t)
  PROVE  /\ parks' \in [Threads -> Nat] /\ \A u \in Threads : parks[u] # 0 => parks'[u] # 0
         /\ parks' = parks \/ \E a \in Addresses : ParkCall(t, a)
<1>1. ASSUME NEW a \in Addresses, ParkCall(t, a)
      PROVE  parks' \in [Threads -> Nat] /\ \A u \in Threads : parks[u] # 0 => parks'[u] # 0
  BY <1>1 DEF ParkCall
<1>2. parks' = parks \/ \E a \in Addresses : ParkCall(t, a)
  <2>1. CASE Call(t) \/ ParkTimeOut(t)
    BY <2>1 DEF Call, ThreadDataCreate, ThreadDataDestroy, ForEachCall, ParkTimeOut,
       UnparkOneCall, UnparkOneCallbackCall, UnparkAllCall, UnparkCall, locals
  <2>2. CASE EnsureSizeFast(t) \/ EnsureSizeSlow(t) \/ ForEachWalk(t)
    BY <2>2 DEF EnsureSizeFast, EnsureSizeSlow, ForEachWalk, locals
  <2>3. CASE LockHashtableFind(t) \/ LockHashtableLock(t) \/ LockHashtableDone(t) \/ EnterStale(t)
    BY <2>3 DEF LockHashtableFind, LockHashtableLock, LockHashtableDone, EnterStale, locals
  <2>4. CASE FindNoBucket(t) \/ FindBucket(t)
    BY <2>4 DEF FindNoBucket, FindBucket, locals
  <2>5. CASE ParkEnqueue(t) \/ ParkInvalid(t) \/ ParkWakeUp(t) \/ ParkClear(t) \/ ParkDequeueSelf(t)
    BY <2>5 DEF ParkEnqueue, ParkInvalid, ParkWakeUp, ParkClear, ParkDequeueSelf
  <2>6. CASE UnparkOneDequeue(t) \/ UnparkAllDequeue(t) \/ UnparkWake(t)
    BY <2>6 DEF UnparkOneDequeue, UnparkAllDequeue, Unpark, UnparkWake
  <2> QED BY <2>1, <2>2, <2>3, <2>4, <2>5, <2>6 DEF Step
<1> QED
  BY <1>1, <1>2

LEMMA AwakeQuiet ==
  ASSUME AwakeInv, NEW t \in Threads, OthersSame(t), parks' \in [Threads -> Nat],
         \A u \in Threads : parks[u] # 0 => parks'[u] # 0, pending' = pending,
         \A u \in Threads : u # t => address'[u] = address[u],
         Counted(t)', StaysAway(t)'
  PROVE  AwakeInv'
<1>1. Woken' = Woken
  BY DEF Woken
<1>2. ASSUME NEW u \in Threads, u # t PROVE Counted(u)' /\ StaysAway(u)'
  <2>1. Counted(u) /\ StaysAway(u)
    BY DEF AwakeInv
  <2>2. pc'[u] = pc[u] /\ op'[u] = op[u] /\ address'[u] = address[u] /\ (parks[u] # 0 => parks'[u] # 0)
    BY <1>2 DEF OthersSame
  <2>3. Counted(u)'
    BY <2>1, <2>2 DEF Counted
  <2>4. StaysAway(u)'
    BY <1>1, <2>1, <2>2 DEF StaysAway
  <2> QED BY <2>3, <2>4
<1>3. \A u \in Threads : Counted(u)' /\ StaysAway(u)'
  BY <1>2
<1> QED
  BY <1>3 DEF AwakeInv

LEMMA AwakeQuietNext ==
  ASSUME LocksInv, QueueInv, AwakeInv, NEW t \in Threads, OthersSame(t), TablesInv,
         parks' \in [Threads -> Nat], \A u \in Threads : parks[u] # 0 => parks'[u] # 0,
         \A u \in Timed : MaxParks[u] <= 1,
         \/ Call(t) \/ ParkTimeOut(t) \/ EnsureSizeFast(t) \/ ForEachWalk(t)
         \/ LockHashtableFind(t) \/ LockHashtableLock(t) \/ LockHashtableDone(t)
         \/ FindBucket(t) \/ FindNoBucket(t) \/ EnterStale(t)
         \/ ParkInvalid(t) \/ ParkWakeUp(t) \/ ParkEnqueue(t) \/ ParkDequeueSelf(t) \/ ParkClear(t)
         \/ EnsureSizeSlow(t)
  PROVE  AwakeInv'
<1>0. /\ pc \in [Threads -> PCs] /\ op \in [Threads -> Ops]
      /\ address \in [Threads -> Addresses \cup {NoAddress}]
      /\ pending \in [Threads -> Seq(Threads)] /\ parks \in [Threads -> Nat]
  BY DEF LocksInv, ThreadTypes, QueueTypes, QueueInv, AwakeInv
<1>1. InOperation(t) /\ Addressed(t) /\ Counted(t) /\ StaysAway(t)
  BY DEF QueueInv, AwakeInv
<1>2. ASSUME pending' = pending, \A u \in Threads : u # t => address'[u] = address[u],
             op'[t] = "dequeueSelf" => t \in Timed,
             op'[t] = "park" \/ address'[t] # NoAddress => parks'[t] # 0,
             ~(pc[t] = "parked" /\ address[t] # NoAddress) \/ (pc'[t] = "parked" /\ address'[t] # NoAddress) \/ t \in Timed,
             t \in Timed /\ t \in Woken => ~(op'[t] = "park" /\ pc'[t] \in {"find", "enter"})
      PROVE  AwakeInv'
  <2>1. Woken' = Woken
    BY <1>2 DEF Woken
  <2>2. Counted(t)'
    BY <1>2 DEF Counted
  <2>3. StaysAway(t)'
    BY <1>1, <1>2, <2>1 DEF StaysAway
  <2> QED BY <1>2, <2>2, <2>3, AwakeQuiet
<1>3. CASE Outside(t)
  BY <1>0, <1>1, <1>2, <1>3 DEF Outside, Counted
<1>4. CASE ParkTimeOut(t)
  <2>1. /\ pc[t] = "parked" /\ address[t] # NoAddress /\ t \in Timed /\ UNCHANGED <<address, pending, parks>>
        /\ pc'[t] = "find" /\ op'[t] = "dequeueSelf"
    BY <1>0, <1>4 DEF ParkTimeOut, Goto, lots
  <2> QED BY <1>1, <1>2, <2>1 DEF Counted
<1>5. CASE EnterStale(t) \/ FindBucket(t)
  <2>1. /\ pc[t] \in {"enter", "find"} /\ UNCHANGED <<address, pending, op, parks>>
        /\ pc'[t] \in {"enter", "find"}
    BY <1>0, <1>5 DEF EnterStale, FindBucket, BucketFree, Goto, lots, locals
  <2>2. t \in Timed /\ t \in Woken => ~(op'[t] = "park" /\ pc'[t] \in {"find", "enter"})
    BY <1>1, <2>1 DEF StaysAway
  <2> QED BY <1>1, <1>2, <2>1, <2>2 DEF Counted
<1>6. CASE FindNoBucket(t) /\ op[t] = "dequeueSelf"
  <2>1. /\ pc[t] = "find" /\ UNCHANGED <<address, pending, op, parks>> /\ pc'[t] = "clear"
    BY <1>0, <1>6 DEF FindNoBucket, Goto, locals
  <2> QED BY <1>1, <1>2, <2>1 DEF Counted
<1>7. CASE ParkDequeueSelf(t)
  <2>1. /\ pc[t] = "enter" /\ UNCHANGED <<address, pending, op, parks>> /\ pc'[t] = "clear"
    BY <1>0, <1>7 DEF ParkDequeueSelf, Enter, BucketFree, Goto
  <2> QED BY <1>1, <1>2, <2>1 DEF Counted
<1>8. CASE ParkClear(t)
  <2>1. /\ pc[t] = "clear" /\ UNCHANGED <<pending, parks>> /\ pc'[t] = "ready" /\ op'[t] = "none"
        /\ address'[t] = NoAddress /\ \A u \in Threads : u # t => address'[u] = address[u]
    BY <1>0, <1>8 DEF ParkClear, Return
  <2> QED BY <1>1, <1>2, <2>1
<1>9. CASE ParkEnqueue(t)
  <2>1. /\ pc[t] = "enter" /\ UNCHANGED <<pending, parks, op>> /\ pc'[t] = "parked" /\ op[t] = "park"
        /\ \A u \in Threads : u # t => address'[u] = address[u]
    BY <1>0, <1>9 DEF ParkEnqueue, Enter, BucketFree, Goto
  <2> QED BY <1>1, <1>2, <2>1 DEF Counted
<1>10. CASE EnsureSizeSlow(t)
  <2>1. pc[t] = "owning" /\ UNCHANGED <<address, pending, parks>> /\ pc'[t] = "ready" /\ op'[t] = "none"
    BY <1>0, <1>10 DEF EnsureSizeSlow, Return
  <2>2. address[t] = NoAddress
    BY <2>1, NoAddressOutside
  <2> QED BY <1>2, <2>1, <2>2
<1>11. ASSUME NEW a \in Addresses, NEW o \in {"park", "unparkOne", "unparkOneCallback", "unparkAll"}, Begin(t, o, a),
              o = "park" => parks'[t] # 0 /\ (t \in Timed => parks[t] = 0)
      PROVE  AwakeInv'
  <2>1. /\ pc[t] = "ready" /\ UNCHANGED <<address, pending>> /\ pc'[t] = "find" /\ op'[t] = o
    BY <1>0, <1>11 DEF Begin, Goto, lots
  <2>2. address[t] = NoAddress
    BY <2>1, NoAddressOutside
  <2>3. t \in Timed /\ t \in Woken => o # "park"
    BY <1>1, <1>11 DEF StaysAway
  <2> QED BY <1>2, <1>11, <2>1, <2>2, <2>3
<1>12. ASSUME NEW a \in Addresses, ParkCall(t, a) PROVE AwakeInv'
  <2>1. Begin(t, "park", a) /\ parks[t] < MaxParks[t] /\ parks' = [parks EXCEPT ![t] = @ + 1]
    BY <1>12 DEF ParkCall
  <2>2. parks'[t] # 0
    BY <1>0, <2>1
  <2>3. t \in Timed => parks[t] = 0
    <3>1. MaxParks[t] \in Nat
      BY ConstantsAssumption
    <3> QED BY <1>0, <2>1, <3>1
  <2> QED BY <1>11, <2>1, <2>2, <2>3
<1>13. ASSUME NEW a \in Addresses, NEW o \in {"unparkOne", "unparkOneCallback", "unparkAll"}, UnparkCall(t, o, a)
      PROVE  AwakeInv'
  BY <1>11, <1>13 DEF UnparkCall
<1>14. CASE Call(t)
  <2>1. ThreadDataCreate(t) \/ ThreadDataDestroy(t) \/ ForEachCall(t) => AwakeInv'
    BY <1>3, OutsideActions
  <2> QED BY <1>12, <1>13, <1>14, <2>1 DEF Call, UnparkOneCall, UnparkOneCallbackCall, UnparkAllCall
<1> QED
  BY <1>3, <1>4, <1>5, <1>6, <1>7, <1>8, <1>9, <1>10, <1>14, OutsideActions

LEMMA AwakeUnpark ==
  ASSUME TablesInv, LocksInv, QueueInv, AwakeInv, NEW t \in Threads, OthersSame(t),
         UnparkOneDequeue(t) \/ UnparkAllDequeue(t)
  PROVE  AwakeInv'
<1>0. /\ pc \in [Threads -> PCs] /\ op \in [Threads -> Ops]
      /\ pending \in [Threads -> Seq(Threads)] /\ parks \in [Threads -> Nat]
  BY DEF LocksInv, ThreadTypes, QueueTypes, QueueInv, AwakeInv
<1>1. Enter(t) /\ op[t] \in {"unparkOne", "unparkOneCallback", "unparkAll"}
  BY UnparkDequeueFacts
<1>2. PICK woken \in Seq(Threads) : \E rest :
        Unpark(t, woken, rest) /\ Leave(bucket[t], ToSet(woken), rest) /\ Once(woken)
  BY UnparkDequeueFacts
<1>3. PICK rest : Unpark(t, woken, rest) /\ Leave(bucket[t], ToSet(woken), rest)
  BY <1>2
<1> DEFINE W == ToSet(woken)
<1>4. pc[t] = "enter" /\ pending[t] = <<>> /\ bucket[t] \in BucketIds
  BY <1>1, EnterFacts
<1>5. /\ UNCHANGED <<parks, address>> /\ pending'[t] = woken /\ \A u \in Threads \ {t} : pending'[u] = pending[u]
      /\ pc'[t] \in {"ready", "wake"} /\ op'[t] \in {"none", op[t]}
  BY <1>0, <1>3 DEF Unpark, Return, Goto
<1>6. W \subseteq ToSet(queues[bucket[t]])
  BY <1>3 DEF Leave
<1>7. Woken' = Woken \cup W
  <2>1. Woken' = WokenBy(pending', Threads) /\ Woken = WokenBy(pending, Threads)
    BY DEF Woken, WokenBy
  <2>2. WokenBy(pending', Threads) = WokenBy(pending, Threads \ {t}) \cup ToSet(pending'[t])
    BY <1>5, WokenAfter
  <2>3. WokenBy(pending, Threads) = WokenBy(pending, Threads \ {t}) \cup ToSet(pending[t])
    BY WokenAfter
  <2>4. ToSet(pending[t]) = {} /\ ToSet(pending'[t]) = W
    BY <1>4, <1>5, EmptyElements
  <2> HIDE DEF W
  <2> QED BY <2>1, <2>2, <2>3, <2>4
<1>8. address[t] = NoAddress
  BY <1>1, <1>4 DEF QueueInv, Addressed, TimingOut
<1> HIDE DEF W
<1>9. ASSUME NEW u \in W
      PROVE  /\ u \in Threads /\ u # t /\ u \notin Woken /\ address[u] # NoAddress
             /\ pc[u] = "parked" \/ (op[u] = "dequeueSelf" /\ u \in Timed)
  <2>1. u \in ToSet(queues[bucket[t]])
    BY <1>6
  <2>2. u \in Threads /\ QueuedHere(u, bucket[t]) /\ address[u] # NoAddress
    BY <1>4, <2>1, QueuedFacts
  <2>3. Counted(u)
    BY <2>2 DEF AwakeInv
  <2> QED BY <1>8, <2>2, <2>3 DEF QueuedHere, TimingOut, Counted
<1>10. ASSUME NEW u \in Threads PROVE Counted(u)' /\ StaysAway(u)'
  <2>1. Counted(u) /\ StaysAway(u)
    BY DEF AwakeInv
  <2>2. CASE u = t
    <3>1. Counted(u)'
      BY <1>1, <1>5, <1>8, <2>2 DEF Counted
    <3>2. StaysAway(u)'
      BY <1>1, <1>4, <1>5, <1>7, <1>9, <2>1, <2>2 DEF StaysAway
    <3> QED BY <3>1, <3>2
  <2>3. CASE u # t
    <3>1. pc'[u] = pc[u] /\ op'[u] = op[u]
      BY <2>3 DEF OthersSame
    <3>2. Counted(u)'
      BY <1>5, <2>1, <3>1 DEF Counted
    <3>3. CASE u \in W
      BY <1>5, <1>9, <2>1, <3>1, <3>3 DEF StaysAway, Counted
    <3>4. CASE u \notin W
      <4>1. u \in Woken' => u \in Woken
        BY <1>7, <3>4
      <4>2. parks'[u] = parks[u] /\ address'[u] = address[u]
        BY <1>5
      <4> QED BY <2>1, <3>1, <3>2, <4>1, <4>2 DEF StaysAway
    <3> QED BY <3>2, <3>3, <3>4
  <2> QED BY <2>2, <2>3
<1>11. \A u \in Threads : Once(pending'[u])
  BY <1>2, <1>5 DEF AwakeInv
<1>12. ASSUME NEW u \in Threads, NEW v \in Threads, u # v
       PROVE  ToSet(pending'[u]) \cap ToSet(pending'[v]) = {}
  <2>1. \A x \in Threads : ToSet(pending[x]) \subseteq Woken
    BY DEF Woken
  <2>2. W \cap Woken = {} /\ ToSet(pending'[t]) = W
    BY <1>5, <1>9 DEF W
  <2>3. CASE u = t
    BY <1>5, <1>12, <2>1, <2>2, <2>3
  <2>4. CASE v = t
    BY <1>5, <1>12, <2>1, <2>2, <2>4
  <2>5. CASE u # t /\ v # t
    BY <1>5, <1>12, <2>5 DEF AwakeInv
  <2> QED BY <2>3, <2>4, <2>5
<1> QED
  BY <1>0, <1>5, <1>10, <1>11, <1>12 DEF AwakeInv

LEMMA AwakeWake ==
  ASSUME TablesInv, LocksInv, QueueInv, AwakeInv, NEW t \in Threads, OthersSame(t), UnparkWake(t)
  PROVE  AwakeInv'
<1> DEFINE p == pending[t]
           h == Head(p)
<1>0. /\ pc \in [Threads -> PCs] /\ op \in [Threads -> Ops] /\ parks \in [Threads -> Nat]
      /\ pending \in [Threads -> Seq(Threads)] /\ address \in [Threads -> Addresses \cup {NoAddress}]
  BY DEF LocksInv, ThreadTypes, QueueTypes, QueueInv, AwakeInv
<1>1. pc[t] = "wake" /\ InOperation(t) /\ p # <<>> /\ p \in Seq(Threads) /\ Once(p)
  BY <1>0 DEF UnparkWake, QueueInv, InOperation, AwakeInv
<1>2. h \in Threads /\ ToSet(p) = ToSet(Tail(p)) \cup {h} /\ Once(Tail(p)) /\ h \notin ToSet(Tail(p))
  <2> HIDE DEF p
  <2> QED BY <1>1, TailElements
<1>3. /\ pending'[t] = Tail(p) /\ \A u \in Threads \ {t} : pending'[u] = pending[u]
      /\ address'[h] = NoAddress /\ \A u \in Threads : u # h => address'[u] = address[u]
      /\ parks' = parks /\ pc'[t] \in {"ready", "wake"} /\ op'[t] \in {"none", op[t]}
  BY <1>0, <1>1, <1>2 DEF UnparkWake, Return
<1>4. \A u \in Threads : ToSet(pending'[u]) \subseteq ToSet(pending[u]) /\ h \notin ToSet(pending'[u])
  <2>1. ASSUME NEW u \in Threads, u # t PROVE h \notin ToSet(pending[u])
    <3>1. h \in ToSet(pending[t])
      BY <1>2
    <3> HIDE DEF h, p
    <3> QED BY <2>1, <3>1 DEF AwakeInv
  <2> HIDE DEF h
  <2> QED BY <1>2, <1>3, <2>1
<1> HIDE DEF h, p
<1>5. Woken' \subseteq Woken /\ h \notin Woken'
  BY <1>4 DEF Woken
<1>6. ASSUME NEW u \in Threads PROVE Counted(u)' /\ StaysAway(u)'
  <2>1. Counted(u) /\ StaysAway(u)
    BY DEF AwakeInv
  <2>2. address'[u] # NoAddress => address[u] # NoAddress
    BY <1>3
  <2>3. CASE u = t
    <3>1. Counted(u)'
      BY <1>3, <2>1, <2>2, <2>3 DEF Counted
    <3>2. StaysAway(u)'
      BY <1>1, <1>3, <1>5, <2>1, <2>3 DEF StaysAway
    <3> QED BY <3>1, <3>2
  <2>4. CASE u # t
    <3>1. pc'[u] = pc[u] /\ op'[u] = op[u]
      BY <2>4 DEF OthersSame
    <3>2. Counted(u)'
      BY <1>3, <2>1, <2>2, <3>1 DEF Counted
    <3>3. StaysAway(u)'
      BY <1>3, <1>5, <2>1, <3>1 DEF StaysAway
    <3> QED BY <3>2, <3>3
  <2> QED BY <2>3, <2>4
<1>7. \A u \in Threads : Once(pending'[u])
  BY <1>2, <1>3 DEF AwakeInv
<1>8. ASSUME NEW u \in Threads, NEW v \in Threads, u # v
      PROVE  ToSet(pending'[u]) \cap ToSet(pending'[v]) = {}
  <2>1. ToSet(pending[u]) \cap ToSet(pending[v]) = {}
    BY <1>8 DEF AwakeInv
  <2> QED BY <1>4, <2>1
<1> QED
  BY <1>0, <1>3, <1>6, <1>7, <1>8 DEF AwakeInv

LEMMA AwakeMeans ==
  ASSUME QueueInv, AwakeInv
  PROVE  ParksAwake
<1>1. pending \in [Threads -> Seq(Threads)]
  BY DEF QueueInv, QueueTypes
<1>2. \A t \in Threads : BeingWoken(t) <=> t \in Woken
  BY <1>1, WokenContains DEF BeingWoken, Woken
<1>3. \A t \in Threads : StaysAway(t)
  BY DEF AwakeInv
<1> QED
  BY <1>2, <1>3 DEF ParksAwake, StaysAway

LEMMA AwakeNext ==
  ASSUME TablesInv, LocksInv, QueueInv, AwakeInv, [Next]_vars, \A u \in Timed : MaxParks[u] <= 1
  PROVE  AwakeInv'
<1>1. ASSUME NEW t \in Threads, Call(t) \/ Step(t) \/ ParkTimeOut(t) PROVE AwakeInv'
  <2>1. OthersSame(t)
    BY <1>1, OthersSameNext DEF QueueInv
  <2>2. parks' \in [Threads -> Nat] /\ \A u \in Threads : parks[u] # 0 => parks'[u] # 0
    BY <1>1, ParksKept DEF AwakeInv
  <2>3. CASE UnparkOneDequeue(t) \/ UnparkAllDequeue(t)
    BY <2>1, <2>3, AwakeUnpark
  <2>4. CASE UnparkWake(t)
    BY <2>1, <2>4, AwakeWake
  <2> QED BY <1>1, <2>1, <2>2, <2>3, <2>4, AwakeQuietNext DEF Step
<1>2. CASE UNCHANGED vars
  <2>1. UNCHANGED <<parks, pending, address, pc, op>>
    BY <1>2 DEF vars, lots, locals
  <2>2. Woken' = Woken
    BY <2>1 DEF Woken
  <2> QED BY <2>1, <2>2 DEF AwakeInv, Counted, StaysAway
<1> QED
  BY <1>1, <1>2 DEF Next

LEMMA InitAwake ==
  ASSUME Init
  PROVE  AwakeInv
<1>1. parks \in [Threads -> Nat]
  BY DEF Init
<1>2. \A t \in Threads : pending[t] = <<>> /\ op[t] = "none" /\ address[t] = NoAddress
  BY DEF Init
<1>3. ToSet(<<>>) = {} /\ Once(<<>>)
  BY EmptyElements
<1>4. Woken = {}
  BY <1>2, <1>3 DEF Woken
<1> QED
  BY <1>1, <1>2, <1>3, <1>4 DEF AwakeInv, Counted, StaysAway

(***************************************************************************)
(* The queues are as they should be as long as no thread parks before the  *)
(* unpark that dequeued it in an earlier call has cleared its address.     *)
(***************************************************************************)
THEOREM QueuesConsistent == Spec /\ []ParksAwake => [](TablesInv /\ LocksInv /\ QueueInv)
<1>1. Init => TablesInv /\ LocksInv /\ QueueInv
  BY InitTablesLocks, InitQueues
<1>2. TablesInv /\ LocksInv /\ QueueInv /\ ParksAwake /\ [Next]_vars => (TablesInv /\ LocksInv /\ QueueInv)'
  BY NextTablesLocks, QueueInvNext
<1> QED
  BY <1>1, <1>2, PTL DEF Spec

(***************************************************************************)
(* No unpark can miss a parked thread, whatever rehashing went on since it *)
(* parked (ensureHashtableSize(), dequeue()).                              *)
(***************************************************************************)
THEOREM NoStrandedThreadAlways == Spec /\ []ParksAwake => []NoStrandedThread
<1>1. TablesInv /\ LocksInv /\ QueueInv => NoStrandedThread
  BY QueueInvMeans
<1> QED
  BY <1>1, QueuesConsistent, PTL

(***************************************************************************)
(* A thread is on one queue at most, once, and only inside                 *)
(* parkConditionally().                                                    *)
(***************************************************************************)
THEOREM QueuedOnlyWhileParkedAlways == Spec /\ []ParksAwake => []QueuedOnlyWhileParked
<1>1. TablesInv /\ LocksInv /\ QueueInv => QueuedOnlyWhileParked
  BY QueueInvMeans
<1> QED
  BY <1>1, QueuesConsistent, PTL

(***************************************************************************)
(* What parkConditionally() returns after a timeout is true: whether       *)
(* somebody dequeued the thread.                                           *)
(***************************************************************************)
THEOREM TimeoutVerdictAlways == Spec /\ []ParksAwake => []TimeoutVerdict
<1>1. TablesInv /\ LocksInv /\ QueueInv => TimeoutVerdict
  BY QueueInvMeans
<1> QED
  BY <1>1, QueuesConsistent, PTL

(***************************************************************************)
(* The condition of these theorems holds if no thread that parks with a    *)
(* timeout parks a second time; without timeouts it always holds: a thread *)
(* that was dequeued sleeps until its address is cleared.                  *)
(***************************************************************************)
THEOREM ParksAwakeAlways ==
  ASSUME \A t \in Timed : MaxParks[t] <= 1
  PROVE  Spec => []ParksAwake
<1> DEFINE J == TablesInv /\ LocksInv /\ QueueInv /\ AwakeInv
<1>1. Init => J
  BY InitTablesLocks, InitQueues, InitAwake
<1>2. J /\ [Next]_vars => J'
  BY NextTablesLocks, QueueInvNext, AwakeNext, AwakeMeans
<1>3. J => ParksAwake
  BY AwakeMeans
<1> QED
  BY <1>1, <1>2, <1>3, PTL DEF Spec

-----------------------------------------------------------------------------
(***************************************************************************)
(* The queues of the addresses are the queues of ParkingQueue.             *)
(***************************************************************************)
On(ad, a) == {u \in Threads : ad[u] = a}

\* AddressQueue(a), of the tables T of which h is the current one, the queues Q of the
\* buckets and the addresses ad of the threads.
QueueAt(T, h, Q, ad, a) ==
  IF h = 0 THEN <<>>
  ELSE IF Slot(T[h], a) = NoBucket THEN <<>> ELSE Those(Q[Slot(T[h], a)], On(ad, a))

\* The queue of a after a step.
QueueAfter(a) == QueueAt(tables', hashtable', queues', address', a)

LEMMA AddressQueueIs ==
  ASSUME NEW a
  PROVE  AddressQueue(a) = QueueAt(tables, hashtable, queues, address, a)
BY DEF AddressQueue, QueueAt, OnAddress, On

LEMMA SlotBucket ==
  ASSUME NEW T, NEW h, NEW k, TablesOf(T, h, k), T # <<>>, NEW a \in Addresses
  PROVE  Slot(T[h], a) = NoBucket \/ Slot(T[h], a) \in BucketIds
<1>1. T[h] \in Tables /\ h \in 1..Len(T) /\ k \in 0..MaxBuckets /\ BucketsOf(T[h]) \subseteq 0..k
  BY CurrentTable
<1>2. Slot(T[h], a) \in 0..k
  BY <1>1, TableFacts
<1> QED
  BY <1>1, <1>2, ConstantsAssumption DEF NoBucket, BucketIds

LEMMA QueueAtSlot ==
  ASSUME NEW T, NEW h, NEW k, TablesOf(T, h, k), T # <<>>, NEW Q, NEW ad, NEW a, NEW b \in BucketIds, b = Slot(T[h], a)
  PROVE  QueueAt(T, h, Q, ad, a) = Those(Q[b], On(ad, a))
<1>1. h # 0
  BY CurrentTable
<1>2. b # NoBucket
  BY DEF NoBucket, BucketIds
<1> QED
  BY <1>1, <1>2 DEF QueueAt

LEMMA QueueAtNone ==
  ASSUME NEW T, NEW h, NEW k, TablesOf(T, h, k), NEW Q \in [BucketIds -> Seq(Threads)], NEW ad, NEW a \in Addresses,
         \A b \in BucketIds : \A u \in ToSet(Q[b]) : ad[u] # a
  PROVE  QueueAt(T, h, Q, ad, a) = <<>>
<1>1. CASE T = <<>>
  <2>1. h = 0
    BY <1>1 DEF TablesOf
  <2> QED BY <2>1 DEF QueueAt
<1>2. CASE T # <<>> /\ Slot(T[h], a) \in BucketIds
  <2> DEFINE b == Slot(T[h], a)
             s == Q[b]
  <2>1. QueueAt(T, h, Q, ad, a) = Those(s, On(ad, a))
    BY <1>2, QueueAtSlot
  <2>2. s \in Seq(Threads) /\ ToSet(s) \cap On(ad, a) = {}
    BY <1>2 DEF On
  <2> HIDE DEF s
  <2> QED BY <2>1, <2>2, ThoseNone
<1>3. CASE T # <<>> /\ Slot(T[h], a) = NoBucket
  BY <1>3 DEF QueueAt
<1> QED
  BY <1>1, <1>2, <1>3, SlotBucket

LEMMA SameQueueAt ==
  ASSUME NEW T, NEW h, NEW k, TablesOf(T, h, k), NEW Q, NEW R, NEW ad, NEW ae, NEW a \in Addresses,
         \A b \in BucketIds : T # <<>> /\ b = Slot(T[h], a) => Those(R[b], On(ae, a)) = Those(Q[b], On(ad, a))
  PROVE  QueueAt(T, h, R, ae, a) = QueueAt(T, h, Q, ad, a)
<1>1. CASE T = <<>>
  <2>1. h = 0
    BY <1>1 DEF TablesOf
  <2> QED BY <2>1 DEF QueueAt
<1>2. CASE T # <<>> /\ Slot(T[h], a) \in BucketIds
  <2>1. /\ QueueAt(T, h, R, ae, a) = Those(R[Slot(T[h], a)], On(ae, a))
        /\ QueueAt(T, h, Q, ad, a) = Those(Q[Slot(T[h], a)], On(ad, a))
    BY <1>2, QueueAtSlot
  <2> QED BY <1>2, <2>1
<1>3. CASE T # <<>> /\ Slot(T[h], a) = NoBucket
  BY <1>3 DEF QueueAt
<1> QED
  BY <1>1, <1>2, <1>3, SlotBucket

\* A step that leaves the queues, and the addresses of the threads on them, alone.
LEMMA QueuesKept ==
  ASSUME TablesInv, LocksInv, QueueInv, TablesInv', SlotsStay, queues' = queues,
         \A b \in BucketIds : \A u \in ToSet(queues[b]) : address'[u] = address[u],
         NEW a \in Addresses
  PROVE  QueueAfter(a) = AddressQueue(a)
<1>0. queues \in [BucketIds -> Seq(Threads)]
  BY DEF LocksInv, ThreadTypes
<1>1. \A b \in BucketIds : Those(queues[b], On(address', a)) = Those(queues[b], On(address, a))
  <2>1. ASSUME NEW b \in BucketIds PROVE Those(queues[b], On(address', a)) = Those(queues[b], On(address, a))
    <3>1. queues[b] \in Seq(Threads)
      BY <1>0
    <3>2. ToSet(queues[b]) \cap On(address', a) = ToSet(queues[b]) \cap On(address, a)
      BY DEF On
    <3> QED BY <3>1, <3>2, ThoseSame
  <2> QED BY <2>1
<1>2. CASE tables # <<>> /\ Slot(tables[hashtable], a) \in BucketIds
  <2> DEFINE b == Slot(tables[hashtable], a)
  <2>1. tables' # <<>> /\ Slot(tables'[hashtable'], a) = b
    BY <1>2 DEF SlotsStay, BucketIds, NoBucket
  <2>2. QueueAt(tables, hashtable, queues, address, a) = Those(queues[b], On(address, a))
    BY <1>2, QueueAtSlot DEF TablesInv
  <2>3. QueueAt(tables', hashtable', queues, address', a) = Those(queues[b], On(address', a))
    BY <1>2, <2>1, QueueAtSlot DEF TablesInv
  <2> QED BY <1>1, <1>2, <2>2, <2>3, AddressQueueIs DEF QueueAfter
<1>3. CASE ~(tables # <<>> /\ Slot(tables[hashtable], a) \in BucketIds)
  <2>1. ASSUME NEW b \in BucketIds, NEW u \in ToSet(queues[b]) PROVE address[u] # a
    BY <1>3, QueuedFacts DEF QueuedHere
  <2>2. QueueAt(tables, hashtable, queues, address, a) = <<>>
    BY <1>0, <2>1, QueueAtNone DEF TablesInv
  <2>3. QueueAt(tables', hashtable', queues, address', a) = <<>>
    BY <1>0, <2>1, QueueAtNone DEF TablesInv
  <2> QED BY <2>2, <2>3, AddressQueueIs DEF QueueAfter
<1> QED
  BY <1>2, <1>3

LEMMA QueuesAfter == AddressQueues' = [a \in Addresses |-> QueueAfter(a)]
BY DEF AddressQueues, AddressQueue, QueueAfter, QueueAt, OnAddress, On

LEMMA QueuesUnchanged ==
  ASSUME \A a \in Addresses : QueueAfter(a) = AddressQueue(a)
  PROVE  UNCHANGED AddressQueues
BY QueuesAfter DEF AddressQueues

\* One queue changes.
LEMMA QueuesChanged ==
  ASSUME NEW a0 \in Addresses, NEW x, QueueAfter(a0) = x,
         \A a \in Addresses : a # a0 => QueueAfter(a) = AddressQueue(a)
  PROVE  AddressQueues' = [AddressQueues EXCEPT ![a0] = x] /\ AddressQueues[a0] = AddressQueue(a0)
BY QueuesAfter DEF AddressQueues

\* Only the queue of bucket b0 changes: what that means for the address a.
LEMMA BucketChanged ==
  ASSUME TablesInv, LocksInv, tables # <<>>, tables' = tables, hashtable' = hashtable, NEW b0 \in BucketIds,
         \A b \in BucketIds : b # b0 => queues'[b] = queues[b], NEW a \in Addresses
  PROVE  /\ b0 = Slot(tables[hashtable], a) =>
              /\ AddressQueue(a) = Those(queues[b0], On(address, a))
              /\ QueueAfter(a) = Those(queues'[b0], On(address', a))
         /\ /\ Those(queues'[b0], On(address', a)) = Those(queues[b0], On(address, a))
            /\ \A b \in BucketIds : b # b0 => Those(queues[b], On(address', a)) = Those(queues[b], On(address, a))
            => QueueAfter(a) = AddressQueue(a)
<1>0. queues \in [BucketIds -> Seq(Threads)] /\ TablesOf(tables, hashtable, numBuckets)
  BY DEF LocksInv, ThreadTypes, TablesInv
<1>2. /\ AddressQueue(a) = QueueAt(tables, hashtable, queues, address, a)
      /\ QueueAfter(a) = QueueAt(tables, hashtable, queues', address', a)
  BY AddressQueueIs DEF QueueAfter
<1>3. ASSUME b0 = Slot(tables[hashtable], a)
      PROVE  /\ AddressQueue(a) = Those(queues[b0], On(address, a))
             /\ QueueAfter(a) = Those(queues'[b0], On(address', a))
  <2>1. \A Q, ad : QueueAt(tables, hashtable, Q, ad, a) = Those(Q[b0], On(ad, a))
    BY <1>0, <1>3, QueueAtSlot
  <2>2. QueueAt(tables, hashtable, queues, address, a) = Those(queues[b0], On(address, a))
    BY <2>1
  <2>3. QueueAt(tables, hashtable, queues', address', a) = Those(queues'[b0], On(address', a))
    BY <2>1
  <2> QED BY <1>2, <2>2, <2>3
<1>4. ASSUME Those(queues'[b0], On(address', a)) = Those(queues[b0], On(address, a)),
             \A b \in BucketIds : b # b0 => Those(queues[b], On(address', a)) = Those(queues[b], On(address, a))
      PROVE  QueueAfter(a) = AddressQueue(a)
  <2>1. \A b \in BucketIds : Those(queues'[b], On(address', a)) = Those(queues[b], On(address, a))
    BY <1>4
  <2> DEFINE R == queues'
             ae == address'
  <2>2. \A b \in BucketIds : tables # <<>> /\ b = Slot(tables[hashtable], a) => Those(R[b], On(ae, a)) = Those(queues[b], On(address, a))
    BY <2>1
  <2> HIDE DEF R, ae
  <2>3. QueueAt(tables, hashtable, R, ae, a) = QueueAt(tables, hashtable, queues, address, a)
    BY <1>0, <2>2, SameQueueAt
  <2> QED BY <1>2, <2>3 DEF R, ae
<1> QED
  BY <1>3, <1>4

LEMMA AddressQueueElements ==
  ASSUME TablesInv, LocksInv, QueueInv, NEW a \in Addresses
  PROVE  /\ AddressQueue(a) \in Seq(Threads)
         /\ \A u \in ToSet(AddressQueue(a)) : \E b \in BucketIds : u \in ToSet(queues[b])
<1>0. queues \in [BucketIds -> Seq(Threads)] /\ TablesOf(tables, hashtable, numBuckets)
  BY DEF LocksInv, ThreadTypes, TablesInv
<1>1. CASE tables # <<>> /\ Slot(tables[hashtable], a) \in BucketIds
  <2> DEFINE b == Slot(tables[hashtable], a)
             s == Those(queues[b], On(address, a))
  <2>1. AddressQueue(a) = s
    BY <1>0, <1>1, QueueAtSlot, AddressQueueIs
  <2>2. queues[b] \in Seq(Threads)
    BY <1>0, <1>1
  <2>3. s \in Seq(Threads) /\ ToSet(s) \subseteq ToSet(queues[b])
    <3> HIDE DEF b
    <3> QED BY <2>2, ThoseElements
  <2> HIDE DEF s
  <2> QED BY <1>1, <2>1, <2>3
<1>2. CASE ~(tables # <<>> /\ Slot(tables[hashtable], a) \in BucketIds)
  <2>1. \A b \in BucketIds : \A u \in ToSet(queues[b]) : address[u] # a
    BY <1>2, QueuedFacts DEF QueuedHere
  <2>2. AddressQueue(a) = <<>>
    BY <1>0, <2>1, QueueAtNone, AddressQueueIs
  <2> QED BY <2>2, EmptyElements
<1> QED
  BY <1>1, <1>2

LEMMA AbstractSequences ==
  \A s, x : /\ Abstract!Contains(s, x) <=> Contains(s, x)
            /\ Abstract!RemoveFirst(s, x) = RemoveFirst(s, x)
BY DEF Contains, Abstract!Contains, RemoveFirst, Abstract!RemoveFirst, RemoveAt, Abstract!RemoveAt,
   SelectInSeq, Abstract!SelectInSeq, Min, Abstract!Min

LEMMA ParkEnqueueRefines ==
  ASSUME TablesInv, LocksInv, QueueInv, NEW t \in Threads, ParkEnqueue(t)
  PROVE  Abstract!Park(t, arg[t]) /\ arg[t] \in Addresses
<1> DEFINE b0 == bucket[t]
           q == queues[b0]
           a0 == arg[t]
           r == Append(q, t)
<1>0. /\ queues \in [BucketIds -> Seq(Threads)]
      /\ address \in [Threads -> Addresses \cup {NoAddress}]
  BY DEF LocksInv, ThreadTypes
<1>1. Enter(t) /\ op[t] = "park"
  BY DEF ParkEnqueue
<1>2. /\ pc[t] = "enter" /\ a0 \in Addresses /\ tables # <<>> /\ b0 \in BucketIds
      /\ b0 = Slot(tables[hashtable], a0) /\ q \in Seq(Threads)
  BY <1>1, EnterFacts
<1>3. /\ UNCHANGED <<tables, hashtable>>
      /\ address' = [address EXCEPT ![t] = a0] /\ queues' = [queues EXCEPT ![b0] = r]
  BY DEF ParkEnqueue
<1>31. queues'[b0] = r /\ \A b \in BucketIds : b # b0 => queues'[b] = queues[b]
  BY <1>0, <1>2, <1>3
<1>4. address'[t] = a0 /\ \A u \in Threads : u # t => address'[u] = address[u]
  BY <1>0, <1>3
<1>5. \A b \in BucketIds : t \notin ToSet(queues[b])
  BY <1>1, <1>2, NotQueued DEF TimingOut
<1> HIDE DEF a0, b0
<1>6. ASSUME NEW b \in BucketIds, NEW a PROVE Those(queues[b], On(address', a)) = Those(queues[b], On(address, a))
  <2>1. queues[b] \in Seq(Threads)
    BY <1>0
  <2>2. ToSet(queues[b]) \cap On(address', a) = ToSet(queues[b]) \cap On(address, a)
    BY <1>4, <1>5 DEF On
  <2> QED BY <2>1, <2>2, ThoseSame
<1>7. \A S : Those(r, S) = IF t \in S THEN Append(Those(q, S), t) ELSE Those(q, S)
  <2> HIDE DEF q
  <2> QED BY <1>2, ThoseAppend
<1> HIDE DEF r
<1>8. QueueAfter(a0) = Append(AddressQueue(a0), t)
  <2>1. AddressQueue(a0) = Those(q, On(address, a0)) /\ QueueAfter(a0) = Those(queues'[b0], On(address', a0))
    BY <1>2, <1>3, <1>31, BucketChanged
  <2>2. t \in On(address', a0)
    BY <1>4 DEF On
  <2>3. Those(r, On(address', a0)) = Append(Those(q, On(address', a0)), t)
    BY <1>7, <2>2
  <2>4. Those(q, On(address', a0)) = Those(q, On(address, a0))
    BY <1>2, <1>6
  <2> HIDE DEF q
  <2> QED BY <1>31, <2>1, <2>3, <2>4
<1>9. ASSUME NEW a \in Addresses, a # a0 PROVE QueueAfter(a) = AddressQueue(a)
  <2>1. t \notin On(address', a)
    BY <1>4, <1>9 DEF On
  <2>2. Those(queues'[b0], On(address', a)) = Those(q, On(address, a))
    BY <1>2, <1>31, <1>6, <1>7, <2>1
  <2>3. \A b \in BucketIds : Those(queues[b], On(address', a)) = Those(queues[b], On(address, a))
    BY <1>6
  <2> QED BY <1>2, <1>3, <1>31, <2>2, <2>3, BucketChanged
<1>10. ASSUME NEW a \in Addresses PROVE ~Contains(AddressQueue(a), t)
  <2>1. /\ AddressQueue(a) \in Seq(Threads)
        /\ \A u \in ToSet(AddressQueue(a)) : \E b \in BucketIds : u \in ToSet(queues[b])
    BY AddressQueueElements
  <2> QED BY <1>5, <2>1, ToSetContains
<1>11. AddressQueues' = [AddressQueues EXCEPT ![a0] = Append(AddressQueue(a0), t)] /\ AddressQueues[a0] = AddressQueue(a0)
  BY <1>2, <1>8, <1>9, QueuesChanged
<1>12. \A a \in Addresses : ~Contains(AddressQueues[a], t)
  BY <1>10 DEF AddressQueues
<1>13. AddressQueues' = [AddressQueues EXCEPT ![a0] = Append(AddressQueues[a0], t)]
  BY <1>11
<1> QED
  BY <1>2, <1>12, <1>13, AbstractSequences DEF Abstract!Park, a0

\* The threads of W, all of them parked on a0, leave the queue of a0's bucket.
LEMMA LeaveOthers ==
  ASSUME TablesInv, LocksInv, QueueInv, tables # <<>>, tables' = tables, hashtable' = hashtable, address' = address,
         NEW b0 \in BucketIds, NEW W \in SUBSET Threads, NEW a0 \in Addresses, \A u \in W : address[u] = a0,
         queues'[b0] = Those(queues[b0], Threads \ W), \A b \in BucketIds : b # b0 => queues'[b] = queues[b],
         NEW a \in Addresses, a # a0
  PROVE  QueueAfter(a) = AddressQueue(a)
<1> DEFINE q == queues[b0]
<1>0. queues \in [BucketIds -> Seq(Threads)]
  BY DEF LocksInv, ThreadTypes
<1>1. q \in Seq(Threads) /\ queues'[b0] = Those(q, Threads \ W) /\ \A b \in BucketIds : b # b0 => queues'[b] = queues[b]
  BY <1>0
<1> HIDE DEF q
<1>2. Those(Those(q, Threads \ W), On(address, a)) = Those(q, (Threads \ W) \cap On(address, a))
  BY <1>1, ThoseThose
<1>3. (Threads \ W) \cap On(address, a) = On(address, a)
  BY DEF On
<1>4. Those(queues'[b0], On(address', a)) = Those(queues[b0], On(address, a))
  BY <1>1, <1>2, <1>3 DEF q
<1> QED
  BY <1>1, <1>4, BucketChanged

LEMMA LeaveThis ==
  ASSUME TablesInv, LocksInv, QueueInv, tables # <<>>, tables' = tables, hashtable' = hashtable, address' = address,
         NEW b0 \in BucketIds, NEW W \in SUBSET Threads, NEW a0 \in Addresses, b0 = Slot(tables[hashtable], a0),
         queues'[b0] = Those(queues[b0], Threads \ W), \A b \in BucketIds : b # b0 => queues'[b] = queues[b]
  PROVE  /\ AddressQueue(a0) = Those(queues[b0], On(address, a0))
         /\ QueueAfter(a0) = Those(AddressQueue(a0), Threads \ W)
<1> DEFINE q == queues[b0]
           A == On(address, a0)
<1>0. queues \in [BucketIds -> Seq(Threads)]
  BY DEF LocksInv, ThreadTypes
<1>1. q \in Seq(Threads) /\ queues'[b0] = Those(q, Threads \ W) /\ \A b \in BucketIds : b # b0 => queues'[b] = queues[b]
  BY <1>0
<1>2. AddressQueue(a0) = Those(q, A) /\ QueueAfter(a0) = Those(queues'[b0], A)
  BY <1>1, BucketChanged
<1> HIDE DEF q, A
<1>3. /\ Those(Those(q, Threads \ W), A) = Those(q, (Threads \ W) \cap A)
      /\ Those(Those(q, A), Threads \ W) = Those(q, A \cap (Threads \ W))
  BY <1>1, ThoseThose
<1>4. (Threads \ W) \cap A = A \cap (Threads \ W)
  OBVIOUS
<1> QED
  BY <1>1, <1>2, <1>3, <1>4 DEF q, A

LEMMA ParkDequeueSelfRefines ==
  ASSUME TablesInv, LocksInv, QueueInv, NEW t \in Threads, ParkDequeueSelf(t)
  PROVE  UNCHANGED AddressQueues \/ \E a \in Addresses : Abstract!TimeOut(t, a)
<1> DEFINE b0 == bucket[t]
           q == queues[b0]
           a0 == arg[t]
<1>0. queues \in [BucketIds -> Seq(Threads)]
  BY DEF LocksInv, ThreadTypes
<1>1. Enter(t) /\ op[t] = "dequeueSelf"
  BY DEF ParkDequeueSelf
<1>2. /\ pc[t] = "enter" /\ a0 \in Addresses /\ tables # <<>> /\ b0 \in BucketIds
      /\ b0 = Slot(tables[hashtable], a0) /\ q \in Seq(Threads) /\ Once(q)
  BY <1>1, EnterFacts
<1>3. /\ tables' = tables /\ hashtable' = hashtable /\ address' = address
      /\ queues' = [queues EXCEPT ![b0] = RemoveFirst(q, t)]
  BY DEF ParkDequeueSelf
<1>4. RemoveFirst(q, t) = Those(q, Threads \ {t})
  <2> HIDE DEF q
  <2> QED BY <1>2, RemoveFirstThose
<1>5. CASE t \notin ToSet(q)
  <2>1. RemoveFirst(q, t) = q
    <3> HIDE DEF q
    <3> QED BY <1>2, <1>5, RemoveFirstAt
  <2>2. queues' = queues
    BY <1>0, <1>3, <2>1
  <2>3. TablesInv' /\ SlotsStay
    BY <1>3, <2>2, TablesNext DEF Step, SlotsStay
  <2>4. \A a \in Addresses : QueueAfter(a) = AddressQueue(a)
    BY <1>3, <2>2, <2>3, QueuesKept
  <2> QED BY <2>4, QueuesUnchanged
<1>6. CASE t \in ToSet(q)
  <2>1. address[t] = a0
    <3>1. address[t] # NoAddress
      BY <1>2, <1>6, QueuedFacts
    <3> QED BY <1>2, <3>1 DEF QueueInv, Addressed
  <2> DEFINE W == {t}
             s == AddressQueue(a0)
  <2>2. W \in SUBSET Threads /\ \A u \in W : address[u] = a0
    BY <2>1
  <2>3. queues'[b0] = Those(queues[b0], Threads \ W) /\ \A b \in BucketIds : b # b0 => queues'[b] = queues[b]
    BY <1>0, <1>2, <1>3, <1>4
  <2>31. tables' = tables /\ hashtable' = hashtable /\ address' = address
    BY <1>3
  <2> HIDE DEF W, b0, a0
  <2>4. s = Those(q, On(address, a0)) /\ QueueAfter(a0) = Those(s, Threads \ W)
    BY <1>2, <2>2, <2>3, <2>31, LeaveThis
  <2>5. \A a \in Addresses : a # a0 => QueueAfter(a) = AddressQueue(a)
    BY <1>2, <2>2, <2>3, <2>31, LeaveOthers
  <2> HIDE DEF q, s
  <2>6. s \in Seq(Threads) /\ Once(s) /\ ToSet(s) = ToSet(q) \cap On(address, a0)
    BY <1>2, <2>4, ThoseElements
  <2>7. t \in ToSet(s)
    BY <1>6, <2>1, <2>6 DEF On
  <2>8. Contains(s, t)
    BY <2>6, <2>7, ToSetContains
  <2>9. RemoveFirst(s, t) = Those(s, Threads \ {t})
    BY <2>6, RemoveFirstThose
  <2>10. QueueAfter(a0) = RemoveFirst(s, t)
    BY <2>4, <2>9 DEF W
  <2>11. AddressQueues' = [AddressQueues EXCEPT ![a0] = RemoveFirst(s, t)] /\ AddressQueues[a0] = s
    BY <1>2, <2>5, <2>10, QueuesChanged DEF s
  <2> QED BY <1>2, <2>8, <2>11, AbstractSequences DEF Abstract!TimeOut
<1> QED
  BY <1>5, <1>6

LEMMA UnparkRefines ==
  ASSUME TablesInv, LocksInv, QueueInv, NEW t \in Threads, UnparkOneDequeue(t) \/ UnparkAllDequeue(t)
  PROVE  UNCHANGED AddressQueues \/ \E a \in Addresses : Abstract!UnparkOne(a) \/ Abstract!UnparkAll(a)
<1> DEFINE b0 == bucket[t]
           q == queues[b0]
           a0 == arg[t]
           A == OnAddress(a0)
           s == Those(q, A)
<1>0. queues \in [BucketIds -> Seq(Threads)]
  BY DEF LocksInv, ThreadTypes
<1>1. Enter(t)
  BY DEF UnparkOneDequeue, UnparkAllDequeue
<1>2. /\ a0 \in Addresses /\ tables # <<>> /\ b0 \in BucketIds
      /\ b0 = Slot(tables[hashtable], a0) /\ q \in Seq(Threads) /\ Once(q) /\ A = On(address, a0)
  BY <1>1, EnterFacts DEF OnAddress, On
<1>3. s \in Seq(Threads) /\ ToSet(s) = ToSet(q) \cap A /\ ToSet(q) \subseteq Threads /\ Once(s)
  <2> HIDE DEF q, A
  <2> QED BY <1>2, ThoseElements, ToSetContains
<1>4. ASSUME NEW woken, NEW rest, Unpark(t, woken, rest)
      PROVE  tables' = tables /\ hashtable' = hashtable /\ address' = address /\ queues' = [queues EXCEPT ![b0] = rest]
  BY <1>4 DEF Unpark
<1>5. CASE UnparkOneDequeue(t) /\ s = <<>>
  <2>1. Unpark(t, <<>>, q)
    BY <1>5 DEF UnparkOneDequeue
  <2>2. tables' = tables /\ hashtable' = hashtable /\ address' = address /\ queues' = [queues EXCEPT ![b0] = q]
    BY <1>4, <2>1
  <2>3. queues' = queues
    BY <1>0, <2>2
  <2>4. TablesInv' /\ SlotsStay
    BY <1>5, TablesNext, <2>2 DEF Step, SlotsStay
  <2>5. \A a \in Addresses : QueueAfter(a) = AddressQueue(a)
    BY <2>2, <2>3, <2>4, QueuesKept
  <2> QED BY <2>5, QueuesUnchanged
<1>6. CASE UnparkOneDequeue(t) /\ s # <<>>
  <2> DEFINE h == Head(s)
             W == {h}
  <2>1. Unpark(t, <<h>>, RemoveFirst(q, h))
    BY <1>6 DEF UnparkOneDequeue
  <2>2. tables' = tables /\ hashtable' = hashtable /\ address' = address /\ queues' = [queues EXCEPT ![b0] = RemoveFirst(q, h)]
    BY <1>4, <2>1
  <2>3. h \in ToSet(s) /\ h \in Threads
    <3> HIDE DEF s
    <3> QED BY <1>3, <1>6, TailElements
  <2>4. RemoveFirst(q, h) = Those(q, Threads \ {h})
    <3> HIDE DEF q, h
    <3> QED BY <1>2, RemoveFirstThose
  <2> HIDE DEF h, s
  <2>5. W \in SUBSET Threads /\ \A u \in W : address[u] = a0
    BY <1>2, <1>3, <2>3 DEF On
  <2>6. queues'[b0] = Those(queues[b0], Threads \ W) /\ \A b \in BucketIds : b # b0 => queues'[b] = queues[b]
    BY <1>0, <1>2, <2>2, <2>4
  <2>61. tables' = tables /\ hashtable' = hashtable /\ address' = address
    BY <2>2
  <2> HIDE DEF W, b0, a0, A
  <2>7. AddressQueue(a0) = s /\ QueueAfter(a0) = Those(AddressQueue(a0), Threads \ W)
    BY <1>2, <2>5, <2>6, <2>61, LeaveThis DEF s
  <2>8. \A a \in Addresses : a # a0 => QueueAfter(a) = AddressQueue(a)
    BY <1>2, <2>5, <2>6, <2>61, LeaveOthers
  <2>9. Those(s, Threads \ {h}) = Tail(s)
    BY <1>3, <1>6, TailThose DEF h
  <2>10. QueueAfter(a0) = Tail(s)
    BY <2>7, <2>9 DEF W
  <2>11. AddressQueues' = [AddressQueues EXCEPT ![a0] = Tail(s)] /\ AddressQueues[a0] = s
    BY <1>2, <2>7, <2>8, <2>10, QueuesChanged
  <2> QED BY <1>2, <1>6, <2>11 DEF Abstract!UnparkOne
<1>7. CASE UnparkAllDequeue(t)
  <2>1. Unpark(t, s, Those(q, Threads \ A))
    BY <1>7 DEF UnparkAllDequeue
  <2>2. tables' = tables /\ hashtable' = hashtable /\ address' = address /\ queues' = [queues EXCEPT ![b0] = Those(q, Threads \ A)]
    BY <1>4, <2>1
  <2>3. A \in SUBSET Threads /\ \A u \in A : address[u] = a0
    BY <1>2 DEF On
  <2>4. queues'[b0] = Those(queues[b0], Threads \ A) /\ \A b \in BucketIds : b # b0 => queues'[b] = queues[b]
    BY <1>0, <1>2, <2>2
  <2>41. tables' = tables /\ hashtable' = hashtable /\ address' = address
    BY <2>2
  <2> HIDE DEF b0, a0, A, s
  <2>5. AddressQueue(a0) = s /\ QueueAfter(a0) = Those(AddressQueue(a0), Threads \ A)
    BY <1>2, <2>3, <2>4, <2>41, LeaveThis DEF s
  <2>6. \A a \in Addresses : a # a0 => QueueAfter(a) = AddressQueue(a)
    BY <1>2, <2>3, <2>4, <2>41, LeaveOthers
  <2>7. Those(s, Threads \ A) = <<>>
    <3>1. ToSet(s) \cap (Threads \ A) = {}
      BY <1>3
    <3> QED BY <1>3, <3>1, ThoseNone
  <2>8. QueueAfter(a0) = <<>>
    BY <2>5, <2>7
  <2>9. AddressQueues' = [AddressQueues EXCEPT ![a0] = <<>>]
    BY <1>2, <2>6, <2>8, QueuesChanged
  <2> QED BY <1>2, <2>9 DEF Abstract!UnparkAll
<1> QED
  BY <1>5, <1>6, <1>7

\* A rehash moves threads between buckets and changes the queue of no address.
LEMMA RehashRefines ==
  ASSUME TablesInv, LocksInv, QueueInv, NEW t \in Threads, EnsureSizeSlow(t),
         ~LargeEnough(Size(tables[hashtable]), count[t])
  PROVE  UNCHANGED AddressQueues
<1> DEFINE f == tables[hashtable]
           G == GatheredThreads(f)
           S(b) == {u \in ToSet(G) : Slot(tables'[hashtable'], address[u]) = b}
<1>1. /\ tables # <<>> /\ tables' # <<>> /\ TablesInv'
      /\ G \in Seq(Threads)
      /\ \A u : u \in ToSet(G) <=> \E b \in BucketIds : u \in ToSet(queues[b])
      /\ \A u \in ToSet(G) : Slot(tables'[hashtable'], address[u]) \in BucketIds
      /\ \A b \in BucketIds : queues'[b] = Those(G, S(b))
      /\ BucketsOf(f) \subseteq BucketIds
  BY RehashFacts
<1>2. address' = address /\ queues \in [BucketIds -> Seq(Threads)] /\ TablesOf(tables, hashtable, numBuckets) /\ TablesOf(tables', hashtable', numBuckets')
  BY <1>1 DEF EnsureSizeSlow, LocksInv, ThreadTypes, TablesInv
<1>3. f \in Tables /\ Size(f) \in Nat /\ f \in [0..(Size(f) - 1) -> Nat]
  BY <1>1, <1>2, CurrentTable
<1>4. ASSUME NEW a \in Addresses PROVE QueueAfter(a) = AddressQueue(a)
  <2> DEFINE A == On(address, a)
             b == Slot(f, a)
             c == Slot(tables'[hashtable'], a)
  <2>1. b \in BucketsOf(f) /\ b \in BucketIds
    <3> HIDE DEF f
    <3> QED BY <1>1, <1>3, TableFacts
  <2>2. AddressQueue(a) = Those(queues[b], A)
    <3>1. QueueAt(tables, hashtable, queues, address, a) = Those(queues[b], A)
      BY <1>1, <1>2, <2>1, QueueAtSlot
    <3> QED BY <3>1, AddressQueueIs
  <2>3. Those(G, A) = Those(queues[b], A)
    <3>1. ASSUME NEW d \in BucketsOf(f), d # b PROVE ToSet(queues[d]) \cap A = {}
      <4>1. d \in BucketIds
        BY <1>1
      <4>2. \A u \in ToSet(queues[d]) : d = Slot(f, address[u])
        BY <4>1, QueuedFacts DEF QueuedHere
      <4> HIDE DEF f
      <4> QED BY <3>1, <4>2 DEF On
    <3> HIDE DEF f, A, b
    <3> QED BY <1>1, <1>2, <1>3, <2>1, <3>1, GatheredThose
  <2>4. CASE c \in BucketIds
    <3>1. QueueAfter(a) = Those(queues'[c], A)
      BY <1>1, <1>2, <2>4, QueueAtSlot DEF QueueAfter
    <3>2. queues'[c] = Those(G, S(c))
      BY <1>1, <2>4
    <3>3. ToSet(G) \cap (S(c) \cap A) = ToSet(G) \cap A
      <4>1. \A u \in ToSet(G) : u \in A => u \in S(c)
        BY DEF On
      <4> HIDE DEF G, A, S
      <4> QED BY <4>1
    <3> HIDE DEF G, A, S, c
    <3>4. Those(Those(G, S(c)), A) = Those(G, S(c) \cap A)
      BY <1>1, ThoseThose
    <3>5. Those(G, S(c) \cap A) = Those(G, A)
      BY <1>1, <3>3, ThoseSame
    <3> QED BY <2>2, <2>3, <3>1, <3>2, <3>4, <3>5
  <2>5. CASE c = NoBucket
    <3>1. QueueAfter(a) = <<>>
      BY <2>5 DEF QueueAfter, QueueAt
    <3>2. ToSet(G) \cap A = {}
      <4>1. NoBucket \notin BucketIds
        BY DEF NoBucket, BucketIds
      <4>2. \A u \in ToSet(G) : address[u] # a
        BY <1>1, <2>5, <4>1
      <4> HIDE DEF G
      <4> QED BY <4>2 DEF On
    <3> HIDE DEF G, A
    <3>3. Those(G, A) = <<>>
      BY <1>1, <3>2, ThoseNone
    <3> QED BY <2>2, <2>3, <3>1, <3>3
  <2> QED BY <1>1, <1>2, <2>4, <2>5, SlotBucket
<1> QED
  BY <1>4, QueuesUnchanged

\* The steps of the abstract specification that a step of t can be.
Refines(t) ==
  \/ UNCHANGED AddressQueues
  \/ \E a \in Addresses :
       Abstract!Park(t, a) \/ Abstract!UnparkOne(a) \/ Abstract!UnparkAll(a) \/ Abstract!TimeOut(t, a)

LEMMA StepRefines ==
  ASSUME TablesInv, LocksInv, QueueInv, NEW t \in Threads, Call(t) \/ Step(t) \/ ParkTimeOut(t)
  PROVE  Refines(t)
<1>0. TablesInv' /\ queues \in [BucketIds -> Seq(Threads)] /\ address \in [Threads -> Addresses \cup {NoAddress}]
  BY TablesNext DEF LocksInv, ThreadTypes
<1>1. ASSUME SlotsStay, queues' = queues, \A b \in BucketIds : \A u \in ToSet(queues[b]) : address'[u] = address[u]
      PROVE  UNCHANGED AddressQueues
  <2>1. \A a \in Addresses : QueueAfter(a) = AddressQueue(a)
    BY <1>0, <1>1, QueuesKept
  <2> QED BY <2>1, QueuesUnchanged
<1>2. CASE ParkEnqueue(t)
  BY <1>2, ParkEnqueueRefines DEF Refines
<1>3. CASE ParkDequeueSelf(t)
  BY <1>3, ParkDequeueSelfRefines DEF Refines
<1>4. CASE UnparkOneDequeue(t) \/ UnparkAllDequeue(t)
  BY <1>4, UnparkRefines DEF Refines
<1>5. CASE EnsureSizeSlow(t)
  <2>1. CASE LargeEnough(Size(tables[hashtable]), count[t])
    <3>1. UNCHANGED <<tables, hashtable, queues, address>>
      BY <1>5, <2>1 DEF EnsureSizeSlow
    <3>2. SlotsStay
      BY <3>1 DEF SlotsStay
    <3>3. UNCHANGED AddressQueues
      BY <1>1, <3>1, <3>2
    <3> QED BY <3>3 DEF Refines
  <2>2. CASE ~LargeEnough(Size(tables[hashtable]), count[t])
    BY <1>5, <2>2, RehashRefines DEF Refines
  <2> QED BY <2>1, <2>2
<1>6. CASE ~EnsureSizeSlow(t) /\ ~ParkEnqueue(t) /\ ~ParkDequeueSelf(t) /\ ~UnparkOneDequeue(t) /\ ~UnparkAllDequeue(t)
  <2>1. SlotsStay
    BY <1>6, SlotsStayNext
  <2>2. CASE ParkClear(t)
    <3>1. queues' = queues /\ pc[t] = "clear" /\ \A u \in Threads : u # t => address'[u] = address[u]
      BY <1>0, <2>2 DEF ParkClear
    <3>2. \A b \in BucketIds : \A u \in ToSet(queues[b]) : address'[u] = address[u]
      BY <3>1, QueuedFacts
    <3> QED BY <1>1, <2>1, <3>1, <3>2 DEF Refines
  <2>3. CASE UnparkWake(t)
    <3> DEFINE h == Head(pending[t])
    <3>1. queues' = queues /\ address' = [address EXCEPT ![h] = NoAddress]
      BY <2>3 DEF UnparkWake
    <3>2. h \in Woken
      <4>1. pending[t] \in Seq(Threads) /\ pending[t] # <<>>
        BY <2>3 DEF UnparkWake, QueueInv, InOperation, QueueTypes
      <4>2. h \in ToSet(pending[t])
        BY <4>1, TailElements
      <4> QED BY <4>2 DEF Woken
    <3> HIDE DEF h
    <3>3. \A u \in Threads : u # h => address'[u] = address[u]
      BY <1>0, <3>1
    <3>4. \A b \in BucketIds : \A u \in ToSet(queues[b]) : address'[u] = address[u]
      BY <3>2, <3>3, QueuedFacts DEF QueuedHere
    <3> QED BY <1>1, <2>1, <3>1, <3>4 DEF Refines
  <2>4. CASE Call(t) \/ ParkTimeOut(t)
    <3>1. UNCHANGED <<queues, address>>
      BY <2>4 DEF Call, ThreadDataCreate, ThreadDataDestroy, ForEachCall, ParkTimeOut, ParkCall,
         UnparkOneCall, UnparkOneCallbackCall, UnparkAllCall, UnparkCall, Begin, lots
    <3> QED BY <1>1, <2>1, <3>1 DEF Refines
  <2>5. CASE \/ EnsureSizeFast(t) \/ ForEachWalk(t)
             \/ LockHashtableFind(t) \/ LockHashtableLock(t) \/ LockHashtableDone(t)
             \/ FindBucket(t) \/ FindNoBucket(t) \/ EnterStale(t) \/ ParkInvalid(t) \/ ParkWakeUp(t)
    <3>1. UNCHANGED <<queues, address>>
      BY <2>5 DEF EnsureSizeFast, ForEachWalk, LockHashtableFind, LockHashtableLock, LockHashtableDone,
         FindBucket, FindNoBucket, EnterStale, ParkInvalid, ParkWakeUp, lots
    <3> QED BY <1>1, <2>1, <3>1 DEF Refines
  <2> QED BY <1>6, <2>2, <2>3, <2>4, <2>5 DEF Step
<1> QED
  BY <1>2, <1>3, <1>4, <1>5, <1>6

(***************************************************************************)
(* The hash table, its rehashing, and the lookups that start over when it  *)
(* was replaced, implement one first-in first-out queue per address, for   *)
(* any threads, addresses and hash function.                               *)
(***************************************************************************)
THEOREM ParkingLotImplementsParkingQueue == Spec /\ []ParksAwake => ImplementsParkingQueue
<1>1. Init => Abstract!Init
  <2> SUFFICES ASSUME Init PROVE AddressQueues = [a \in Addresses |-> <<>>]
    BY DEF Abstract!Init
  <2>1. hashtable = 0
    BY DEF Init
  <2> QED BY <2>1 DEF AddressQueues, AddressQueue
<1>2. TablesInv /\ LocksInv /\ QueueInv /\ [Next]_vars => [Abstract!Next]_AddressQueues
  <2> SUFFICES ASSUME TablesInv, LocksInv, QueueInv, [Next]_vars PROVE [Abstract!Next]_AddressQueues
    OBVIOUS
  <2>1. CASE Next
    <3>1. PICK t \in Threads : Call(t) \/ Step(t) \/ ParkTimeOut(t)
      BY <2>1 DEF Next
    <3>2. Refines(t)
      BY <3>1, StepRefines
    <3> QED BY <3>2 DEF Refines, Abstract!Next
  <2>2. CASE UNCHANGED vars
    <3>1. UNCHANGED <<tables, hashtable, queues, address>>
      BY <2>2 DEF vars, lots
    <3>2. \A a \in Addresses : QueueAfter(a) = AddressQueue(a)
      BY <3>1, AddressQueueIs DEF QueueAfter
    <3> QED BY <3>2, QueuesUnchanged
  <2> QED BY <2>1, <2>2
<1> QED
  BY <1>1, <1>2, QueuesConsistent, PTL DEF Spec, ImplementsParkingQueue, Abstract!Spec

-----------------------------------------------------------------------------
(***************************************************************************)
(* Types.  They need neither QueueInv nor ParksAwake: a thread is in the   *)
(* queue of a bucket, or among the pending threads, whoever put it there.  *)
(***************************************************************************)
TypesInv ==
  /\ QueueTypes
  /\ count \in [Threads -> 0..Cardinality(Threads)]
  /\ mine \in [Threads -> 0..Len(tables)]
  /\ \A t \in Threads : bucket[t] <= numBuckets /\ HasWork(t)
  /\ parks \in [Threads -> Nat] /\ \A t \in Threads : parks[t] <= MaxParks[t]

\* A thread that is created counts itself, and is one of Threads.
LEMMA CountNext ==
  ASSUME IsFiniteSet(Threads), LocksInv, count \in [Threads -> 0..Cardinality(Threads)],
         NEW t \in Threads, Call(t) \/ Step(t) \/ ParkTimeOut(t)
  PROVE  count' \in [Threads -> 0..Cardinality(Threads)]
<1>0. Cardinality(Threads) \in Nat /\ 0 \in 0..Cardinality(Threads)
  BY FS_CardinalityType
<1>1. CASE ThreadDataCreate(t)
  <2>1. IsFiniteSet(Live) /\ numThreads = Cardinality(Live) /\ t \notin Live
    BY <1>1 DEF LocksInv, LiveCounted, Live, ThreadDataCreate
  <2>2. Cardinality(Live \cup {t}) = numThreads + 1 /\ numThreads \in Nat
    BY <2>1, FS_AddElement, FS_CardinalityType
  <2>3. Cardinality(Live \cup {t}) <= Cardinality(Threads)
    <3>1. Live \cup {t} \subseteq Threads
      BY DEF Live
    <3> QED BY <3>1, FS_Subset
  <2>4. numThreads + 1 \in 0..Cardinality(Threads)
    BY <1>0, <2>2, <2>3
  <2>5. count' = [count EXCEPT ![t] = numThreads + 1]
    BY <1>1 DEF ThreadDataCreate
  <2> QED BY <2>4, <2>5
<1>2. CASE ~ThreadDataCreate(t)
  <2>1. count' = count \/ count' = [count EXCEPT ![t] = 0]
    <3>1. CASE Call(t) \/ ParkTimeOut(t)
      BY <1>2, <3>1 DEF Call, ThreadDataDestroy, ForEachCall, ParkTimeOut, ParkCall,
         UnparkOneCall, UnparkOneCallbackCall, UnparkAllCall, UnparkCall, Begin, locals
    <3>2. CASE EnsureSizeFast(t) \/ EnsureSizeSlow(t) \/ ForEachWalk(t)
      BY <3>2 DEF EnsureSizeFast, EnsureSizeSlow, ForEachWalk, Return, locals
    <3>3. CASE LockHashtableFind(t) \/ LockHashtableLock(t) \/ LockHashtableDone(t) \/ EnterStale(t)
      BY <3>3 DEF LockHashtableFind, LockHashtableLock, LockHashtableDone, EnterStale, locals
    <3>4. CASE FindNoBucket(t) \/ FindBucket(t)
      BY <3>4 DEF FindNoBucket, FindBucket, Return, locals
    <3>5. CASE ParkEnqueue(t) \/ ParkInvalid(t) \/ ParkWakeUp(t) \/ ParkClear(t) \/ ParkDequeueSelf(t)
      BY <3>5 DEF ParkEnqueue, ParkInvalid, ParkWakeUp, ParkClear, ParkDequeueSelf, Return
    <3>6. CASE UnparkOneDequeue(t) \/ UnparkAllDequeue(t) \/ UnparkWake(t)
      BY <3>6 DEF UnparkOneDequeue, UnparkAllDequeue, Unpark, UnparkWake, Return
    <3> QED BY <3>1, <3>2, <3>3, <3>4, <3>5, <3>6 DEF Step
  <2> QED BY <1>0, <2>1
<1> QED
  BY <1>1, <1>2

\* What becomes of the table and the bucket that t remembers, and of what it has to do.
LEMMA LocalsNext ==
  ASSUME TablesInv, LocksInv, QueueTypes, NEW t \in Threads, HasWork(t), bucket[t] <= numBuckets,
         Call(t) \/ Step(t) \/ ParkTimeOut(t)
  PROVE  /\ mine'[t] \in {0, mine[t], hashtable'}
         /\ bucket'[t] <= numBuckets' /\ HasWork(t)'
<1>0. /\ mine \in [Threads -> Nat] /\ pc \in [Threads -> PCs] /\ bucket \in [Threads -> Nat]
      /\ arg \in [Threads -> Addresses \cup {NoAddress}] /\ pending \in [Threads -> Seq(Threads)]
  BY DEF LocksInv, ThreadTypes, QueueTypes
<1>1. numBuckets \in Nat /\ numBuckets' \in Nat /\ numBuckets <= numBuckets'
  BY TablesNext DEF TablesInv, TablesOf
<1>2. ASSUME mine'[t] \in {0, mine[t], hashtable'}, pc'[t] \notin {"enter", "wake"} \/ pc'[t] = pc[t],
             \/ bucket'[t] = bucket[t] /\ pending'[t] = pending[t]
             \/ bucket'[t] = NoBucket /\ pc'[t] \notin {"enter", "wake"}
      PROVE  mine'[t] \in {0, mine[t], hashtable'} /\ bucket'[t] <= numBuckets' /\ HasWork(t)'
  <2>1. HasWork(t)'
    BY <1>0, <1>1, <1>2 DEF HasWork
  <2>2. bucket'[t] <= numBuckets'
    BY <1>0, <1>1, <1>2 DEF NoBucket
  <2> QED BY <1>2, <2>1, <2>2
<1>3. ASSUME Return(t)
      PROVE  mine'[t] = 0 /\ bucket'[t] = NoBucket /\ pc'[t] \notin {"enter", "wake"}
  BY <1>0, <1>3 DEF Return
<1>4. CASE Call(t) \/ ParkTimeOut(t)
  <2>1. UNCHANGED <<mine, bucket, pending>> /\ pc'[t] \notin {"enter", "wake"}
    BY <1>0, <1>4 DEF Call, ThreadDataCreate, ThreadDataDestroy, ForEachCall, ParkTimeOut, ParkCall,
       UnparkOneCall, UnparkOneCallbackCall, UnparkAllCall, UnparkCall, Begin, locals, Goto
  <2> QED BY <1>2, <2>1
<1>5. CASE EnsureSizeFast(t) \/ EnsureSizeSlow(t) \/ ForEachWalk(t) \/ FindNoBucket(t)
  <2>1. Return(t) \/ (UNCHANGED <<mine, bucket, pending>> /\ pc'[t] \notin {"enter", "wake"})
    BY <1>0, <1>5 DEF EnsureSizeFast, EnsureSizeSlow, ForEachWalk, FindNoBucket, locals, Goto
  <2> QED BY <1>2, <1>3, <2>1
<1>6. CASE LockHashtableFind(t)
  <2>1. mine'[t] = hashtable' /\ pc'[t] = "locking" /\ UNCHANGED <<bucket, pending>>
    BY <1>0, <1>6 DEF LockHashtableFind, Goto
  <2> QED BY <1>2, <2>1
<1>7. CASE LockHashtableLock(t) \/ LockHashtableDone(t) \/ EnterStale(t)
  <2>1. UNCHANGED <<mine, bucket, pending>> /\ (pc'[t] = pc[t] \/ pc'[t] \notin {"enter", "wake"})
    BY <1>0, <1>7 DEF LockHashtableLock, LockHashtableDone, EnterStale, locals, Goto
  <2> QED BY <1>2, <2>1
<1>8. CASE FindBucket(t)
  <2>1. mine' = [mine EXCEPT ![t] = hashtable'] /\ bucket'[t] \in 1..numBuckets'
    BY <1>0, <1>8, FindBucketTables
  <2>2. pc'[t] = "enter"
    BY <1>0, <1>8 DEF FindBucket, Goto
  <2> QED BY <1>0, <1>1, <2>1, <2>2 DEF HasWork
<1>9. CASE ParkEnqueue(t)
  <2>1. mine'[t] = 0 /\ bucket'[t] = NoBucket /\ pc'[t] = "parked"
    BY <1>0, <1>9 DEF ParkEnqueue, Goto
  <2> QED BY <1>2, <2>1
<1>10. CASE ParkInvalid(t) \/ ParkWakeUp(t) \/ ParkClear(t)
  BY <1>2, <1>3, <1>10 DEF ParkInvalid, ParkWakeUp, ParkClear
<1>11. CASE ParkDequeueSelf(t)
  <2>1. UNCHANGED <<mine, bucket, pending>> /\ pc'[t] = "clear"
    BY <1>0, <1>11 DEF ParkDequeueSelf, Goto
  <2> QED BY <1>2, <2>1
<1>12. CASE UnparkOneDequeue(t) \/ UnparkAllDequeue(t)
  <2>1. PICK woken, rest : Unpark(t, woken, rest)
    BY <1>12 DEF UnparkOneDequeue, UnparkAllDequeue
  <2>2. CASE woken = <<>>
    <3>1. Return(t)
      BY <2>1, <2>2 DEF Unpark
    <3> QED BY <1>2, <1>3, <3>1
  <2>3. CASE woken # <<>>
    <3>1. UNCHANGED <<mine, bucket>> /\ pc'[t] = "wake" /\ pending'[t] = woken
      BY <1>0, <2>1, <2>3 DEF Unpark, Goto
    <3> QED BY <1>0, <1>1, <2>3, <3>1 DEF HasWork
  <2> QED BY <2>2, <2>3
<1>13. CASE UnparkWake(t)
  <2>1. CASE Len(pending[t]) = 1
    BY <1>2, <1>3, <1>13, <2>1 DEF UnparkWake
  <2>2. CASE Len(pending[t]) # 1
    <3>1. UNCHANGED <<mine, bucket, pc>> /\ pc[t] = "wake" /\ pending'[t] = Tail(pending[t])
      BY <1>0, <1>13, <2>2 DEF UnparkWake
    <3>2. pending[t] \in Seq(Threads) /\ pending[t] # <<>>
      BY <1>0, <3>1 DEF HasWork
    <3>3. Tail(pending[t]) # <<>>
      <4> DEFINE s == pending[t]
      <4>1. Len(s) \in Nat /\ Len(s) # 0 /\ Len(s) # 1
        BY <2>2, <3>2
      <4>2. Len(Tail(s)) = Len(s) - 1
        BY <3>2, <4>1
      <4>3. Len(Tail(s)) # 0
        <5> HIDE DEF s
        <5> QED BY <4>1, <4>2
      <4>4. Len(<<>>) = 0
        OBVIOUS
      <4> QED BY <4>3, <4>4
    <3>4. bucket'[t] <= numBuckets' /\ mine'[t] = mine[t]
      BY <1>0, <1>1, <3>1
    <3>5. HasWork(t)'
      BY <3>1, <3>3 DEF HasWork
    <3> QED BY <3>4, <3>5
  <2> QED BY <2>1, <2>2
<1> QED
  BY <1>4, <1>5, <1>6, <1>7, <1>8, <1>9, <1>10, <1>11, <1>12, <1>13 DEF Step

LEMMA TypesNext ==
  ASSUME IsFiniteSet(Threads), TablesInv, LocksInv, TypesInv, [Next]_vars
  PROVE  TypesInv'
<1>1. ASSUME NEW t \in Threads, Call(t) \/ Step(t) \/ ParkTimeOut(t) PROVE TypesInv'
  <2>0. QueueTypes /\ HasWork(t) /\ bucket[t] <= numBuckets
    BY DEF TypesInv
  <2>1. QueueTypes' /\ OthersSame(t)
    BY <1>1, <2>0, QueueTypesNext, OthersSameNext
  <2>2. count' \in [Threads -> 0..Cardinality(Threads)]
    BY <1>1, CountNext DEF TypesInv
  <2>3. /\ TablesInv' /\ LocksInv' /\ Len(tables) \in Nat /\ Len(tables') \in Nat /\ Len(tables) <= Len(tables')
        /\ hashtable' = Len(tables') /\ numBuckets \in Nat /\ numBuckets' \in Nat /\ numBuckets <= numBuckets'
    BY <1>1, TablesNext, LocksNext DEF TablesInv, TablesOf, Grown
  <2>4. mine'[t] \in {0, mine[t], hashtable'} /\ bucket'[t] <= numBuckets' /\ HasWork(t)'
    BY <1>1, <2>0, LocalsNext
  <2>5. mine' \in [Threads -> 0..Len(tables')]
    <3>1. mine' \in [Threads -> Nat] /\ mine \in [Threads -> 0..Len(tables)]
      BY <2>3 DEF LocksInv, ThreadTypes, TypesInv
    <3>2. \A u \in Threads : mine'[u] \in 0..Len(tables')
      BY <2>1, <2>3, <2>4, <3>1 DEF OthersSame
    <3> QED BY <3>1, <3>2
  <2>6. ASSUME NEW u \in Threads, u # t PROVE bucket'[u] <= numBuckets' /\ HasWork(u)'
    <3>1. pc'[u] = pc[u] /\ bucket'[u] = bucket[u] /\ pending'[u] = pending[u]
      BY <2>1, <2>6 DEF OthersSame
    <3>2. bucket[u] \in Nat /\ bucket[u] <= numBuckets /\ HasWork(u)
      BY DEF TypesInv, QueueTypes
    <3> QED BY <2>3, <3>1, <3>2 DEF HasWork
  <2>7. parks' \in [Threads -> Nat] /\ \A u \in Threads : parks'[u] <= MaxParks[u]
    <3>1. parks \in [Threads -> Nat] /\ \A u \in Threads : parks[u] <= MaxParks[u] /\ MaxParks[u] \in Nat
      BY ConstantsAssumption DEF TypesInv
    <3>2. CASE parks' = parks
      BY <3>1, <3>2
    <3>3. ASSUME NEW a \in Addresses, ParkCall(t, a)
          PROVE  parks' \in [Threads -> Nat] /\ \A u \in Threads : parks'[u] <= MaxParks[u]
      <4>1. parks[t] < MaxParks[t] /\ parks' = [parks EXCEPT ![t] = parks[t] + 1]
        BY <3>3 DEF ParkCall
      <4> QED BY <3>1, <4>1
    <3> QED BY <1>1, <3>1, <3>2, <3>3, ParksKept
  <2> QED BY <2>1, <2>2, <2>4, <2>5, <2>6, <2>7 DEF TypesInv
<1>2. CASE UNCHANGED vars
  BY <1>2 DEF vars, lots, locals, TypesInv, QueueTypes, HasWork
<1> QED
  BY <1>1, <1>2 DEF Next

LEMMA InitTypes ==
  ASSUME IsFiniteSet(Threads), Init
  PROVE  TypesInv
<1>1. Cardinality(Threads) \in Nat /\ MaxParks \in [Threads -> Nat]
  BY FS_CardinalityType, ConstantsAssumption
<1>2. QueueTypes
  BY DEF Init, QueueTypes, NoBucket
<1> QED
  BY <1>1, <1>2 DEF Init, TypesInv, HasWork, NoBucket

LEMMA TypesMean ==
  ASSUME TablesInv, LocksInv, TypesInv
  PROVE  TypeOK
<1>1. hashtable \in 0..Len(tables) /\ numBuckets \in 0..MaxBuckets /\ numBuckets \in Nat
  BY DEF TablesInv, TablesOf
<1>2. ASSUME NEW k \in DOMAIN tables
      PROVE  DOMAIN tables[k] = 0..(Size(tables[k]) - 1) /\ BucketsOf(tables[k]) \subseteq 0..numBuckets
  <2>1. tables \in Seq(Tables) /\ k \in 1..Len(tables) /\ BucketsOf(tables[k]) \subseteq 0..numBuckets
    BY DEF TablesInv, TablesOf
  <2>2. tables[k] \in Tables
    BY <2>1
  <2> QED BY <2>1, <2>2, TableFacts
<1>3. numThreads = Cardinality({t \in Threads : pc[t] # "none"})
  BY DEF LocksInv, LiveCounted, Live
<1>4. bucket \in [Threads -> 0..numBuckets]
  BY <1>1 DEF TypesInv, QueueTypes
<1>5. \A t \in Threads : parks[t] \in 0..MaxParks[t]
  BY ConstantsAssumption DEF TypesInv
<1> QED
  BY <1>1, <1>2, <1>3, <1>4, <1>5 DEF TypeOK, LocksInv, ThreadTypes, TypesInv, QueueTypes

(***************************************************************************)
(* Type correctness, whatever the threads do: a stale index of a table or  *)
(* of a bucket is one of a table or bucket that exists, since neither is   *)
(* ever freed, and numThreads is the number of threads with a ThreadData.  *)
(***************************************************************************)
THEOREM TypeCorrect ==
  ASSUME IsFiniteSet(Threads)
  PROVE  Spec => []TypeOK
<1> DEFINE J == TablesInv /\ LocksInv /\ TypesInv
<1>1. Init => J
  BY InitTablesLocks, InitTypes
<1>2. J /\ [Next]_vars => J'
  BY NextTablesLocks, TypesNext
<1>3. J => TypeOK
  BY TypesMean
<1> QED
  BY <1>1, <1>2, <1>3, PTL DEF Spec

-----------------------------------------------------------------------------
(***************************************************************************)
(* Everything together, without a condition on the behaviour: if no thread *)
(* that parks with a timeout does so twice (as when there is no timeout at *)
(* all), no unpark misses a thread, no thread returns while it is on a     *)
(* queue, timeouts are reported truthfully, and the hash table implements  *)
(* one queue per address.                                                  *)
(***************************************************************************)
THEOREM ParkingLotCorrect ==
  ASSUME \A t \in Timed : MaxParks[t] <= 1
  PROVE  Spec => /\ []NoStrandedThread /\ []QueuedOnlyWhileParked /\ []TimeoutVerdict
                 /\ ImplementsParkingQueue
<1> QED
  BY ParksAwakeAlways, NoStrandedThreadAlways, QueuedOnlyWhileParkedAlways, TimeoutVerdictAlways,
     ParkingLotImplementsParkingQueue, PTL
=============================================================================
