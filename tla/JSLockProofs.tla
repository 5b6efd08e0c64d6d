---------------------------- MODULE JSLockProofs ----------------------------
(***************************************************************************)
(* For any number of threads and scopes: the lock count of the thread      *)
(* inside is the number of its JSLockHolders that no drop took from it,    *)
(* the pending drops have the depths from 1 up without a gap, and what the *)
(* VM knows of the thread inside is about that thread.                     *)
(*                                                                         *)
(* The argument is about the stack of scopes of each thread.  Every drop   *)
(* remembers exactly the JSLockHolders below it that the thread held then, *)
(* and every unlock() that has not returned gives up exactly those that    *)
(* the thread holds.  Both stay true while scopes are opened and closed    *)
(* above them, so it does not matter what microtasks do in between.        *)
(***************************************************************************)
EXTENDS JSLock, FiniteSetTheorems, TLAPS

Steps == {"drainMicrotasks", "release", "return"}
Callers == {"JSLockHolder", "dropAllLocks", "grabAllLocks"}

HolderFrames == [kind : {"JSLockHolder"}]
DropFrames   == [kind : {"DropAllLocks"}, count : Nat, depth : Nat]
UnlockFrames == [kind : {"unlock"}, count : Nat, caller : Callers, step : Steps]
Frames       == HolderFrames \cup DropFrames \cup UnlockFrames

TypeInv ==
  /\ mutex \in Threads \cup {NoThread} /\ ownerThreadID \in Threads \cup {NoThread}
  /\ lockCount \in Nat /\ lockDropDepth \in Nat
  /\ hasExclusiveThread \in BOOLEAN
  /\ entryTable \in Threads \cup {OwnTable, NoTable} /\ vmTable \in Threads \cup {OwnTable}
  /\ stackPointer \in Threads \cup {NoThread} /\ lastStackTop \in Threads \cup {NoThread}
  /\ registered \subseteq Threads
  /\ savedStackPointer \in [Threads -> Threads \cup {NoThread}]
  /\ savedLastStackTop \in [Threads -> Threads \cup {NoThread}]
  /\ table \in [Threads -> Threads \cup {OwnTable}]
  /\ frames \in [Threads -> Seq(Frames)]
  /\ pc \in [Threads -> {"run", "lock", "grab", "checkDepth"}]
  /\ scopes \in [Threads -> Nat] /\ \A t \in Threads : scopes[t] <= MaxScopes[t]

-----------------------------------------------------------------------------
(***************************************************************************)
(* One stack of scopes, f.                                                 *)
(***************************************************************************)
IsHolder(f, i) == f[i].kind = "JSLockHolder"
IsDrop(f, i)   == f[i].kind = "DropAllLocks" /\ f[i].count > 0
IsUnlock(f, i) == f[i].kind = "unlock"

\* Drop j, which is not the innermost scope, is in effect.
Effective(f, j) == IsDrop(f, j) /\ ~IsUnlock(f, j + 1)

\* The JSLockHolders below scope i that the thread held when it opened i.
Below(f, i) ==
  {k \in 1..(i - 1) : IsHolder(f, k) /\ \A j \in 1..(i - 1) : Effective(f, j) => j < k}

\* The JSLockHolders of a thread that no drop but the innermost scope took from it.
Kept(f) ==
  {k \in 1..Len(f) : IsHolder(f, k) /\ \A j \in 1..(Len(f) - 1) : Effective(f, j) => j < k}

\* Those that it holds, unless it is about to end a drop.
Held(f) == {k \in Kept(f) : ~IsDrop(f, Len(f))}

\* Drop i remembers what the thread held.
DropOK(f, i) == IsDrop(f, i) => f[i].count = Cardinality(Below(f, i))

\* The unlock() at i gives up what the thread holds, and returns to the scope below.
UnlockOK(f, i) ==
  IsUnlock(f, i) =>
    /\ i > 1
    /\ f[i].caller = "JSLockHolder" =>
         IsHolder(f, i - 1) /\ f[i].count = 1 /\ Below(f, i) = {i - 1}
    /\ f[i].caller # "JSLockHolder" =>
         IsDrop(f, i - 1) /\ f[i].count = f[i - 1].count

StackOK(f) == \A i \in 1..Len(f) : DropOK(f, i) /\ UnlockOK(f, i)

-----------------------------------------------------------------------------
(***************************************************************************)
(* The inductive invariant.                                                *)
(***************************************************************************)
ControlOK(t) ==
  /\ pc[t] \in {"grab", "checkDepth"} => frames[t] # <<>> /\ IsDrop(frames[t], Len(frames[t]))
  /\ pc[t] = "lock" => frames[t] # <<>> /\ IsHolder(frames[t], Len(frames[t]))
  /\ hasExclusiveThread =>
       /\ pc[t] = "run"
       /\ \A i \in 1..Len(frames[t]) : ~IsDrop(frames[t], i)
       /\ ownerThreadID # t => frames[t] = <<>>

CountOK(t) ==
  IF ownerThreadID = t
    THEN /\ pc[t] \notin {"lock", "grab"}
         /\ lockCount = Cardinality(IF pc[t] = "checkDepth" THEN Kept(frames[t]) ELSE Held(frames[t]))
    ELSE /\ pc[t] # "checkDepth"
         /\ Held(frames[t]) = IF pc[t] = "lock" THEN {Len(frames[t])} ELSE {}

OwnerOK ==
  /\ ownerThreadID = NoThread => lockCount = 0
  /\ hasExclusiveThread => ownerThreadID # NoThread
  /\ ~hasExclusiveThread => mutex = ownerThreadID /\ (ownerThreadID # NoThread => lockCount > 0)

LockInv == OwnerOK /\ \A t \in Threads : StackOK(frames[t]) /\ ControlOK(t) /\ CountOK(t)

\* The drops and the releasing calls of unlock() on a stack, and the index of each in A, of all threads.
DropsIn(f)     == {i \in 1..Len(f) : IsDrop(f, i)}
ReleasesIn(f)  == {i \in 1..Len(f) : IsUnlock(f, i) /\ f[i].step # "drainMicrotasks"}
AllPairs(A)    == UNION {{<<t, i>> : i \in A[t]} : t \in Threads}
AllDrops       == AllPairs([t \in Threads |-> DropsIn(frames[t])])
AllReleases    == AllPairs([t \in Threads |-> ReleasesIn(frames[t])])
DepthOf(d)     == frames[d[1]][d[2]].depth

DropInv ==
  /\ IsFiniteSet(AllDrops)
  /\ Cardinality(AllDrops) = lockDropDepth
  /\ {DepthOf(d) : d \in AllDrops} = 1..lockDropDepth
  /\ \A d, e \in AllDrops : DepthOf(d) = DepthOf(e) => d = e

ReleaseInv == IsFiniteSet(AllReleases) /\ Cardinality(AllReleases) = delayedReleases

\* An unlock() of dropAllLocks() has not returned.
Dropping(f) == \E i \in 1..Len(f) : IsUnlock(f, i) /\ f[i].caller = "dropAllLocks"

EntryInv ==
  /\ \A t \in Threads :
       savedLastStackTop[t] = t /\ (DropsIn(frames[t]) # {} => savedStackPointer[t] = t)
  /\ lockCount = 0 => stackPointer = NoThread /\ entryTable = NoTable
  /\ lockCount > 0 => /\ stackPointer = ownerThreadID /\ lastStackTop = ownerThreadID
                      /\ ownerThreadID \in registered
  /\ hasExclusiveThread =>
       /\ vmTable = ownerThreadID /\ table[ownerThreadID] = ownerThreadID
       /\ entryTable \in {NoTable, ownerThreadID}
  /\ \A t \in Threads : ownerThreadID = t /\ ~Dropping(frames[t]) => table[t] = vmTable

IInv == TypeInv /\ LockInv /\ DropInv /\ ReleaseInv /\ EntryInv

-----------------------------------------------------------------------------
(***************************************************************************)
(* Frames, and what pushing one does to a stack.                           *)
(***************************************************************************)

\* Every frame has the fields of its kind.
LEMMA FrameFields ==
  ASSUME NEW x \in Frames
  PROVE  /\ x.kind \in {"JSLockHolder", "DropAllLocks", "unlock"}
         /\ x.kind = "DropAllLocks" => x.count \in Nat /\ x.depth \in Nat
         /\ x.kind = "unlock" => x.count \in Nat /\ x.caller \in Callers /\ x.step \in Steps
         /\ x.kind = "JSLockHolder" => x = Holder
BY DEF Frames, HolderFrames, DropFrames, UnlockFrames, Holder

\* The frames that the scopes and unlock() push.
LEMMA HolderFrame == Holder \in Frames /\ Holder.kind = "JSLockHolder"
BY DEF Holder, Frames, HolderFrames

LEMMA DropFrame ==
  ASSUME NEW c \in Nat, NEW d \in Nat
  PROVE  /\ Dropped(c, d) \in Frames /\ Dropped(c, d).kind = "DropAllLocks"
         /\ Dropped(c, d).count = c /\ Dropped(c, d).depth = d
BY DEF Dropped, Frames, DropFrames

LEMMA UnlockFrame ==
  ASSUME NEW c \in Nat, NEW caller \in Callers
  PROVE  /\ Unlocking(c, caller) \in Frames /\ Unlocking(c, caller).kind = "unlock"
         /\ Unlocking(c, caller).count = c /\ Unlocking(c, caller).caller = caller
         /\ Unlocking(c, caller).step = "drainMicrotasks"
BY DEF Unlocking, Frames, UnlockFrames, Steps

\* g is the stack f with e on top.
Pushed(g, f, e) ==
  /\ f \in Seq(Frames) /\ g \in Seq(Frames) /\ e \in Frames
  /\ Len(g) = Len(f) + 1 /\ g[Len(g)] = e
  /\ \A k \in 1..Len(f) : g[k] = f[k]

LEMMA PushedAppend ==
  ASSUME NEW f \in Seq(Frames), NEW e \in Frames
  PROVE  Pushed(Append(f, e), f, e)
BY DEF Pushed

LEMMA PushedFront ==
  ASSUME NEW f \in Seq(Frames), f # <<>>
  PROVE  Pushed(f, Front(f), Last(f)) /\ Last(f) = f[Len(f)]
<1>1. Len(f) \in Nat /\ Len(f) > 0
  OBVIOUS
<1>2. Last(f) \in Frames /\ Last(f) = f[Len(f)]
  BY <1>1 DEF Last
<1>3. Front(f) \in Seq(Frames) /\ Len(Front(f)) = Len(f) - 1
  <2>1. Front(f) = [i \in 1..(Len(f) - 1) |-> f[i]]
    BY <1>1 DEF Front
  <2>2. \A i \in 1..(Len(f) - 1) : f[i] \in Frames
    BY <1>1
  <2> QED BY <1>1, <2>1, <2>2
<1>4. \A k \in 1..(Len(f) - 1) : Front(f)[k] = f[k]
  BY <1>1 DEF Front
<1> QED BY <1>1, <1>2, <1>3, <1>4 DEF Pushed

\* Two scopes that differ in the step of unlock() at most.
Alike(x, y) ==
  /\ x.kind = y.kind
  /\ x.kind # "JSLockHolder" => x.count = y.count
  /\ x.kind = "DropAllLocks" => x.depth = y.depth
  /\ x.kind = "unlock" => x.caller = y.caller

\* What a scope remembers depends only on the scopes up to it.
LEMMA BelowAlike ==
  ASSUME NEW f, NEW g, NEW m \in Nat, \A k \in 1..m : Alike(f[k], g[k]), NEW i \in 1..m
  PROVE  Below(f, i) = Below(g, i)
<1>1. \A k \in 1..m : /\ IsHolder(f, k) <=> IsHolder(g, k)
                      /\ IsDrop(f, k) <=> IsDrop(g, k)
                      /\ IsUnlock(f, k) <=> IsUnlock(g, k)
  BY DEF Alike, IsHolder, IsDrop, IsUnlock
<1>2. \A j \in 1..(i - 1) : j \in 1..m /\ j + 1 \in 1..m
  OBVIOUS
<1>3. \A j \in 1..(i - 1) : Effective(f, j) <=> Effective(g, j)
  BY <1>1, <1>2 DEF Effective
<1> QED BY <1>1, <1>2, <1>3 DEF Below

LEMMA ScopeAlike ==
  ASSUME NEW f, NEW g, NEW m \in Nat, \A k \in 1..m : Alike(f[k], g[k]), NEW i \in 1..m,
         DropOK(f, i), UnlockOK(f, i)
  PROVE  DropOK(g, i) /\ UnlockOK(g, i)
<1>1. Below(f, i) = Below(g, i)
  BY BelowAlike
<1>2. Alike(f[i], g[i]) /\ (i > 1 => Alike(f[i - 1], g[i - 1]))
  OBVIOUS
<1>3. DropOK(g, i)
  BY <1>1, <1>2 DEF DropOK, Alike, IsDrop
<1>4. UnlockOK(g, i)
  BY <1>1, <1>2 DEF UnlockOK, Alike, IsDrop, IsUnlock, IsHolder
<1> QED BY <1>3, <1>4

LEMMA StackPush ==
  ASSUME NEW f, NEW g, NEW e, Pushed(g, f, e), StackOK(f), DropOK(g, Len(g)), UnlockOK(g, Len(g))
  PROVE  StackOK(g)
<1>1. Len(f) \in Nat /\ Len(g) = Len(f) + 1 /\ \A k \in 1..Len(f) : Alike(f[k], g[k])
  BY DEF Pushed, Alike
<1>2. ASSUME NEW i \in 1..Len(f) PROVE DropOK(g, i) /\ UnlockOK(g, i)
  BY <1>1, ScopeAlike DEF StackOK
<1> QED BY <1>1, <1>2 DEF StackOK

LEMMA StackPop ==
  ASSUME NEW f, NEW g, NEW e, Pushed(g, f, e), StackOK(g)
  PROVE  StackOK(f)
<1>1. Len(f) \in Nat /\ Len(g) = Len(f) + 1 /\ \A k \in 1..Len(f) : Alike(g[k], f[k])
  BY DEF Pushed, Alike
<1>2. ASSUME NEW i \in 1..Len(f) PROVE DropOK(f, i) /\ UnlockOK(f, i)
  <2>1. i \in 1..Len(g)
    BY <1>1
  <2> QED BY <1>1, <2>1, ScopeAlike DEF StackOK
<1> QED BY <1>2 DEF StackOK

LEMMA KeptFinite ==
  ASSUME NEW f \in Seq(Frames)
  PROVE  /\ IsFiniteSet(Kept(f)) /\ Kept(f) \subseteq 1..Len(f)
         /\ IsFiniteSet(Held(f)) /\ Held(f) \subseteq 1..Len(f)
<1>1. IsFiniteSet(1..Len(f))
  BY FS_Interval
<1>2. Kept(f) \subseteq 1..Len(f)
  BY DEF Kept
<1>3. Held(f) \subseteq 1..Len(f)
  BY <1>2 DEF Held
<1> QED BY <1>1, <1>2, <1>3, FS_Subset

\* What the drops below the top mean is the same before and after a push.
LEMMA EffectivePush ==
  ASSUME NEW f, NEW g, NEW e, Pushed(g, f, e)
  PROVE  /\ \A k \in 1..Len(f) : (IsHolder(g, k) <=> IsHolder(f, k)) /\ (IsDrop(g, k) <=> IsDrop(f, k))
         /\ \A j \in 1..(Len(f) - 1) : Effective(g, j) <=> Effective(f, j)
         /\ Len(f) > 0 => (Effective(g, Len(f)) <=> IsDrop(f, Len(f)) /\ e.kind # "unlock")
<1>1. Len(f) \in Nat /\ Len(g) = Len(f) + 1 /\ g[Len(f) + 1] = e /\ \A k \in 1..Len(f) : g[k] = f[k]
  BY DEF Pushed
<1>2. \A k \in 1..Len(f) : /\ IsHolder(g, k) <=> IsHolder(f, k)
                           /\ IsDrop(g, k) <=> IsDrop(f, k)
                           /\ IsUnlock(g, k) <=> IsUnlock(f, k)
  BY <1>1 DEF IsHolder, IsDrop, IsUnlock
<1>3. \A j \in 1..(Len(f) - 1) : j \in 1..Len(f) /\ j + 1 \in 1..Len(f)
  BY <1>1
<1>4. IsUnlock(g, Len(f) + 1) <=> e.kind = "unlock"
  BY <1>1 DEF IsUnlock
<1>5. \A j \in 1..(Len(f) - 1) : Effective(g, j) <=> Effective(f, j)
  BY <1>2, <1>3 DEF Effective
<1>6. Len(f) > 0 => (Effective(g, Len(f)) <=> IsDrop(f, Len(f)) /\ e.kind # "unlock")
  BY <1>1, <1>2, <1>4 DEF Effective
<1> QED BY <1>2, <1>5, <1>6

\* A JSLockHolder is held by the thread that opens it.
LEMMA HeldHolder ==
  ASSUME NEW f, NEW g, NEW e, Pushed(g, f, e), e.kind = "JSLockHolder"
  PROVE  /\ Held(g) = Held(f) \cup {Len(g)}
         /\ Kept(g) = Held(g)
         /\ Len(g) \notin Held(f)
<1>1. Len(f) \in Nat /\ Len(g) = Len(f) + 1 /\ IsHolder(g, Len(g)) /\ ~IsDrop(g, Len(g))
  BY DEF Pushed, IsHolder, IsDrop
<1>2. Len(g) \notin Held(f)
  BY <1>1 DEF Kept, Held
<1>3. Kept(g) = Held(g)
  BY <1>1 DEF Kept, Held
<1>4. ASSUME NEW k \in 1..Len(f) PROVE k \in Held(g) <=> k \in Held(f)
  <2>1. k \in Held(g) <=> IsHolder(g, k) /\ \A j \in 1..Len(f) : Effective(g, j) => j < k
    BY <1>1 DEF Kept, Held
  <2>2. (\A j \in 1..Len(f) : Effective(g, j) => j < k)
          <=> (\A j \in 1..(Len(f) - 1) : Effective(g, j) => j < k) /\ ~Effective(g, Len(f))
    BY <1>1
  <2> QED BY <1>1, <2>1, <2>2, EffectivePush DEF Kept, Held
<1>5. Len(g) \in Held(g)
  BY <1>1 DEF Kept, Held
<1>6. Held(f) \subseteq 1..Len(f) /\ Held(g) \subseteq 1..Len(f) \cup {Len(g)}
  BY <1>1 DEF Kept, Held
<1> QED BY <1>2, <1>3, <1>4, <1>5, <1>6

\* A drop remembers what the thread holds, and takes all of it when it is in effect.
LEMMA HeldDrop ==
  ASSUME NEW f, NEW g, NEW e, Pushed(g, f, e), e.kind = "DropAllLocks"
  PROVE  /\ Kept(g) = Held(f)
         /\ Below(g, Len(g)) = Held(f)
         /\ Held(g) = IF e.count > 0 THEN {} ELSE Held(f)
<1>1. /\ Len(f) \in Nat /\ Len(g) = Len(f) + 1 /\ ~IsHolder(g, Len(g))
      /\ IsDrop(g, Len(g)) <=> e.count > 0
  BY DEF Pushed, IsHolder, IsDrop
<1>2. ASSUME NEW k \in 1..Len(f) PROVE k \in Kept(g) <=> k \in Held(f)
  <2>1. k \in Kept(g) <=> IsHolder(g, k) /\ \A j \in 1..Len(f) : Effective(g, j) => j < k
    BY <1>1 DEF Kept, Held
  <2>2. (\A j \in 1..Len(f) : Effective(g, j) => j < k)
          <=> (\A j \in 1..(Len(f) - 1) : Effective(g, j) => j < k) /\ ~Effective(g, Len(f))
    BY <1>1
  <2> QED BY <1>1, <2>1, <2>2, EffectivePush DEF Kept, Held
<1>3. Held(f) \subseteq 1..Len(f) /\ Kept(g) \subseteq 1..Len(f)
  BY <1>1 DEF Kept, Held
<1>4. Below(g, Len(g)) = Kept(g)
  BY <1>1 DEF Kept, Held, Below
<1>5. Held(g) = IF e.count > 0 THEN {} ELSE Kept(g)
  BY <1>1 DEF Kept, Held
<1>6. Kept(g) = Held(f)
  BY <1>2, <1>3
<1> QED BY <1>4, <1>5, <1>6

\* unlock() changes nothing when it starts; a drop below it is not in effect.
LEMMA HeldUnlock ==
  ASSUME NEW f, NEW g, NEW e, Pushed(g, f, e), e.kind = "unlock"
  PROVE  /\ Kept(g) = Kept(f) /\ Held(g) = Kept(f)
         /\ Below(g, Len(g)) = Kept(f)
<1>1. Len(f) \in Nat /\ Len(g) = Len(f) + 1 /\ ~IsHolder(g, Len(g)) /\ ~IsDrop(g, Len(g))
  BY DEF Pushed, IsHolder, IsDrop
<1>2. ASSUME NEW k \in 1..Len(f) PROVE k \in Kept(g) <=> k \in Kept(f)
  <2>1. k \in Kept(g) <=> IsHolder(g, k) /\ \A j \in 1..Len(f) : Effective(g, j) => j < k
    BY <1>1 DEF Kept, Held
  <2>2. (\A j \in 1..Len(f) : Effective(g, j) => j < k)
          <=> (\A j \in 1..(Len(f) - 1) : Effective(g, j) => j < k)
    BY <1>1, EffectivePush
  <2> QED BY <1>1, <2>1, <2>2, EffectivePush DEF Kept, Held
<1>3. Kept(f) \subseteq 1..Len(f) /\ Kept(g) \subseteq 1..Len(f)
  BY <1>1 DEF Kept, Held
<1>4. Below(g, Len(g)) = Kept(g) /\ Held(g) = Kept(g)
  BY <1>1 DEF Kept, Held, Below
<1> QED BY <1>2, <1>3, <1>4

\* The innermost scope matters only if it is a drop.
LEMMA HeldTop ==
  ASSUME NEW f
  PROVE  /\ ~IsDrop(f, Len(f)) => Kept(f) = Held(f)
         /\ IsDrop(f, Len(f)) => Held(f) = {}
BY DEF Kept, Held

-----------------------------------------------------------------------------
(***************************************************************************)
(* Who holds the lock.                                                     *)
(***************************************************************************)

\* A thread that runs and whose innermost scope is a JSLockHolder or an
\* unlock() is the thread inside; unlock() is about to give up all its locks.
LEMMA OwnerOfTop ==
  ASSUME TypeInv, LockInv, NEW t \in Threads, pc[t] = "run", frames[t] # <<>>
  PROVE  LET f == frames[t] IN
         /\ IsHolder(f, Len(f)) =>
              ownerThreadID = t /\ Len(f) \in Held(f) /\ lockCount = Cardinality(Held(f))
         /\ IsUnlock(f, Len(f)) =>
              /\ ownerThreadID = t /\ lockCount = Cardinality(Held(f))
              /\ lockCount = f[Len(f)].count /\ lockCount > 0
<1> DEFINE f == frames[t]  n == Len(f)  e == Front(f)
<1>1. f \in Seq(Frames) /\ n \in Nat /\ n > 0 /\ n = Len(f)
  BY DEF TypeInv
<1>2. StackOK(f) /\ CountOK(t) 
  BY DEF LockInv
<1>3. Pushed(f, e, f[n]) /\ Len(e) = n - 1 /\ e \in Seq(Frames)
  BY <1>1, PushedFront DEF Pushed
<1>4. Held(f) # {} => ownerThreadID = t
  BY <1>2 DEF CountOK
<1>5. ownerThreadID = t => lockCount = Cardinality(Held(f))
  BY <1>2 DEF CountOK
<1> HIDE DEF f, n, e
<1>6. ASSUME IsHolder(f, n) PROVE n \in Held(f)
  BY <1>1, <1>3, <1>6, HeldHolder DEF IsHolder
<1>7. ASSUME IsUnlock(f, n)
      PROVE  /\ Cardinality(Held(f)) = f[n].count /\ f[n].count > 0
             /\ Held(f) # {}
  <2>1. UnlockOK(f, n) /\ n > 1
    BY <1>1, <1>2, <1>7 DEF StackOK, UnlockOK
  <2>2. Held(f) = Below(f, n) /\ Held(f) = Kept(e)
    BY <1>1, <1>3, <1>7, HeldUnlock DEF IsUnlock
  <2>3. CASE f[n].caller = "JSLockHolder"
    <3>1. Below(f, n) = {n - 1} /\ f[n].count = 1
      BY <1>7, <2>1, <2>3 DEF UnlockOK
    <3>2. Cardinality({n - 1}) = 1
      BY FS_Singleton
    <3> QED BY <3>1, <3>2, <2>2
  <2>4. CASE f[n].caller # "JSLockHolder"
    <3>1. IsDrop(f, n - 1) /\ f[n].count = f[n - 1].count
      BY <1>7, <2>1, <2>4 DEF UnlockOK
    <3>2. e[n - 1] = f[n - 1] /\ IsDrop(e, n - 1) /\ e # <<>>
      <4>1. n - 1 \in 1..Len(e) /\ Len(e) > 0
        BY <1>1, <1>3, <2>1
      <4>2. e[n - 1] = f[n - 1]
        BY <1>3, <4>1 DEF Pushed
      <4>3. e # <<>>
        BY <1>3, <4>1
      <4> QED BY <3>1, <4>2, <4>3 DEF IsDrop
    <3>3. Pushed(e, Front(e), e[n - 1])
      BY <1>3, <3>2, PushedFront
    <3>4. Kept(e) = Below(e, n - 1)
      BY <1>3, <3>2, <3>3, HeldDrop DEF IsDrop
    <3>5. n - 1 \in 1..(n - 1) /\ n - 1 \in Nat /\ n - 1 \in 1..n
      BY <1>1, <2>1
    <3>6. \A k \in 1..(n - 1) : Alike(e[k], f[k])
      BY <1>3 DEF Pushed, Alike
    <3>7. Below(e, n - 1) = Below(f, n - 1)
      BY <3>5, <3>6, BelowAlike
    <3>8. DropOK(f, n - 1)
      BY <1>1, <1>2, <3>5 DEF StackOK
    <3>9. f[n - 1].count = Cardinality(Below(f, n - 1)) /\ f[n - 1].count > 0
      BY <3>1, <3>8 DEF DropOK, IsDrop
    <3>10. Cardinality({}) = 0
      BY FS_EmptySet
    <3>11. Held(f) = Below(f, n - 1)
      BY <2>2, <3>4, <3>7
    <3>12. Cardinality(Held(f)) = f[n].count /\ f[n].count > 0
      BY <3>1, <3>9, <3>11
    <3>13. ASSUME Held(f) = {} PROVE FALSE
      BY <3>10, <3>12, <3>13
    <3> QED BY <3>12, <3>13
  <2> QED BY <2>3, <2>4
<1> QED BY <1>4, <1>5, <1>6, <1>7 DEF f, n

\* currentThreadIsHoldingLock(), for a thread that may use the VM.
LEMMA HoldingIsOwner ==
  ASSUME TypeInv, LockInv, NEW t \in Threads, hasExclusiveThread => ownerThreadID = t
  PROVE  /\ CurrentThreadIsHoldingLock(t) => ownerThreadID = t /\ lockCount > 0
         /\ ~CurrentThreadIsHoldingLock(t) /\ ~hasExclusiveThread => ownerThreadID # t
         /\ ~CurrentThreadIsHoldingLock(t) /\ hasExclusiveThread => ownerThreadID = t /\ lockCount = 0
<1>1. t # NoThread
  BY JSLockAssumption
<1> QED BY <1>1 DEF CurrentThreadIsHoldingLock, LockInv, OwnerOK, TypeInv

\* A step of one thread leaves the scopes of the others alone.
LEMMA OthersKeep ==
  ASSUME LockInv, NEW u \in Threads, frames'[u] = frames[u], pc'[u] = pc[u],
         hasExclusiveThread' = hasExclusiveThread,
         \/ ownerThreadID' = ownerThreadID /\ (ownerThreadID = u => lockCount' = lockCount)
         \/ ownerThreadID # u /\ ownerThreadID' # u /\ ~hasExclusiveThread
  PROVE  StackOK(frames'[u]) /\ ControlOK(u)' /\ CountOK(u)'
<1>1. StackOK(frames[u]) /\ ControlOK(u) /\ CountOK(u)
  BY DEF LockInv
<1>2. ControlOK(u)'
  BY <1>1 DEF ControlOK
<1>3. CountOK(u)'
  BY <1>1 DEF CountOK
<1> QED BY <1>1, <1>2, <1>3

\* What is left to show of a step of thread t.
LEMMA LockStep ==
  ASSUME LockInv, NEW t \in Threads, NEW g,
         frames' = [frames EXCEPT ![t] = g], frames \in [Threads -> Seq(Frames)],
         \A u \in Threads \ {t} : pc'[u] = pc[u],
         hasExclusiveThread' = hasExclusiveThread,
         \/ ownerThreadID' = ownerThreadID /\ (ownerThreadID = t \/ lockCount' = lockCount)
         \/ ownerThreadID \in {NoThread, t} /\ ownerThreadID' \in {NoThread, t} /\ ~hasExclusiveThread,
         StackOK(g), ControlOK(t)', CountOK(t)', OwnerOK'
  PROVE  LockInv'
<1>1. frames'[t] = g /\ \A u \in Threads \ {t} : frames'[u] = frames[u]
  OBVIOUS
<1>2. ASSUME NEW u \in Threads \ {t} PROVE StackOK(frames'[u]) /\ ControlOK(u)' /\ CountOK(u)'
  <2>1. u # NoThread
    BY JSLockAssumption
  <2> QED BY <1>1, <2>1, OthersKeep
<1>3. \A u \in Threads : StackOK(frames'[u]) /\ ControlOK(u)' /\ CountOK(u)'
  BY <1>1, <1>2
<1> QED BY <1>3 DEF LockInv

-----------------------------------------------------------------------------
(***************************************************************************)
(* The steps and LockInv.  Each lemma also says what the step does to the  *)
(* stack of its thread.                                                    *)
(***************************************************************************)
LEMMA ConstructJSLockHolderStep ==
  ASSUME TypeInv, LockInv, NEW t \in Threads, ConstructJSLockHolder(t)
  PROVE  Pushed(frames'[t], frames[t], Holder) /\ lockCount' \in Nat /\ LockInv'
<1> DEFINE f == frames[t]  g == frames'[t]
<1>1. /\ f \in Seq(Frames) /\ frames \in [Threads -> Seq(Frames)]
      /\ frames' = [frames EXCEPT ![t] = Append(f, Holder)] /\ g = Append(f, Holder)
      /\ pc[t] = "run" /\ (hasExclusiveThread => ownerThreadID = t)
      /\ ownerThreadID' = ownerThreadID /\ mutex' = mutex
      /\ hasExclusiveThread' = hasExclusiveThread
  BY DEF ConstructJSLockHolder, MayOpenScope, TypeInv
<1>2. Pushed(g, f, Holder)
  BY <1>1, PushedAppend, HolderFrame
<1>3. OwnerOK /\ StackOK(f) /\ ControlOK(t) /\ CountOK(t) /\ t # NoThread
  BY JSLockAssumption DEF LockInv
<1>4. g \in Seq(Frames) /\ Len(g) = Len(f) + 1 /\ Len(f) \in Nat /\ g # <<>> /\ g[Len(g)] = Holder
  BY <1>1, <1>2, HolderFrame DEF Pushed
<1>5. /\ IsHolder(g, Len(g)) /\ ~IsDrop(g, Len(g)) /\ ~IsUnlock(g, Len(g))
      /\ \A k \in 1..Len(f) : g[k] = f[k]
  BY <1>2, <1>4, HolderFrame DEF IsHolder, IsDrop, IsUnlock, Pushed
<1>6. StackOK(g)
  BY <1>2, <1>3, <1>5, StackPush DEF DropOK, UnlockOK
<1>7. Held(g) = Held(f) \cup {Len(g)} /\ Len(g) \notin Held(f)
  BY <1>2, HeldHolder, HolderFrame
<1>8. /\ IsFiniteSet(Held(f)) /\ Cardinality(Held(f)) \in Nat
      /\ Cardinality(Held(g)) = Cardinality(Held(f)) + 1
  BY <1>1, <1>7, KeptFinite, FS_AddElement, FS_CardinalityType
<1>9. hasExclusiveThread => \A i \in 1..Len(g) : ~IsDrop(g, i)
  <2>1. \A i \in 1..Len(g) : i \in 1..Len(f) \/ i = Len(g)
    BY <1>4
  <2> QED BY <1>3, <1>5, <2>1 DEF ControlOK, IsDrop
<1>10. /\ CurrentThreadIsHoldingLock(t) => ownerThreadID = t /\ lockCount > 0
       /\ ~CurrentThreadIsHoldingLock(t) /\ ~hasExclusiveThread => ownerThreadID # t
       /\ ~CurrentThreadIsHoldingLock(t) /\ hasExclusiveThread => ownerThreadID = t /\ lockCount = 0
  BY <1>1, HoldingIsOwner
<1>11. lockCount \in Nat /\ pc \in [Threads -> {"run", "lock", "grab", "checkDepth"}]
  BY DEF TypeInv
<1>12. ownerThreadID = t => lockCount = Cardinality(Held(f))
  BY <1>1, <1>3 DEF CountOK
<1>13. ownerThreadID # t => Held(f) = {}
  BY <1>1, <1>3 DEF CountOK
<1> HIDE DEF f, g
<1>14. CASE CurrentThreadIsHoldingLock(t) /\ lockCount' = lockCount + 1 /\ pc' = pc
  <2>1. ownerThreadID = t /\ lockCount > 0
    BY <1>10, <1>14
  <2>2. ControlOK(t)'
    BY <1>1, <1>4, <1>9, <1>14, <2>1 DEF ControlOK, g
  <2>3. CountOK(t)'
    BY <1>1, <1>8, <1>12, <1>14, <2>1 DEF CountOK, g
  <2>4. OwnerOK'
    BY <1>1, <1>3, <1>11, <1>14, <2>1 DEF OwnerOK
  <2>5. LockInv'
    BY <1>1, <1>6, <1>14, <2>1, <2>2, <2>3, <2>4, LockStep DEF g
  <2> QED BY <1>2, <1>11, <1>14, <2>1, <2>5 DEF f, g
<1>15. CASE ~CurrentThreadIsHoldingLock(t) /\ hasExclusiveThread /\ lockCount' = 1 /\ pc' = pc
  <2>1. ownerThreadID = t /\ lockCount = 0
    BY <1>10, <1>15
  <2>2. ControlOK(t)'
    BY <1>1, <1>4, <1>9, <1>15, <2>1 DEF ControlOK, g
  <2>3. CountOK(t)'
    BY <1>1, <1>8, <1>12, <1>15, <2>1 DEF CountOK, g
  <2>4. OwnerOK'
    BY <1>1, <1>3, <1>11, <1>15, <2>1 DEF OwnerOK
  <2>5. LockInv'
    BY <1>1, <1>6, <1>15, <2>1, <2>2, <2>3, <2>4, LockStep DEF g
  <2> QED BY <1>2, <1>15, <2>5 DEF f, g
<1>16. CASE /\ ~CurrentThreadIsHoldingLock(t) /\ ~hasExclusiveThread
            /\ lockCount' = lockCount /\ pc' = [pc EXCEPT ![t] = "lock"]
  <2>1. ownerThreadID # t /\ pc'[t] = "lock" /\ \A u \in Threads \ {t} : pc'[u] = pc[u]
    BY <1>10, <1>11, <1>16
  <2>2. ControlOK(t)'
    BY <1>1, <1>4, <1>5, <1>16, <2>1 DEF ControlOK, g
  <2>3. CountOK(t)'
    BY <1>1, <1>7, <1>13, <2>1 DEF CountOK, g
  <2>4. OwnerOK'
    BY <1>1, <1>3, <1>16 DEF OwnerOK
  <2>5. LockInv'
    BY <1>1, <1>6, <1>16, <2>1, <2>2, <2>3, <2>4, LockStep DEF g
  <2> QED BY <1>2, <1>11, <1>16, <2>5 DEF f, g
<1> QED BY <1>14, <1>15, <1>16 DEF ConstructJSLockHolder

LEMMA DestroyJSLockHolderStep ==
  ASSUME TypeInv, LockInv, NEW t \in Threads, DestroyJSLockHolder(t)
  PROVE  /\ \/ Pushed(frames'[t], frames[t], Unlocking(1, "JSLockHolder")) /\ lockCount' = lockCount
            \/ Pushed(frames[t], frames'[t], Holder) /\ lockCount' > 0
         /\ ownerThreadID = t /\ lockCount > 0 /\ lockCount' \in Nat /\ LockInv'
<1> DEFINE f == frames[t]  n == Len(f)  g == frames'[t]
<1>1. /\ f \in Seq(Frames) /\ frames \in [Threads -> Seq(Frames)] /\ f # <<>>
      /\ pc[t] = "run" /\ pc' = pc /\ n \in Nat /\ n > 0
      /\ f[n].kind = "JSLockHolder" /\ Last(f) = f[n]
      /\ ownerThreadID' = ownerThreadID /\ mutex' = mutex
      /\ hasExclusiveThread' = hasExclusiveThread /\ lockCount \in Nat
  BY DEF DestroyJSLockHolder, IsKind, TypeInv, Last
<1>2. OwnerOK /\ StackOK(f) /\ ControlOK(t) /\ CountOK(t) /\ t # NoThread
  BY JSLockAssumption DEF LockInv
<1>3. IsHolder(f, n) /\ ~IsDrop(f, n) /\ f[n] \in Frames /\ f[n] = Holder
  BY <1>1, FrameFields DEF IsHolder, IsDrop
<1>4. ownerThreadID = t /\ n \in Held(f) /\ lockCount = Cardinality(Held(f))
  BY <1>1, <1>3, OwnerOfTop
<1>5. IsFiniteSet(Held(f))
  BY <1>1, KeptFinite
<1>6. lockCount > 0
  <2>1. IsFiniteSet(Held(f) \ {n}) /\ Cardinality(Held(f) \ {n}) = Cardinality(Held(f)) - 1
    BY <1>4, <1>5, FS_RemoveElement
  <2>2. Cardinality(Held(f) \ {n}) \in Nat
    BY <2>1, FS_CardinalityType
  <2> QED BY <1>1, <1>4, <2>1, <2>2
<1>7. hasExclusiveThread => \A i \in 1..n : ~IsDrop(f, i)
  BY <1>2 DEF ControlOK
<1>8. CASE lockCount = 1
  <2> DEFINE e == Unlocking(1, "JSLockHolder")
  <2>1. /\ frames' = [frames EXCEPT ![t] = Append(f, e)] /\ g = Append(f, e) /\ lockCount' = lockCount
    BY <1>1, <1>8 DEF DestroyJSLockHolder
  <2>2. e \in Frames /\ e.kind = "unlock" /\ e.count = 1 /\ e.caller = "JSLockHolder"
    BY UnlockFrame DEF Callers
  <2> HIDE DEF e
  <2>3. Pushed(g, f, e)
    BY <1>1, <2>1, <2>2, PushedAppend
  <2> HIDE DEF f, g, n
  <2>4. /\ Len(f) = n /\ Len(g) = n + 1 /\ g[n + 1] = e /\ g # <<>> /\ \A k \in 1..n : g[k] = f[k]
    BY <1>1, <2>3 DEF Pushed, n
  <2>5. Held(g) = Kept(f) /\ Below(g, Len(g)) = Kept(f) /\ Kept(f) = Held(f)
    BY <1>3, <2>2, <2>3, <2>4, HeldUnlock, HeldTop
  <2>6. Held(f) = {n}
    <3>1. Cardinality(Held(f)) = 1
      BY <1>4, <1>8
    <3>2. PICK x : Held(f) = {x}
      BY <1>5, <3>1, FS_Singleton
    <3> QED BY <1>4, <3>2
  <2>7. IsHolder(g, n) /\ ~IsDrop(g, n + 1) /\ n + 1 > 1 /\ n + 1 - 1 = n /\ IsUnlock(g, n + 1)
    BY <1>1, <1>3, <2>2, <2>4 DEF IsHolder, IsDrop, IsUnlock
  <2>8. DropOK(g, Len(g))
    BY <2>4, <2>7 DEF DropOK
  <2>9. UnlockOK(g, Len(g))
    BY <2>2, <2>4, <2>5, <2>6, <2>7 DEF UnlockOK
  <2>10. StackOK(g)
    BY <1>2, <2>3, <2>8, <2>9, StackPush
  <2>11. hasExclusiveThread => \A i \in 1..Len(g) : ~IsDrop(g, i)
    <3>1. \A i \in 1..Len(g) : i \in 1..n \/ i = n + 1
      BY <1>1, <2>4
    <3> QED BY <1>7, <2>4, <2>7, <3>1 DEF IsDrop
  <2>12. ControlOK(t)'
    BY <1>1, <1>4, <2>11 DEF ControlOK, g
  <2>13. CountOK(t)'
    BY <1>1, <1>4, <2>1, <2>5 DEF CountOK, g
  <2>14. OwnerOK'
    BY <1>1, <1>2, <2>1 DEF OwnerOK
  <2>15. LockInv'
    BY <1>1, <1>4, <2>1, <2>10, <2>12, <2>13, <2>14, LockStep
  <2> QED BY <1>1, <1>4, <1>6, <2>1, <2>3, <2>15 DEF e, f, g
<1>9. CASE lockCount # 1
  <2>1. /\ frames' = [frames EXCEPT ![t] = Front(f)] /\ g = Front(f) /\ lockCount' = lockCount - 1
    BY <1>1, <1>9 DEF DestroyJSLockHolder
  <2>2. Pushed(f, g, Holder)
    BY <1>1, <1>3, <2>1, PushedFront
  <2> HIDE DEF f, g, n
  <2>3. StackOK(g)
    BY <1>2, <2>2, StackPop
  <2>4. Held(f) = Held(g) \cup {Len(f)} /\ Len(f) \notin Held(g) /\ IsFiniteSet(Held(g))
    BY <2>2, HeldHolder, HolderFrame, KeptFinite DEF Pushed
  <2>5. Cardinality(Held(f)) = Cardinality(Held(g)) + 1 /\ Cardinality(Held(g)) \in Nat
    BY <2>4, FS_AddElement, FS_CardinalityType
  <2>6. hasExclusiveThread => \A i \in 1..Len(g) : ~IsDrop(g, i)
    <3>1. \A i \in 1..Len(g) : i \in 1..n /\ g[i] = f[i]
      BY <2>2 DEF Pushed, n
    <3> QED BY <1>7, <3>1 DEF IsDrop
  <2>7. ControlOK(t)'
    BY <1>1, <1>4, <2>6 DEF ControlOK, g
  <2>8. CountOK(t)'
    BY <1>1, <1>4, <2>1, <2>5 DEF CountOK, g
  <2>9. OwnerOK' /\ lockCount' \in Nat /\ lockCount' > 0
    BY <1>1, <1>2, <1>4, <1>6, <1>9, <2>1 DEF OwnerOK
  <2>10. LockInv'
    BY <1>1, <1>4, <2>1, <2>3, <2>7, <2>8, <2>9, LockStep
  <2> QED BY <1>4, <1>6, <2>2, <2>9, <2>10 DEF f, g
<1> QED BY <1>8, <1>9

LEMMA ConstructDropAllLocksStep ==
  ASSUME TypeInv, LockInv, NEW t \in Threads, ConstructDropAllLocks(t)
  PROVE  /\ \/ /\ Pushed(frames'[t], frames[t], Dropped(0, 0))
               /\ UNCHANGED <<lockDropDepth, savedStackPointer, savedLastStackTop>>
               /\ hasExclusiveThread \/ ownerThreadID # t
            \/ \E h : /\ Pushed(h, frames[t], Dropped(lockCount, lockDropDepth + 1))
                      /\ Pushed(frames'[t], h, Unlocking(lockCount, "dropAllLocks"))
                      /\ lockDropDepth' = lockDropDepth + 1
                      /\ savedStackPointer' = [savedStackPointer EXCEPT ![t] = stackPointer]
                      /\ savedLastStackTop' = [savedLastStackTop EXCEPT ![t] = lastStackTop]
                      /\ ownerThreadID = t /\ lockCount > 0 /\ ~hasExclusiveThread
         /\ LockInv'
<1> DEFINE f == frames[t]  n == Len(f)  g == frames'[t]
<1>1. /\ f \in Seq(Frames) /\ frames \in [Threads -> Seq(Frames)]
      /\ pc[t] = "run" /\ pc' = pc /\ n \in Nat
      /\ ownerThreadID' = ownerThreadID /\ mutex' = mutex /\ lockCount' = lockCount
      /\ hasExclusiveThread' = hasExclusiveThread /\ lockCount \in Nat /\ lockDropDepth \in Nat
      /\ hasExclusiveThread => ownerThreadID = t
  BY DEF ConstructDropAllLocks, MayOpenScope, TypeInv
<1>2. OwnerOK /\ StackOK(f) /\ ControlOK(t) /\ CountOK(t) /\ t # NoThread
  BY JSLockAssumption DEF LockInv
<1>3. OwnerOK'
  BY <1>1, <1>2 DEF OwnerOK
<1>4. /\ ownerThreadID = t => lockCount = Cardinality(Held(f))
      /\ ownerThreadID # t => Held(f) = {}
  BY <1>1, <1>2 DEF CountOK
<1>5. /\ CurrentThreadIsHoldingLock(t) => ownerThreadID = t /\ lockCount > 0
      /\ ~CurrentThreadIsHoldingLock(t) /\ ~hasExclusiveThread => ownerThreadID # t
  BY <1>1, HoldingIsOwner
<1>6. CASE hasExclusiveThread \/ ~CurrentThreadIsHoldingLock(t)
  <2> DEFINE e == Dropped(0, 0)
  <2>1. /\ frames' = [frames EXCEPT ![t] = Append(f, e)] /\ g = Append(f, e)
        /\ UNCHANGED <<lockDropDepth, savedStackPointer, savedLastStackTop>>
    BY <1>1, <1>6 DEF ConstructDropAllLocks
  <2>2. e \in Frames /\ e.kind = "DropAllLocks" /\ e.count = 0
    BY DropFrame
  <2> HIDE DEF e
  <2>3. Pushed(g, f, e)
    BY <1>1, <2>1, <2>2, PushedAppend
  <2> HIDE DEF f, g, n
  <2>4. Len(f) = n /\ Len(g) = n + 1 /\ g[n + 1] = e /\ \A k \in 1..n : g[k] = f[k]
    BY <1>1, <2>3 DEF Pushed, n
  <2>5. ~(e.count > 0)
    BY <2>2
  <2>6. Held(g) = Held(f)
    BY <2>2, <2>3, <2>5, HeldDrop
  <2>7. ~IsDrop(g, n + 1) /\ ~IsUnlock(g, n + 1)
    BY <2>2, <2>4, <2>5 DEF IsDrop, IsUnlock
  <2>8. StackOK(g)
    BY <1>2, <2>3, <2>4, <2>7, StackPush DEF DropOK, UnlockOK
  <2>9. hasExclusiveThread => \A i \in 1..Len(g) : ~IsDrop(g, i)
    <3>1. hasExclusiveThread => \A i \in 1..n : ~IsDrop(f, i)
      BY <1>2 DEF ControlOK, f, n
    <3>2. \A i \in 1..Len(g) : i \in 1..n \/ i = n + 1
      BY <1>1, <2>4
    <3> QED BY <2>4, <2>7, <3>1, <3>2 DEF IsDrop
  <2>10. ControlOK(t)'
    BY <1>1, <2>9 DEF ControlOK, g
  <2>11. CountOK(t)'
    BY <1>1, <1>4, <2>6 DEF CountOK, g
  <2>12. LockInv'
    BY <1>1, <1>3, <2>1, <2>8, <2>10, <2>11, LockStep
  <2>13. hasExclusiveThread \/ ownerThreadID # t
    BY <1>5, <1>6
  <2> QED BY <2>1, <2>3, <2>12, <2>13 DEF e, f, g
<1>7. CASE ~hasExclusiveThread /\ CurrentThreadIsHoldingLock(t)
  <2> DEFINE d == Dropped(lockCount, lockDropDepth + 1)
             e == Unlocking(lockCount, "dropAllLocks")
             h == Append(f, d)
  <2>1. ownerThreadID = t /\ lockCount > 0
    BY <1>5, <1>7
  <2>2. d \in Frames /\ d.kind = "DropAllLocks" /\ d.count = lockCount
    BY <1>1, DropFrame
  <2>3. e \in Frames /\ e.kind = "unlock" /\ e.count = lockCount /\ e.caller = "dropAllLocks"
    BY <1>1, UnlockFrame DEF Callers
  <2>4. /\ frames' = [frames EXCEPT ![t] = f \o <<d, e>>] /\ lockDropDepth' = lockDropDepth + 1
        /\ savedStackPointer' = [savedStackPointer EXCEPT ![t] = stackPointer]
        /\ savedLastStackTop' = [savedLastStackTop EXCEPT ![t] = lastStackTop]
    BY <1>1, <1>7 DEF ConstructDropAllLocks, DropDepth
  <2> HIDE DEF d, e
  <2>5. f \o <<d, e>> = Append(h, e)
    BY <1>1, <2>2, <2>3
  <2>6. frames' = [frames EXCEPT ![t] = Append(h, e)] /\ g = Append(h, e)
    BY <1>1, <2>4, <2>5
  <2>7. Pushed(h, f, d) /\ h \in Seq(Frames)
    BY <1>1, <2>2, PushedAppend DEF Pushed
  <2>8. Pushed(g, h, e)
    BY <2>3, <2>6, <2>7, PushedAppend
  <2> HIDE DEF f, g, n, h
  <2>9. /\ Len(f) = n /\ Len(h) = n + 1 /\ h[n + 1] = d /\ Len(g) = n + 2 /\ g[n + 2] = e
        /\ g[n + 1] = d /\ \A k \in 1..n : h[k] = f[k]
    BY <1>1, <2>7, <2>8 DEF Pushed, n
  <2>10. Kept(h) = Held(f) /\ Below(h, Len(h)) = Held(f)
    BY <2>2, <2>7, HeldDrop
  <2>11. Held(g) = Held(f) /\ Below(g, Len(g)) = Held(f)
    BY <2>3, <2>8, <2>10, HeldUnlock
  <2>12. IsDrop(h, n + 1) /\ IsDrop(g, n + 1) /\ ~IsUnlock(h, n + 1) /\ ~IsDrop(g, n + 2) /\ IsUnlock(g, n + 2)
    BY <2>1, <2>2, <2>3, <2>9 DEF IsDrop, IsUnlock
  <2>13. StackOK(h)
    <3>1. DropOK(h, Len(h))
      BY <1>4, <2>1, <2>2, <2>9, <2>10 DEF DropOK
    <3>2. UnlockOK(h, Len(h))
      BY <2>9, <2>12 DEF UnlockOK
    <3> QED BY <1>2, <2>7, <3>1, <3>2, StackPush
  <2>14. StackOK(g)
    <3>1. DropOK(g, Len(g))
      BY <2>9, <2>12 DEF DropOK
    <3>2. n + 2 > 1 /\ n + 2 - 1 = n + 1
      BY <1>1
    <3>3. UnlockOK(g, Len(g))
      BY <2>2, <2>3, <2>9, <2>12, <3>2 DEF UnlockOK
    <3> QED BY <2>8, <2>13, <3>1, <3>3, StackPush
  <2>15. ControlOK(t)'
    BY <1>1, <1>7 DEF ControlOK
  <2>16. CountOK(t)'
    BY <1>1, <1>4, <2>1, <2>11 DEF CountOK, g
  <2>17. LockInv'
    BY <1>1, <1>3, <2>6, <2>14, <2>15, <2>16, LockStep
  <2> QED BY <1>7, <2>1, <2>4, <2>7, <2>8, <2>17 DEF d, e, f, g
<1> QED BY <1>6, <1>7

LEMMA DestroyDropAllLocksStep ==
  ASSUME TypeInv, LockInv, NEW t \in Threads, DestroyDropAllLocks(t)
  PROVE  /\ \/ \E e \in Frames : /\ e.kind = "DropAllLocks" /\ e.count = 0
                                 /\ Pushed(frames[t], frames'[t], e)
                                 /\ table' = [table EXCEPT ![t] = vmTable] /\ pc' = pc
            \/ frames' = frames /\ table' = table /\ pc' = [pc EXCEPT ![t] = "grab"]
         /\ LockInv'
<1> DEFINE f == frames[t]  n == Len(f)  g == frames'[t]
<1>1. /\ f \in Seq(Frames) /\ frames \in [Threads -> Seq(Frames)] /\ f # <<>>
      /\ pc[t] = "run" /\ n \in Nat /\ n > 0 /\ f[n] \in Frames
      /\ f[n].kind = "DropAllLocks" /\ Last(f) = f[n]
      /\ ownerThreadID' = ownerThreadID /\ mutex' = mutex /\ lockCount' = lockCount
      /\ hasExclusiveThread' = hasExclusiveThread /\ lockCount \in Nat
  BY DEF DestroyDropAllLocks, IsKind, TypeInv, Last, lock
<1>2. OwnerOK /\ StackOK(f) /\ ControlOK(t) /\ CountOK(t) /\ t # NoThread
  BY JSLockAssumption DEF LockInv
<1>3. OwnerOK'
  BY <1>1, <1>2 DEF OwnerOK
<1>4. /\ ownerThreadID = t => lockCount = Cardinality(Held(f))
      /\ ownerThreadID # t => Held(f) = {}
  BY <1>1, <1>2 DEF CountOK
<1>5. f[n].count \in Nat
  BY <1>1, FrameFields
<1>6. CASE f[n].count = 0
  <2>1. /\ frames' = [frames EXCEPT ![t] = Front(f)] /\ g = Front(f) /\ pc' = pc
        /\ table' = [table EXCEPT ![t] = vmTable]
    BY <1>1, <1>6 DEF DestroyDropAllLocks
  <2>2. Pushed(f, g, f[n])
    BY <1>1, <2>1, PushedFront
  <2> HIDE DEF f, g, n
  <2>3. StackOK(g)
    BY <1>2, <2>2, StackPop
  <2>4. ~(f[n].count > 0)
    BY <1>6
  <2>5. Held(g) = Held(f)
    BY <1>1, <2>2, <2>4, HeldDrop
  <2>6. hasExclusiveThread => \A i \in 1..Len(g) : ~IsDrop(g, i)
    <3>1. hasExclusiveThread => \A i \in 1..n : ~IsDrop(f, i)
      BY <1>2 DEF ControlOK, f, n
    <3>2. \A i \in 1..Len(g) : i \in 1..n /\ g[i] = f[i]
      BY <2>2 DEF Pushed, n
    <3> QED BY <3>1, <3>2 DEF IsDrop
  <2>7. hasExclusiveThread /\ ownerThreadID # t => FALSE
    BY <1>1, <1>2 DEF ControlOK, f
  <2>8. ControlOK(t)'
    BY <1>1, <2>1, <2>6, <2>7 DEF ControlOK, g
  <2>9. CountOK(t)'
    BY <1>1, <1>4, <2>1, <2>5 DEF CountOK, g
  <2>10. LockInv'
    BY <1>1, <1>3, <2>1, <2>3, <2>8, <2>9, LockStep
  <2> QED BY <1>1, <1>6, <2>1, <2>2, <2>10 DEF f, g
<1>7. CASE f[n].count # 0
  <2>1. frames' = frames /\ table' = table /\ pc' = [pc EXCEPT ![t] = "grab"]
    BY <1>1, <1>7 DEF DestroyDropAllLocks
  <2>2. pc'[t] = "grab" /\ \A u \in Threads \ {t} : pc'[u] = pc[u]
    BY <2>1 DEF TypeInv
  <2>3. frames' = [frames EXCEPT ![t] = f] /\ g = f
    BY <1>1, <2>1
  <2> HIDE DEF f, g, n
  <2>4. IsDrop(f, n) /\ n \in 1..n
    BY <1>1, <1>5, <1>7 DEF IsDrop
  <2>5. ~hasExclusiveThread
    BY <1>2, <2>4 DEF ControlOK, f, n
  <2>6. Held(f) = {}
    BY <2>4, HeldTop DEF n
  <2>7. ownerThreadID # t
    <3>1. ASSUME ownerThreadID = t PROVE FALSE
      <4>1. lockCount = 0
        BY <1>4, <2>6, <3>1, FS_EmptySet
      <4> QED BY <1>2, <2>5, <3>1, <4>1 DEF OwnerOK
    <3> QED BY <3>1
  <2>8. ControlOK(t)'
    BY <1>1, <2>2, <2>3, <2>4, <2>5 DEF ControlOK, g, n
  <2>9. CountOK(t)'
    BY <1>1, <2>2, <2>3, <2>6, <2>7 DEF CountOK, g
  <2>10. LockInv'
    BY <1>1, <1>2, <1>3, <2>2, <2>3, <2>8, <2>9, LockStep
  <2> QED BY <2>1, <2>10
<1> QED BY <1>6, <1>7

LEMMA LockStepOK ==
  ASSUME TypeInv, LockInv, NEW t \in Threads, Lock(t)
  PROVE  /\ ownerThreadID = NoThread /\ ~hasExclusiveThread
         /\ lockCount' \in Nat /\ lockCount' > 0 /\ LockInv'
<1> DEFINE f == frames[t]  n == Len(f)
<1>1. /\ f \in Seq(Frames) /\ frames \in [Threads -> Seq(Frames)]
      /\ pc[t] \in {"lock", "grab"} /\ n \in Nat /\ mutex = NoThread
      /\ ownerThreadID' = t /\ mutex' = t /\ frames' = frames /\ lockCount' = CountToLock(t)
      /\ hasExclusiveThread' = hasExclusiveThread /\ hasExclusiveThread \in BOOLEAN
      /\ pc' = [pc EXCEPT ![t] = IF pc[t] = "grab" THEN "checkDepth" ELSE "run"]
      /\ pc \in [Threads -> {"run", "lock", "grab", "checkDepth"}]
  BY DEF Lock, TypeInv
<1>2. OwnerOK /\ StackOK(f) /\ ControlOK(t) /\ CountOK(t) /\ t # NoThread
  BY JSLockAssumption DEF LockInv
<1>3. ~hasExclusiveThread /\ ownerThreadID = NoThread
  BY <1>1, <1>2 DEF ControlOK, OwnerOK
<1>4. \A u \in Threads \ {t} : pc'[u] = pc[u]
  BY <1>1
<1>5. frames' = [frames EXCEPT ![t] = f] /\ frames'[t] = f
  BY <1>1
<1>6. CASE pc[t] = "lock"
  <2>1. pc'[t] = "run" /\ lockCount' = 1
    BY <1>1, <1>6 DEF CountToLock
  <2>2. Held(f) = {n}
    BY <1>2, <1>3, <1>6 DEF CountOK
  <2> HIDE DEF f, n
  <2>3. CountOK(t)'
    <3>1. Cardinality(Held(f)) = 1
      BY <2>2, FS_Singleton
    <3> QED BY <1>1, <1>5, <2>1, <3>1 DEF CountOK
  <2>4. ControlOK(t)'
    BY <1>1, <1>3, <2>1 DEF ControlOK
  <2>5. OwnerOK'
    BY <1>1, <1>2, <1>3, <2>1 DEF OwnerOK
  <2>6. LockInv'
    BY <1>1, <1>2, <1>3, <1>4, <1>5, <2>3, <2>4, <2>5, LockStep
  <2> QED BY <1>3, <2>1, <2>6
<1>7. CASE pc[t] = "grab"
  <2>1. f # <<>> /\ IsDrop(f, n)
    BY <1>2, <1>7 DEF ControlOK
  <2>2. pc'[t] = "checkDepth" /\ lockCount' = f[n].count
    BY <1>1, <1>7 DEF CountToLock, Last
  <2>3. Pushed(f, Front(f), f[n])
    BY <1>1, <2>1, PushedFront
  <2>4. n \in 1..n /\ n = Len(f)
    BY <1>1, <2>1
  <2> HIDE DEF f, n
  <2>5. Kept(f) = Below(f, n)
    BY <2>1, <2>3, <2>4, HeldDrop DEF IsDrop
  <2>6. f[n].count = Cardinality(Below(f, n)) /\ f[n].count > 0 /\ f[n].count \in Nat
    <3>1. DropOK(f, n)
      BY <1>2, <2>4 DEF StackOK
    <3>2. f[n] \in Frames
      BY <2>3 DEF Pushed
    <3> QED BY <2>1, <3>1, <3>2, FrameFields DEF DropOK, IsDrop
  <2>7. CountOK(t)'
    BY <1>1, <1>5, <2>2, <2>5, <2>6 DEF CountOK
  <2>8. ControlOK(t)'
    BY <1>1, <1>3, <1>5, <2>1, <2>2, <2>4 DEF ControlOK
  <2>9. OwnerOK'
    BY <1>1, <1>2, <1>3, <2>2, <2>6 DEF OwnerOK
  <2> QED BY <1>1, <1>2, <1>3, <1>4, <1>5, <2>2, <2>6, <2>7, <2>8, <2>9, LockStep
<1> QED BY <1>1, <1>6, <1>7

\* A thread that has m_lock back and is to check the depth.
LEMMA CheckingDepth ==
  ASSUME TypeInv, LockInv, NEW t \in Threads, pc[t] = "checkDepth"
  PROVE  LET f == frames[t] IN
         /\ f \in Seq(Frames) /\ f # <<>> /\ Len(f) \in Nat /\ Len(f) > 0 /\ f[Len(f)] \in Frames
         /\ IsDrop(f, Len(f)) /\ Last(f) = f[Len(f)] /\ Pushed(f, Front(f), f[Len(f)])
         /\ ownerThreadID = t /\ ~hasExclusiveThread
         /\ lockCount = Cardinality(Kept(f)) /\ lockCount = f[Len(f)].count /\ lockCount > 0
<1> DEFINE f == frames[t]  n == Len(f)
<1>1. f \in Seq(Frames) /\ n \in Nat
  BY DEF TypeInv
<1>2. OwnerOK /\ StackOK(f) /\ ControlOK(t) /\ CountOK(t) /\ t # NoThread
  BY JSLockAssumption DEF LockInv
<1>3. f # <<>> /\ IsDrop(f, n) /\ ~hasExclusiveThread
  BY <1>2 DEF ControlOK
<1>4. ownerThreadID = t /\ lockCount = Cardinality(Kept(f))
  BY <1>2 DEF CountOK
<1>5. Pushed(f, Front(f), f[n]) /\ Last(f) = f[n]
  BY <1>1, <1>3, PushedFront
<1>6. n \in 1..n /\ n > 0 /\ n = Len(f)
  BY <1>1, <1>3
<1> HIDE DEF f, n
<1>7. Kept(f) = Below(f, n)
  BY <1>3, <1>5, <1>6, HeldDrop DEF IsDrop
<1>8. f[n].count = Cardinality(Below(f, n)) /\ f[n].count > 0
  BY <1>2, <1>3, <1>6 DEF StackOK, DropOK, IsDrop
<1>9. lockCount = f[n].count /\ lockCount > 0
  BY <1>4, <1>7, <1>8
<1>10. f[n] \in Frames
  BY <1>5 DEF Pushed
<1> QED BY <1>1, <1>3, <1>4, <1>5, <1>6, <1>9, <1>10 DEF f, n

LEMMA GrabAllLocksRetryStep ==
  ASSUME TypeInv, LockInv, NEW t \in Threads, GrabAllLocksRetry(t)
  PROVE  LockInv' /\ \E c \in Nat : Pushed(frames'[t], frames[t], Unlocking(c, "grabAllLocks"))
<1> DEFINE f == frames[t]  n == Len(f)  g == frames'[t]  e == Unlocking(f[n].count, "grabAllLocks")
<1>1. /\ f \in Seq(Frames) /\ f # <<>> /\ n \in Nat /\ n > 0 /\ f[n] \in Frames
      /\ IsDrop(f, n) /\ Last(f) = f[n] /\ ownerThreadID = t /\ ~hasExclusiveThread
      /\ lockCount = Cardinality(Kept(f))
  BY CheckingDepth DEF GrabAllLocksRetry
<1>2. /\ frames \in [Threads -> Seq(Frames)] /\ pc' = [pc EXCEPT ![t] = "run"]
      /\ pc'[t] = "run" /\ \A u \in Threads \ {t} : pc'[u] = pc[u]
      /\ frames' = [frames EXCEPT ![t] = Append(f, e)] /\ g = Append(f, e)
      /\ ownerThreadID' = ownerThreadID /\ mutex' = mutex /\ lockCount' = lockCount
      /\ hasExclusiveThread' = hasExclusiveThread
  BY <1>1 DEF GrabAllLocksRetry, TypeInv, lock
<1>3. OwnerOK /\ StackOK(f) /\ f[n].count \in Nat
  BY <1>1, FrameFields DEF LockInv, IsDrop
<1>4. e \in Frames /\ e.kind = "unlock" /\ e.count = f[n].count /\ e.caller = "grabAllLocks"
  BY <1>3, UnlockFrame DEF Callers
<1> HIDE DEF e
<1>5. Pushed(g, f, e)
  BY <1>1, <1>2, <1>4, PushedAppend
<1> HIDE DEF f, g, n
<1>6. Len(f) = n /\ Len(g) = n + 1 /\ g[n + 1] = e /\ g[n] = f[n]
  BY <1>1, <1>5 DEF Pushed, n
<1>7. Held(g) = Kept(f)
  BY <1>4, <1>5, HeldUnlock
<1>8. IsDrop(g, n) /\ ~IsDrop(g, n + 1) /\ IsUnlock(g, n + 1) /\ n + 1 > 1 /\ n + 1 - 1 = n
  BY <1>1, <1>4, <1>6 DEF IsDrop, IsUnlock
<1>9. DropOK(g, Len(g)) /\ UnlockOK(g, Len(g))
  BY <1>4, <1>6, <1>8 DEF DropOK, UnlockOK
<1>10. StackOK(g)
  BY <1>3, <1>5, <1>9, StackPush
<1>11. ControlOK(t)'
  BY <1>1, <1>2 DEF ControlOK
<1>12. CountOK(t)'
  BY <1>1, <1>2, <1>7 DEF CountOK, g
<1>13. OwnerOK'
  BY <1>2, <1>3 DEF OwnerOK
<1>14. LockInv'
  BY <1>1, <1>2, <1>10, <1>11, <1>12, <1>13, LockStep
<1> QED BY <1>3, <1>5, <1>14 DEF e, f, g

LEMMA GrabAllLocksStep ==
  ASSUME TypeInv, LockInv, NEW t \in Threads, GrabAllLocks(t)
  PROVE  /\ LockInv' /\ ownerThreadID = t /\ lockCount > 0 /\ ~hasExclusiveThread
         /\ Pushed(frames[t], frames'[t], Last(frames[t]))
         /\ IsDrop(frames[t], Len(frames[t])) /\ Last(frames[t]) = frames[t][Len(frames[t])]
<1> DEFINE f == frames[t]  n == Len(f)  g == frames'[t]
<1>1. /\ f \in Seq(Frames) /\ f # <<>> /\ n \in Nat /\ n > 0 /\ f[n] \in Frames
      /\ IsDrop(f, n) /\ Last(f) = f[n] /\ ownerThreadID = t /\ ~hasExclusiveThread
      /\ lockCount = Cardinality(Kept(f)) /\ lockCount > 0 /\ Pushed(f, Front(f), f[n])
  BY CheckingDepth DEF GrabAllLocks
<1>2. /\ frames \in [Threads -> Seq(Frames)] /\ pc' = [pc EXCEPT ![t] = "run"]
      /\ pc'[t] = "run" /\ \A u \in Threads \ {t} : pc'[u] = pc[u]
      /\ frames' = [frames EXCEPT ![t] = Front(f)] /\ g = Front(f)
      /\ ownerThreadID' = ownerThreadID /\ mutex' = mutex /\ lockCount' = lockCount
      /\ hasExclusiveThread' = hasExclusiveThread
  BY <1>1 DEF GrabAllLocks, TypeInv
<1>3. OwnerOK /\ StackOK(f)
  BY DEF LockInv
<1>4. Pushed(f, g, f[n])
  BY <1>1, <1>2
<1> HIDE DEF f, g, n
<1>5. Kept(f) = Held(g)
  BY <1>1, <1>4, HeldDrop DEF IsDrop
<1>6. StackOK(g)
  BY <1>3, <1>4, StackPop
<1>7. ControlOK(t)'
  BY <1>1, <1>2 DEF ControlOK
<1>8. CountOK(t)'
  BY <1>1, <1>2, <1>5 DEF CountOK, g
<1>9. OwnerOK'
  BY <1>2, <1>3 DEF OwnerOK
<1>10. LockInv'
  BY <1>1, <1>2, <1>6, <1>7, <1>8, <1>9, LockStep
<1> QED BY <1>1, <1>4, <1>10 DEF f, g, n

\* A step of unlock() that only notes how far it is.
LEMMA HeldAlike ==
  ASSUME NEW f, NEW g, Len(f) = Len(g), Len(f) \in Nat, \A k \in 1..Len(f) : Alike(f[k], g[k])
  PROVE  Kept(f) = Kept(g) /\ Held(f) = Held(g)
<1>1. \A k \in 1..Len(f) : /\ IsHolder(f, k) <=> IsHolder(g, k)
                           /\ IsDrop(f, k) <=> IsDrop(g, k)
                           /\ IsUnlock(f, k) <=> IsUnlock(g, k)
  BY DEF Alike, IsHolder, IsDrop, IsUnlock
<1>2. \A j \in 1..(Len(f) - 1) : j \in 1..Len(f) /\ j + 1 \in 1..Len(f)
  OBVIOUS
<1>3. \A j \in 1..(Len(f) - 1) : Effective(f, j) <=> Effective(g, j)
  BY <1>1, <1>2 DEF Effective
<1>4. Kept(f) = Kept(g)
  BY <1>1, <1>3 DEF Kept
<1>5. \A k \in Kept(f) : IsDrop(f, Len(f)) <=> IsDrop(g, Len(g))
  BY <1>1 DEF Kept
<1> QED BY <1>4, <1>5 DEF Held

LEMMA ReleaseDelayedReleasedObjectsStep ==
  ASSUME TypeInv, LockInv, NEW t \in Threads, ReleaseDelayedReleasedObjects(t)
  PROVE  LET f == frames[t]  g == frames'[t] IN
         /\ LockInv' /\ g \in Seq(Frames) /\ Len(f) = Len(g) /\ \A k \in 1..Len(f) : Alike(f[k], g[k])
         /\ Len(f) \in 1..Len(f) /\ IsUnlock(f, Len(f)) /\ f[Len(f)].step = "drainMicrotasks"
         /\ g[Len(f)].step \in {"release", "return"} /\ \A k \in 1..(Len(f) - 1) : g[k] = f[k]
<1> DEFINE f == frames[t]  n == Len(f)  g == frames'[t]
           s == IF delayedReleases = 0 THEN "release" ELSE "return"
           e == [f[n] EXCEPT !.step = s]
<1>1. /\ f \in Seq(Frames) /\ f # <<>> /\ n \in Nat /\ n \in 1..n /\ f[n] \in Frames
      /\ Last(f) = f[n] /\ f[n].kind = "unlock" /\ f[n].step = "drainMicrotasks"
      /\ pc[t] = "run" /\ frames \in [Threads -> Seq(Frames)]
  BY DEF ReleaseDelayedReleasedObjects, IsKind, TypeInv, Last
<1>2. /\ frames' = [frames EXCEPT ![t] = [f EXCEPT ![n] = e]]
      /\ ownerThreadID' = ownerThreadID /\ mutex' = mutex /\ lockCount' = lockCount
      /\ hasExclusiveThread' = hasExclusiveThread /\ pc' = pc
  BY DEF ReleaseDelayedReleasedObjects, lock
<1>3. s \in Steps /\ s \in {"release", "return"}
  BY DEF Steps
<1> HIDE DEF s
<1>4. e \in Frames /\ Alike(f[n], e) /\ e.step = s
  BY <1>1, <1>3 DEF Frames, HolderFrames, DropFrames, UnlockFrames, Alike
<1> HIDE DEF e
<1>5. /\ g = [f EXCEPT ![n] = e] /\ g \in Seq(Frames) /\ Len(g) = n /\ g[n] = e
      /\ \A k \in 1..(n - 1) : g[k] = f[k]
  BY <1>1, <1>2, <1>4
<1> HIDE DEF f, g, n
<1>6. \A k \in 1..n : Alike(f[k], g[k])
  <2>1. \A k \in 1..n : k \in 1..(n - 1) \/ k = n
    BY <1>1
  <2> QED BY <1>4, <1>5, <2>1 DEF Alike
<1>7. Kept(f) = Kept(g) /\ Held(f) = Held(g)
  BY <1>1, <1>5, <1>6, HeldAlike DEF n
<1>8. OwnerOK /\ StackOK(f) /\ ControlOK(t) /\ CountOK(t)
  BY DEF LockInv, f
<1>9. StackOK(g)
  BY <1>1, <1>5, <1>6, <1>8, ScopeAlike DEF StackOK, n
<1>10. ControlOK(t)'
  <2>1. hasExclusiveThread => \A i \in 1..n : ~IsDrop(g, i)
    BY <1>6, <1>8 DEF ControlOK, IsDrop, Alike, f, n
  <2>2. hasExclusiveThread /\ ownerThreadID # t => FALSE
    BY <1>1, <1>8 DEF ControlOK, f
  <2> QED BY <1>1, <1>2, <1>5, <2>1, <2>2 DEF ControlOK, g
<1>11. CountOK(t)'
  BY <1>1, <1>2, <1>7, <1>8 DEF CountOK, f, g
<1>12. OwnerOK'
  BY <1>2, <1>8 DEF OwnerOK
<1>13. frames' = [frames EXCEPT ![t] = g]
  BY <1>2, <1>5
<1>14. LockInv'
  BY <1>1, <1>2, <1>9, <1>10, <1>11, <1>12, <1>13, LockStep
<1> QED BY <1>1, <1>3, <1>4, <1>5, <1>6, <1>14 DEF f, g, n, IsUnlock

LEMMA UnlockStep ==
  ASSUME TypeInv, LockInv, NEW t \in Threads, Unlock(t)
  PROVE  LET f == frames[t]  g == frames'[t]  e == Last(f) IN
         /\ LockInv' /\ ownerThreadID = t /\ lockCount > 0 /\ lockCount' = 0
         /\ ~hasExclusiveThread => ownerThreadID' = NoThread
         /\ e.kind = "unlock" /\ e.step \in {"release", "return"}
         /\ \/ Pushed(f, g, e)
            \/ \E h : Pushed(f, h, e) /\ Pushed(h, g, Holder)
         /\ Last(f) = f[Len(f)]
<1> DEFINE f == frames[t]  n == Len(f)  g == frames'[t]  h == Front(f)  e == f[n]
<1>1. /\ f \in Seq(Frames) /\ f # <<>> /\ n \in Nat /\ n \in 1..n /\ e \in Frames
      /\ Last(f) = e /\ e.kind = "unlock" /\ e.step \in {"release", "return"}
      /\ pc[t] = "run" /\ frames \in [Threads -> Seq(Frames)]
      /\ pc \in [Threads -> {"run", "lock", "grab", "checkDepth"}] /\ lockCount \in Nat
  BY DEF Unlock, IsKind, TypeInv, Last
<1>2. /\ frames' = [frames EXCEPT ![t] = IF e.caller = "JSLockHolder" THEN Front(h) ELSE h]
      /\ g = (IF e.caller = "JSLockHolder" THEN Front(h) ELSE h)
      /\ lockCount' = lockCount - e.count
      /\ IF lockCount = e.count /\ ~hasExclusiveThread
           THEN ownerThreadID' = NoThread /\ mutex' = NoThread
           ELSE UNCHANGED <<ownerThreadID, mutex>>
      /\ hasExclusiveThread' = hasExclusiveThread
      /\ pc' = [pc EXCEPT ![t] = IF e.caller = "grabAllLocks" THEN "grab" ELSE "run"]
  BY <1>1 DEF Unlock
<1>3. OwnerOK /\ StackOK(f) /\ ControlOK(t) /\ t # NoThread
  BY JSLockAssumption DEF LockInv
<1>4. Pushed(f, h, e)
  BY <1>1, PushedFront
<1>5. ownerThreadID = t /\ lockCount = Cardinality(Held(f)) /\ lockCount = e.count /\ lockCount > 0
  BY <1>1, OwnerOfTop DEF IsUnlock
<1>6. \A u \in Threads \ {t} : pc'[u] = pc[u]
  BY <1>1, <1>2
<1>7. lockCount' = 0 /\ (~hasExclusiveThread => ownerThreadID' = NoThread /\ mutex' = NoThread)
      /\ (hasExclusiveThread => ownerThreadID' = t)
  BY <1>1, <1>2, <1>5
<1>8. OwnerOK'
  BY <1>2, <1>3, <1>7 DEF OwnerOK
<1>9. UnlockOK(f, n)
  BY <1>1, <1>3 DEF StackOK
<1>10. hasExclusiveThread => \A i \in 1..n : ~IsDrop(f, i)
  BY <1>3 DEF ControlOK
<1>11. n = Len(f)
  OBVIOUS
<1> HIDE DEF f, n, g, h, e
<1>12. Len(h) = n - 1 /\ h \in Seq(Frames) /\ \A k \in 1..(n - 1) : h[k] = f[k]
  BY <1>1, <1>4, <1>11 DEF Pushed
<1>13. StackOK(h)
  BY <1>3, <1>4, StackPop
<1>14. IsUnlock(f, n) /\ n > 1
  BY <1>1, <1>9 DEF IsUnlock, UnlockOK, e
<1>15. h # <<>> /\ n - 1 \in 1..(n - 1) /\ n - 1 \in 1..n
  BY <1>1, <1>12, <1>14
<1>16. Held(f) = Kept(h) /\ Below(f, n) = Kept(h)
  BY <1>1, <1>4, <1>11, HeldUnlock
<1>17. CASE e.caller = "JSLockHolder"
  <2>1. g = Front(h) /\ frames' = [frames EXCEPT ![t] = g] /\ pc'[t] = "run"
    BY <1>1, <1>2, <1>17 DEF g
  <2>2. IsHolder(f, n - 1) /\ Below(f, n) = {n - 1}
    BY <1>9, <1>14, <1>17 DEF UnlockOK, e
  <2>3. Last(h) = h[n - 1] /\ h[n - 1] = f[n - 1] /\ Pushed(h, g, h[n - 1])
    BY <1>12, <1>15, <2>1, PushedFront
  <2>4. h[n - 1].kind = "JSLockHolder" /\ h[n - 1] = Holder
    BY <2>2, <2>3, FrameFields DEF IsHolder, Pushed
  <2>5. Kept(h) = Held(g) \cup {n - 1} /\ n - 1 \notin Held(g)
    BY <1>12, <2>3, <2>4, HeldHolder
  <2>6. Held(g) = {}
    BY <1>16, <2>2, <2>5
  <2>7. StackOK(g)
    BY <1>13, <2>3, StackPop
  <2>8. hasExclusiveThread => \A i \in 1..Len(g) : ~IsDrop(g, i)
    <3>1. \A i \in 1..Len(g) : i \in 1..n /\ g[i] = f[i]
      BY <1>1, <1>12, <2>3 DEF Pushed
    <3> QED BY <1>10, <3>1 DEF IsDrop
  <2>9. ControlOK(t)'
    BY <1>2, <1>7, <2>1, <2>8 DEF ControlOK, g
  <2>10. CountOK(t)'
    <3>1. Cardinality(Held(g)) = 0
      BY <2>6, FS_EmptySet
    <3> QED BY <1>7, <2>1, <2>6, <3>1 DEF CountOK, g
  <2>11. LockInv'
    BY <1>1, <1>2, <1>3, <1>5, <1>6, <1>7, <1>8, <2>1, <2>7, <2>9, <2>10, LockStep
  <2> QED BY <1>1, <1>4, <1>5, <1>7, <1>11, <2>3, <2>4, <2>11 DEF f, g, e
<1>18. CASE e.caller # "JSLockHolder"
  <2>1. /\ g = h /\ frames' = [frames EXCEPT ![t] = g]
        /\ pc'[t] = IF e.caller = "grabAllLocks" THEN "grab" ELSE "run"
    BY <1>1, <1>2, <1>18 DEF g
  <2>2. IsDrop(f, n - 1)
    BY <1>9, <1>14, <1>18 DEF UnlockOK, e
  <2>3. ~hasExclusiveThread
    BY <1>10, <1>15, <2>2
  <2>4. IsDrop(g, Len(g)) /\ g # <<>>
    BY <1>12, <1>15, <2>1, <2>2 DEF IsDrop
  <2>5. Held(g) = {}
    BY <2>4, HeldTop
  <2>6. ControlOK(t)'
    BY <1>2, <2>1, <2>3, <2>4 DEF ControlOK, g
  <2>7. CountOK(t)'
    BY <1>3, <1>7, <2>1, <2>3, <2>5 DEF CountOK, g
  <2>8. LockInv'
    BY <1>1, <1>2, <1>3, <1>5, <1>6, <1>7, <1>8, <1>13, <2>1, <2>3, <2>6, <2>7, LockStep
  <2> QED BY <1>1, <1>4, <1>5, <1>7, <1>11, <2>1, <2>8 DEF f, g, e
<1> QED BY <1>17, <1>18

-----------------------------------------------------------------------------
(***************************************************************************)
(* The pending drops and the calls that release objects, of all threads.   *)
(***************************************************************************)
LEMMA PairIn ==
  ASSUME NEW A, NEW d
  PROVE  d \in AllPairs(A) <=> \E t \in Threads : \E i \in A[t] : d = <<t, i>>
BY DEF AllPairs

LEMMA PairsSame ==
  ASSUME NEW A, NEW B, \A t \in Threads : A[t] = B[t]
  PROVE  AllPairs(A) = AllPairs(B)
<1>1. ASSUME NEW d PROVE d \in AllPairs(A) <=> d \in AllPairs(B)
  <2>1. (\E t \in Threads : \E i \in A[t] : d = <<t, i>>) <=> (\E t \in Threads : \E i \in B[t] : d = <<t, i>>)
    OBVIOUS
  <2> QED BY <2>1, PairIn
<1> QED BY <1>1

LEMMA PairsAdd ==
  ASSUME NEW A, NEW B, NEW t \in Threads, NEW i, i \notin A[t], B[t] = A[t] \cup {i},
         \A u \in Threads \ {t} : B[u] = A[u]
  PROVE  /\ AllPairs(B) = AllPairs(A) \cup {<<t, i>>} /\ <<t, i>> \notin AllPairs(A)
         /\ IsFiniteSet(AllPairs(A)) =>
              IsFiniteSet(AllPairs(B)) /\ Cardinality(AllPairs(B)) = Cardinality(AllPairs(A)) + 1
         /\ IsFiniteSet(AllPairs(B)) =>
              IsFiniteSet(AllPairs(A)) /\ Cardinality(AllPairs(A)) = Cardinality(AllPairs(B)) - 1
<1>1. <<t, i>> \notin AllPairs(A)
  <2>1. ASSUME <<t, i>> \in AllPairs(A) PROVE FALSE
    <3>1. PICK u \in Threads : \E j \in A[u] : <<t, i>> = <<u, j>>
      BY <2>1, PairIn
    <3>2. PICK j \in A[u] : <<t, i>> = <<u, j>>
      BY <3>1
    <3>3. u = t /\ j = i
      BY <3>2
    <3> QED BY <3>2, <3>3
  <2> QED BY <2>1
<1>2. ASSUME NEW d PROVE d \in AllPairs(B) <=> d \in AllPairs(A) \/ d = <<t, i>>
  <2>1. ASSUME d \in AllPairs(B) PROVE d \in AllPairs(A) \/ d = <<t, i>>
    <3>1. PICK u \in Threads : \E j \in B[u] : d = <<u, j>>
      BY <2>1, PairIn
    <3>2. PICK j \in B[u] : d = <<u, j>>
      BY <3>1
    <3>3. CASE u = t /\ j = i
      BY <3>2, <3>3
    <3>4. CASE ~(u = t /\ j = i)
      <4>1. j \in A[u]
        BY <3>2, <3>4
      <4> QED BY <3>2, <4>1, PairIn
    <3> QED BY <3>3, <3>4
  <2>2. ASSUME d \in AllPairs(A) PROVE d \in AllPairs(B)
    <3>1. PICK u \in Threads : \E j \in A[u] : d = <<u, j>>
      BY <2>2, PairIn
    <3>2. PICK j \in A[u] : d = <<u, j>>
      BY <3>1
    <3>3. j \in B[u]
      BY <3>2
    <3> QED BY <3>2, <3>3, PairIn
  <2>3. ASSUME d = <<t, i>> PROVE d \in AllPairs(B)
    <3>1. i \in B[t]
      OBVIOUS
    <3> QED BY <2>3, <3>1, PairIn
  <2> QED BY <2>1, <2>2, <2>3
<1>3. AllPairs(B) = AllPairs(A) \cup {<<t, i>>} /\ AllPairs(A) = AllPairs(B) \ {<<t, i>>}
  BY <1>1, <1>2
<1>4. ASSUME IsFiniteSet(AllPairs(A))
      PROVE  IsFiniteSet(AllPairs(B)) /\ Cardinality(AllPairs(B)) = Cardinality(AllPairs(A)) + 1
  <2>1. /\ IsFiniteSet(AllPairs(A) \cup {<<t, i>>})
        /\ Cardinality(AllPairs(A) \cup {<<t, i>>}) = Cardinality(AllPairs(A)) + 1
    BY <1>1, <1>4, FS_AddElement
  <2> QED BY <1>3, <2>1
<1>5. ASSUME IsFiniteSet(AllPairs(B))
      PROVE  IsFiniteSet(AllPairs(A)) /\ Cardinality(AllPairs(A)) = Cardinality(AllPairs(B)) - 1
  <2>1. <<t, i>> \in AllPairs(B)
    BY <1>3
  <2> QED BY <1>3, <1>5, <2>1, FS_RemoveElement
<1> QED BY <1>1, <1>3, <1>4, <1>5

\* What a push does to the drops and the releasing calls of its thread.
LEMMA DropsPush ==
  ASSUME NEW f, NEW g, NEW e, Pushed(g, f, e)
  PROVE  /\ Len(g) \notin DropsIn(f) /\ Len(g) \notin ReleasesIn(f)
         /\ e.kind = "DropAllLocks" /\ e.count > 0 => DropsIn(g) = DropsIn(f) \cup {Len(g)}
         /\ ~(e.kind = "DropAllLocks" /\ e.count > 0) => DropsIn(g) = DropsIn(f)
         /\ e.kind = "unlock" /\ e.step # "drainMicrotasks" => ReleasesIn(g) = ReleasesIn(f) \cup {Len(g)}
         /\ ~(e.kind = "unlock" /\ e.step # "drainMicrotasks") => ReleasesIn(g) = ReleasesIn(f)
         /\ \A i \in DropsIn(f) : g[i].depth = f[i].depth
<1>1. Len(f) \in Nat /\ Len(g) = Len(f) + 1 /\ g[Len(g)] = e /\ \A k \in 1..Len(f) : g[k] = f[k]
  BY DEF Pushed
<1>2. \A i \in 1..Len(g) : i \in 1..Len(f) \/ i = Len(g)
  BY <1>1
<1>3. 1..Len(f) \subseteq 1..Len(g) /\ Len(g) \in 1..Len(g) /\ Len(g) \notin 1..Len(f)
  BY <1>1
<1>4. IsDrop(g, Len(g)) <=> e.kind = "DropAllLocks" /\ e.count > 0
  BY <1>1 DEF IsDrop
<1>5. IsUnlock(g, Len(g)) <=> e.kind = "unlock"
  BY <1>1 DEF IsUnlock
<1>6. \A k \in 1..Len(f) : (IsDrop(g, k) <=> IsDrop(f, k)) /\ (IsUnlock(g, k) <=> IsUnlock(f, k))
  BY <1>1 DEF IsDrop, IsUnlock
<1>7. Len(g) \notin DropsIn(f) /\ Len(g) \notin ReleasesIn(f)
  BY <1>3 DEF DropsIn, ReleasesIn
<1>8. \A k : k \in DropsIn(g) <=> k \in DropsIn(f) \/ (k = Len(g) /\ IsDrop(g, Len(g)))
  BY <1>2, <1>3, <1>6 DEF DropsIn
<1>9. \A k : k \in ReleasesIn(g) <=>
               k \in ReleasesIn(f) \/ (k = Len(g) /\ IsUnlock(g, Len(g)) /\ e.step # "drainMicrotasks")
  BY <1>1, <1>2, <1>3, <1>6 DEF ReleasesIn
<1>10. \A i \in DropsIn(f) : g[i].depth = f[i].depth
  BY <1>1 DEF DropsIn
<1>11. /\ e.kind = "DropAllLocks" /\ e.count > 0 => DropsIn(g) = DropsIn(f) \cup {Len(g)}
       /\ ~(e.kind = "DropAllLocks" /\ e.count > 0) => DropsIn(g) = DropsIn(f)
  BY <1>4, <1>8
<1>12. /\ e.kind = "unlock" /\ e.step # "drainMicrotasks" => ReleasesIn(g) = ReleasesIn(f) \cup {Len(g)}
       /\ ~(e.kind = "unlock" /\ e.step # "drainMicrotasks") => ReleasesIn(g) = ReleasesIn(f)
  BY <1>5, <1>9
<1> QED BY <1>7, <1>10, <1>11, <1>12

\* The depths of the drops that stay.
LEMMA DepthsKept ==
  ASSUME NEW d \in AllDrops,
         \A u \in Threads : \A i \in DropsIn(frames[u]) : frames'[u][i].depth = frames[u][i].depth
  PROVE  DepthOf(d)' = DepthOf(d)
<1>1. PICK u \in Threads : \E i \in DropsIn(frames[u]) : d = <<u, i>>
  BY PairIn DEF AllDrops
<1>2. PICK i \in DropsIn(frames[u]) : d = <<u, i>>
  BY <1>1
<1> QED BY <1>2 DEF DepthOf

LEMMA DropsStay ==
  ASSUME DropInv, lockDropDepth' = lockDropDepth,
         \A u \in Threads : /\ DropsIn(frames'[u]) = DropsIn(frames[u])
                            /\ \A i \in DropsIn(frames[u]) : frames'[u][i].depth = frames[u][i].depth
  PROVE  DropInv'
<1>1. AllDrops' = AllDrops
  BY PairsSame DEF AllDrops
<1>2. \A d \in AllDrops : DepthOf(d)' = DepthOf(d)
  BY DepthsKept
<1> QED BY <1>1, <1>2 DEF DropInv

LEMMA DropAdded ==
  ASSUME DropInv, lockDropDepth \in Nat, lockDropDepth' = lockDropDepth + 1,
         NEW t \in Threads, NEW k, k \notin DropsIn(frames[t]),
         DropsIn(frames'[t]) = DropsIn(frames[t]) \cup {k}, frames'[t][k].depth = lockDropDepth + 1,
         \A u \in Threads \ {t} : DropsIn(frames'[u]) = DropsIn(frames[u]),
         \A u \in Threads : \A i \in DropsIn(frames[u]) : frames'[u][i].depth = frames[u][i].depth
  PROVE  DropInv'
<1> DEFINE p == <<t, k>>
<1>1. /\ AllDrops' = AllDrops \cup {p} /\ p \notin AllDrops /\ IsFiniteSet(AllDrops')
      /\ Cardinality(AllDrops') = Cardinality(AllDrops) + 1
  BY PairsAdd DEF AllDrops, DropInv
<1>2. \A d \in AllDrops : DepthOf(d)' = DepthOf(d)
  BY DepthsKept
<1>3. DepthOf(p)' = lockDropDepth + 1
  BY DEF DepthOf
<1> HIDE DEF p
<1>4. \A d \in AllDrops : DepthOf(d) \in 1..lockDropDepth
  BY DEF DropInv
<1>5. \A d \in AllDrops : DepthOf(d)' # DepthOf(p)'
  BY <1>2, <1>3, <1>4
<1>6. {DepthOf(d)' : d \in AllDrops'} = {DepthOf(d) : d \in AllDrops} \cup {lockDropDepth + 1}
  BY <1>1, <1>2, <1>3
<1>7. 1..lockDropDepth \cup {lockDropDepth + 1} = 1..(lockDropDepth + 1)
  OBVIOUS
<1>8. \A d, e \in AllDrops' : DepthOf(d)' = DepthOf(e)' => d = e
  BY <1>1, <1>2, <1>5 DEF DropInv
<1> QED BY <1>1, <1>6, <1>7, <1>8 DEF DropInv

LEMMA DropRemoved ==
  ASSUME DropInv, lockDropDepth \in Nat, lockDropDepth' = lockDropDepth - 1,
         NEW t \in Threads, NEW k, k \notin DropsIn(frames'[t]),
         DropsIn(frames[t]) = DropsIn(frames'[t]) \cup {k}, frames[t][k].depth = lockDropDepth,
         \A u \in Threads \ {t} : DropsIn(frames'[u]) = DropsIn(frames[u]),
         \A u \in Threads : \A i \in DropsIn(frames'[u]) : frames'[u][i].depth = frames[u][i].depth
  PROVE  DropInv' /\ lockDropDepth' \in Nat
<1> DEFINE p == <<t, k>>
<1>1. /\ AllDrops = AllDrops' \cup {p} /\ p \notin AllDrops' /\ IsFiniteSet(AllDrops')
      /\ Cardinality(AllDrops') = Cardinality(AllDrops) - 1
  BY PairsAdd DEF AllDrops, DropInv
<1>2. ASSUME NEW d \in AllDrops' PROVE DepthOf(d)' = DepthOf(d)
  <2>1. PICK u \in Threads : \E i \in DropsIn(frames'[u]) : d = <<u, i>>
    BY PairIn DEF AllDrops
  <2>2. PICK i \in DropsIn(frames'[u]) : d = <<u, i>>
    BY <2>1
  <2> QED BY <2>2 DEF DepthOf
<1>3. DepthOf(p) = lockDropDepth
  BY DEF DepthOf
<1> HIDE DEF p
<1>4. \A d \in AllDrops' : DepthOf(d) # lockDropDepth
  BY <1>1, <1>3 DEF DropInv
<1>5. lockDropDepth \in 1..lockDropDepth
  BY <1>1, <1>3 DEF DropInv
<1>6. {DepthOf(d)' : d \in AllDrops'} = {DepthOf(d) : d \in AllDrops} \ {lockDropDepth}
  BY <1>1, <1>2, <1>3, <1>4
<1>7. 1..lockDropDepth \ {lockDropDepth} = 1..(lockDropDepth - 1) /\ lockDropDepth - 1 \in Nat
  BY <1>5
<1>8. \A d, e \in AllDrops' : DepthOf(d)' = DepthOf(e)' => d = e
  BY <1>1, <1>2 DEF DropInv
<1> QED BY <1>1, <1>6, <1>7, <1>8 DEF DropInv

LEMMA ReleasesStay ==
  ASSUME ReleaseInv, delayedReleases' = delayedReleases,
         \A u \in Threads : ReleasesIn(frames'[u]) = ReleasesIn(frames[u])
  PROVE  ReleaseInv'
<1>1. AllReleases' = AllReleases
  BY PairsSame DEF AllReleases
<1> QED BY <1>1 DEF ReleaseInv

LEMMA ReleaseAdded ==
  ASSUME ReleaseInv, delayedReleases' = delayedReleases + 1,
         NEW t \in Threads, NEW k, k \notin ReleasesIn(frames[t]),
         ReleasesIn(frames'[t]) = ReleasesIn(frames[t]) \cup {k},
         \A u \in Threads \ {t} : ReleasesIn(frames'[u]) = ReleasesIn(frames[u])
  PROVE  ReleaseInv'
<1>1. IsFiniteSet(AllReleases') /\ Cardinality(AllReleases') = Cardinality(AllReleases) + 1
  BY PairsAdd DEF AllReleases, ReleaseInv
<1> QED BY <1>1 DEF ReleaseInv

LEMMA ReleaseRemoved ==
  ASSUME ReleaseInv, delayedReleases' = delayedReleases - 1,
         NEW t \in Threads, NEW k, k \notin ReleasesIn(frames'[t]),
         ReleasesIn(frames[t]) = ReleasesIn(frames'[t]) \cup {k},
         \A u \in Threads \ {t} : ReleasesIn(frames'[u]) = ReleasesIn(frames[u])
  PROVE  ReleaseInv'
<1> DEFINE A == [u \in Threads |-> ReleasesIn(frames'[u])]
           B == [u \in Threads |-> ReleasesIn(frames[u])]
<1>1. IsFiniteSet(AllReleases') /\ Cardinality(AllReleases') = Cardinality(AllReleases) - 1
  <2>1. B[t] = A[t] \cup {k} /\ k \notin A[t] /\ \A u \in Threads \ {t} : B[u] = A[u]
    OBVIOUS
  <2>2. AllReleases' = AllPairs(A) /\ AllReleases = AllPairs(B)
    BY DEF AllReleases
  <2> HIDE DEF A, B
  <2> QED BY <2>1, <2>2, PairsAdd DEF ReleaseInv
<1> QED BY <1>1 DEF ReleaseInv

-----------------------------------------------------------------------------
(***************************************************************************)
(* The steps and the whole invariant.                                      *)
(***************************************************************************)
LEMMA DroppingPush ==
  ASSUME NEW f, NEW g, NEW e, Pushed(g, f, e)
  PROVE  Dropping(g) <=> Dropping(f) \/ (e.kind = "unlock" /\ e.caller = "dropAllLocks")
<1>1. Len(f) \in Nat /\ Len(g) = Len(f) + 1 /\ g[Len(g)] = e /\ \A k \in 1..Len(f) : g[k] = f[k]
  BY DEF Pushed
<1>2. \A i \in 1..Len(g) : i \in 1..Len(f) \/ i = Len(g)
  BY <1>1
<1>3. 1..Len(f) \subseteq 1..Len(g) /\ Len(g) \in 1..Len(g)
  BY <1>1
<1> QED BY <1>1, <1>2, <1>3 DEF Dropping, IsUnlock

\* A step in which no drop and no releasing call comes or goes.
LEMMA NothingComesOrGoes ==
  ASSUME DropInv, ReleaseInv, NEW t \in Threads, NEW e, \A u \in Threads \ {t} : frames'[u] = frames[u],
         Pushed(frames'[t], frames[t], e) \/ Pushed(frames[t], frames'[t], e),
         ~(e.kind = "DropAllLocks" /\ e.count > 0), ~(e.kind = "unlock" /\ e.step # "drainMicrotasks"),
         lockDropDepth' = lockDropDepth, delayedReleases' = delayedReleases
  PROVE  DropInv' /\ ReleaseInv' /\ DropsIn(frames'[t]) = DropsIn(frames[t])
<1>1. /\ DropsIn(frames'[t]) = DropsIn(frames[t]) /\ ReleasesIn(frames'[t]) = ReleasesIn(frames[t])
      /\ \A i \in DropsIn(frames[t]) : frames'[t][i].depth = frames[t][i].depth
  <2>1. CASE Pushed(frames'[t], frames[t], e)
    BY <2>1, DropsPush
  <2>2. CASE Pushed(frames[t], frames'[t], e)
    BY <2>2, DropsPush
  <2> QED BY <2>1, <2>2
<1>2. DropInv'
  BY <1>1, DropsStay
<1>3. ReleaseInv'
  BY <1>1, ReleasesStay
<1> QED BY <1>1, <1>2, <1>3

\* The assumption on the constants, in the form in which it is used.
LEMMA Constants ==
  /\ NoThread \notin Threads /\ OwnTable \notin Threads /\ NoTable \notin Threads /\ NoTable # OwnTable
  /\ MaxScopes \in [Threads -> Nat]
BY JSLockAssumption

LEMMA ScopeOpened ==
  ASSUME TypeInv, NEW t \in Threads, MayOpenScope(t)
  PROVE  scopes' \in [Threads -> Nat] /\ \A u \in Threads : scopes'[u] <= MaxScopes[u]
<1>1. /\ scopes' = [scopes EXCEPT ![t] = scopes[t] + 1] /\ scopes[t] < MaxScopes[t]
      /\ scopes \in [Threads -> Nat] /\ \A u \in Threads : scopes[u] <= MaxScopes[u]
  BY DEF MayOpenScope, TypeInv
<1>2. MaxScopes[t] \in Nat /\ scopes[t] \in Nat
  BY <1>1, Constants
<1>3. scopes[t] + 1 <= MaxScopes[t] /\ scopes[t] + 1 \in Nat
  BY <1>1, <1>2
<1>4. scopes' \in [Threads -> Nat] /\ scopes'[t] = scopes[t] + 1
  BY <1>1, <1>3
<1>5. \A u \in Threads \ {t} : scopes'[u] = scopes[u]
  BY <1>1
<1> QED BY <1>1, <1>3, <1>4, <1>5

LEMMA ConstructJSLockHolderInv ==
  ASSUME IInv, NEW t \in Threads, ConstructJSLockHolder(t)
  PROVE  IInv'
<1> USE DEF IInv
<1>1. Pushed(frames'[t], frames[t], Holder) /\ lockCount' \in Nat /\ LockInv'
  BY ConstructJSLockHolderStep
<1>2. /\ frames' = [frames EXCEPT ![t] = Append(frames[t], Holder)] /\ frames'[t] \in Seq(Frames)
      /\ frames' \in [Threads -> Seq(Frames)] /\ \A u \in Threads \ {t} : frames'[u] = frames[u]
  BY <1>1 DEF ConstructJSLockHolder, TypeInv, Pushed
<1>3. DropInv' /\ ReleaseInv' /\ DropsIn(frames'[t]) = DropsIn(frames[t])
  <2>1. lockDropDepth' = lockDropDepth /\ delayedReleases' = delayedReleases
    BY DEF ConstructJSLockHolder
  <2> QED BY <1>1, <1>2, <2>1, NothingComesOrGoes, HolderFrame
<1>4. pc[t] = "run" /\ (hasExclusiveThread => ownerThreadID = t)
  BY DEF ConstructJSLockHolder, MayOpenScope
<1>5. scopes' \in [Threads -> Nat] /\ \A u \in Threads : scopes'[u] <= MaxScopes[u]
  BY ScopeOpened DEF ConstructJSLockHolder
<1>6. Dropping(frames'[t]) <=> Dropping(frames[t])
  BY <1>1, DroppingPush, HolderFrame
<1>7. /\ CurrentThreadIsHoldingLock(t) => ownerThreadID = t /\ lockCount > 0
      /\ ~CurrentThreadIsHoldingLock(t) /\ ~hasExclusiveThread => ownerThreadID # t
      /\ ~CurrentThreadIsHoldingLock(t) /\ hasExclusiveThread => ownerThreadID = t /\ lockCount = 0
  BY <1>4, HoldingIsOwner
<1>8. /\ UNCHANGED <<mutex, ownerThreadID, lockDropDepth, hasExclusiveThread, vmTable, delayedReleases,
                     savedStackPointer, savedLastStackTop>>
  BY DEF ConstructJSLockHolder
<1>9. CASE /\ CurrentThreadIsHoldingLock(t) /\ lockCount' = lockCount + 1
           /\ UNCHANGED <<entryTable, stackPointer, lastStackTop, registered, table, pc>>
  <2>1. TypeInv'
    BY <1>1, <1>2, <1>5, <1>8, <1>9 DEF TypeInv
  <2>2. EntryInv'
    <3>1. lockCount > 0 /\ lockCount' > 0 /\ lockCount' # 0
      BY <1>7, <1>9 DEF TypeInv
    <3> QED BY <1>2, <1>3, <1>6, <1>8, <1>9, <3>1 DEF EntryInv
  <2> QED BY <1>1, <1>3, <2>1, <2>2
<1>10. CASE /\ ~CurrentThreadIsHoldingLock(t) /\ hasExclusiveThread /\ lockCount' = 1
            /\ DidAcquireLock(t) /\ UNCHANGED pc
  <2>1. TypeInv'
    BY <1>1, <1>2, <1>5, <1>8, <1>10 DEF TypeInv, DidAcquireLock
  <2>2. ownerThreadID = t /\ vmTable = t /\ table[t] = t /\ savedLastStackTop[t] = t
    BY <1>7, <1>10 DEF EntryInv
  <2>3. /\ stackPointer' = t /\ lastStackTop' = t /\ t \in registered' /\ entryTable' = t
        /\ table'[t] = t /\ \A u \in Threads \ {t} : table'[u] = table[u]
    BY <1>10, <2>2 DEF DidAcquireLock, TypeInv
  <2>4. EntryInv'
    BY <1>2, <1>3, <1>8, <1>10, <2>2, <2>3 DEF EntryInv
  <2> QED BY <1>1, <1>3, <2>1, <2>4
<1>11. CASE /\ ~CurrentThreadIsHoldingLock(t) /\ ~hasExclusiveThread /\ pc' = [pc EXCEPT ![t] = "lock"]
            /\ UNCHANGED <<lockCount, entryTable, stackPointer, lastStackTop, registered, table>>
  <2>1. TypeInv'
    BY <1>1, <1>2, <1>5, <1>8, <1>11 DEF TypeInv
  <2>2. EntryInv'
    BY <1>2, <1>3, <1>6, <1>8, <1>11 DEF EntryInv
  <2> QED BY <1>1, <1>3, <2>1, <2>2
<1> QED BY <1>9, <1>10, <1>11 DEF ConstructJSLockHolder

LEMMA DestroyJSLockHolderInv ==
  ASSUME IInv, NEW t \in Threads, DestroyJSLockHolder(t)
  PROVE  IInv'
<1> USE DEF IInv
<1> DEFINE e == Unlocking(1, "JSLockHolder")
<1>1. /\ \/ Pushed(frames'[t], frames[t], e) /\ lockCount' = lockCount
         \/ Pushed(frames[t], frames'[t], Holder) /\ lockCount' > 0
      /\ ownerThreadID = t /\ lockCount > 0 /\ lockCount' \in Nat /\ LockInv'
  BY DestroyJSLockHolderStep
<1>2. e.kind = "unlock" /\ e.caller = "JSLockHolder" /\ e.step = "drainMicrotasks"
  BY UnlockFrame DEF Callers
<1> HIDE DEF e
<1>3. UNCHANGED <<mutex, ownerThreadID, lockDropDepth, hasExclusiveThread, entryTable, vm,
                  savedStackPointer, savedLastStackTop, table, pc, scopes>>
  BY DEF DestroyJSLockHolder
<1>4. /\ frames' \in [Threads -> Seq(Frames)] /\ \A u \in Threads \ {t} : frames'[u] = frames[u]
  <2>1. frames'[t] \in Seq(Frames)
    BY <1>1 DEF Pushed
  <2>2. PICK g : frames' = [frames EXCEPT ![t] = g]
    BY DEF DestroyJSLockHolder
  <2> QED BY <2>1, <2>2 DEF TypeInv
<1>5. DropInv' /\ ReleaseInv' /\ DropsIn(frames'[t]) = DropsIn(frames[t])
  <2>1. lockDropDepth' = lockDropDepth /\ delayedReleases' = delayedReleases
    BY <1>3 DEF vm
  <2>2. CASE Pushed(frames'[t], frames[t], e)
    BY <1>2, <1>4, <2>1, <2>2, NothingComesOrGoes
  <2>3. CASE Pushed(frames[t], frames'[t], Holder)
    BY <1>4, <2>1, <2>3, NothingComesOrGoes, HolderFrame
  <2> QED BY <1>1, <2>2, <2>3
<1>6. Dropping(frames'[t]) <=> Dropping(frames[t])
  BY <1>1, <1>2, DroppingPush, HolderFrame
<1>7. TypeInv'
  BY <1>1, <1>3, <1>4 DEF TypeInv, vm
<1>8. EntryInv'
  <2>1. lockCount > 0 /\ lockCount' > 0 /\ lockCount' # 0
    BY <1>1
  <2> QED BY <1>3, <1>4, <1>5, <1>6, <2>1 DEF EntryInv, vm
<1> QED BY <1>1, <1>5, <1>7, <1>8

LEMMA ConstructDropAllLocksInv ==
  ASSUME IInv, NEW t \in Threads, ConstructDropAllLocks(t)
  PROVE  IInv'
<1> USE DEF IInv
<1>1. /\ UNCHANGED <<mutex, ownerThreadID, lockCount, hasExclusiveThread, entryTable, vm, pc>>
      /\ table' = [table EXCEPT ![t] = t] /\ MayOpenScope(t)
      /\ hasExclusiveThread => ownerThreadID = t
  BY DEF ConstructDropAllLocks, ResetCurrentAtomicStringTable, MayOpenScope
<1>2. scopes' \in [Threads -> Nat] /\ \A u \in Threads : scopes'[u] <= MaxScopes[u]
  BY <1>1, ScopeOpened
<1>3. PICK g : frames' = [frames EXCEPT ![t] = g]
  BY DEF ConstructDropAllLocks
<1>4. \A u \in Threads \ {t} : frames'[u] = frames[u]
  BY <1>3 DEF TypeInv
<1>5. frames'[t] \in Seq(Frames) => frames' \in [Threads -> Seq(Frames)]
  BY <1>3 DEF TypeInv
<1>6. table'[t] = t /\ table' \in [Threads -> Threads \cup {OwnTable}]
      /\ \A u \in Threads \ {t} : table'[u] = table[u]
  BY <1>1 DEF TypeInv
<1>7. LockInv'
  BY ConstructDropAllLocksStep
<1>8. delayedReleases' = delayedReleases
  BY <1>1 DEF vm
<1>9. CASE /\ Pushed(frames'[t], frames[t], Dropped(0, 0))
           /\ UNCHANGED <<lockDropDepth, savedStackPointer, savedLastStackTop>>
           /\ hasExclusiveThread \/ ownerThreadID # t
  <2>1. Dropped(0, 0).kind = "DropAllLocks" /\ ~(Dropped(0, 0).count > 0)
    BY DropFrame
  <2>2. DropInv' /\ ReleaseInv' /\ DropsIn(frames'[t]) = DropsIn(frames[t])
    BY <1>4, <1>8, <1>9, <2>1, NothingComesOrGoes
  <2>3. Dropping(frames'[t]) <=> Dropping(frames[t])
    BY <1>9, <2>1, DroppingPush
  <2>4. frames' \in [Threads -> Seq(Frames)]
    BY <1>5, <1>9 DEF Pushed
  <2>5. TypeInv'
    BY <1>1, <1>2, <1>6, <1>9, <2>4 DEF TypeInv, vm
  <2>6. EntryInv'
    BY <1>1, <1>4, <1>6, <1>9, <2>2, <2>3 DEF EntryInv, vm
  <2> QED BY <1>7, <2>2, <2>5, <2>6
<1>10. ASSUME NEW h, Pushed(h, frames[t], Dropped(lockCount, lockDropDepth + 1)),
              Pushed(frames'[t], h, Unlocking(lockCount, "dropAllLocks")),
              lockDropDepth' = lockDropDepth + 1,
              savedStackPointer' = [savedStackPointer EXCEPT ![t] = stackPointer],
              savedLastStackTop' = [savedLastStackTop EXCEPT ![t] = lastStackTop],
              ownerThreadID = t, lockCount > 0, ~hasExclusiveThread
       PROVE  IInv'
  <2> DEFINE d == Dropped(lockCount, lockDropDepth + 1)
             e == Unlocking(lockCount, "dropAllLocks")
  <2>1. lockCount \in Nat /\ lockDropDepth \in Nat /\ lockDropDepth + 1 \in Nat
    BY DEF TypeInv
  <2>2. d.kind = "DropAllLocks" /\ d.count > 0 /\ d.depth = lockDropDepth + 1
    BY <1>10, <2>1, DropFrame
  <2>3. e.kind = "unlock" /\ e.step = "drainMicrotasks" /\ e.caller = "dropAllLocks"
    BY <2>1, UnlockFrame DEF Callers
  <2> HIDE DEF d, e
  <2>4. Pushed(h, frames[t], d) /\ Pushed(frames'[t], h, e)
    BY <1>10 DEF d, e
  <2>5. /\ DropsIn(h) = DropsIn(frames[t]) \cup {Len(h)} /\ Len(h) \notin DropsIn(frames[t])
        /\ ReleasesIn(h) = ReleasesIn(frames[t])
        /\ \A i \in DropsIn(frames[t]) : h[i].depth = frames[t][i].depth
    BY <2>2, <2>4, DropsPush
  <2>6. /\ DropsIn(frames'[t]) = DropsIn(h) /\ ReleasesIn(frames'[t]) = ReleasesIn(h)
        /\ \A i \in DropsIn(h) : frames'[t][i].depth = h[i].depth
    BY <2>3, <2>4, DropsPush
  <2>7. h[Len(h)] = d
    BY <2>4 DEF Pushed
  <2>8. DropInv'
    <3>1. frames'[t][Len(h)].depth = lockDropDepth + 1
      BY <2>2, <2>5, <2>6, <2>7
    <3>2. \A u \in Threads : \A i \in DropsIn(frames[u]) : frames'[u][i].depth = frames[u][i].depth
      BY <1>4, <2>5, <2>6
    <3>3. DropsIn(frames'[t]) = DropsIn(frames[t]) \cup {Len(h)} /\ Len(h) \notin DropsIn(frames[t])
      BY <2>5, <2>6
    <3> QED BY <1>4, <1>10, <2>1, <3>1, <3>2, <3>3, DropAdded
  <2>9. ReleaseInv'
    BY <1>4, <1>8, <2>5, <2>6, ReleasesStay
  <2>10. Dropping(frames'[t])
    BY <2>3, <2>4, DroppingPush
  <2>11. frames' \in [Threads -> Seq(Frames)]
    BY <1>5, <2>4 DEF Pushed
  <2>12. TypeInv'
    <3>1. /\ savedStackPointer' \in [Threads -> Threads \cup {NoThread}]
          /\ savedLastStackTop' \in [Threads -> Threads \cup {NoThread}]
      BY <1>10 DEF TypeInv
    <3>2. lockDropDepth' \in Nat
      BY <1>10, <2>1
    <3> QED BY <1>1, <1>2, <1>6, <2>11, <3>1, <3>2 DEF TypeInv, vm
  <2>13. stackPointer = t /\ lastStackTop = t
    BY <1>10 DEF EntryInv
  <2>14. /\ savedStackPointer'[t] = t /\ savedLastStackTop'[t] = t
         /\ \A u \in Threads \ {t} : /\ savedStackPointer'[u] = savedStackPointer[u]
                                     /\ savedLastStackTop'[u] = savedLastStackTop[u]
    BY <1>10, <2>13 DEF TypeInv
  <2>15. EntryInv'
    BY <1>1, <1>4, <1>10, <2>10, <2>14 DEF EntryInv, vm
  <2> QED BY <1>7, <2>8, <2>9, <2>12, <2>15
<1> QED BY <1>9, <1>10, ConstructDropAllLocksStep

LEMMA DestroyDropAllLocksInv ==
  ASSUME IInv, NEW t \in Threads, DestroyDropAllLocks(t)
  PROVE  IInv'
<1> USE DEF IInv
<1>1. UNCHANGED <<lock, vm, savedStackPointer, savedLastStackTop, scopes>>
  BY DEF DestroyDropAllLocks
<1>2. LockInv'
  BY DestroyDropAllLocksStep
<1>3. lockDropDepth' = lockDropDepth /\ delayedReleases' = delayedReleases
  BY <1>1 DEF lock, vm
<1>4. ASSUME NEW e \in Frames, e.kind = "DropAllLocks", e.count = 0, Pushed(frames[t], frames'[t], e),
             table' = [table EXCEPT ![t] = vmTable], pc' = pc
      PROVE  IInv'
  <2>1. frames' \in [Threads -> Seq(Frames)] /\ \A u \in Threads \ {t} : frames'[u] = frames[u]
    <3>1. frames'[t] \in Seq(Frames)
      BY <1>4 DEF Pushed
    <3>2. frames' = frames \/ \E g : frames' = [frames EXCEPT ![t] = g]
      BY DEF DestroyDropAllLocks
    <3> QED BY <3>1, <3>2 DEF TypeInv
  <2>2. ~(e.count > 0)
    BY <1>4
  <2>3. DropInv' /\ ReleaseInv' /\ DropsIn(frames'[t]) = DropsIn(frames[t])
    BY <1>3, <1>4, <2>1, <2>2, NothingComesOrGoes
  <2>4. Dropping(frames'[t]) <=> Dropping(frames[t])
    BY <1>4, DroppingPush
  <2>5. /\ table'[t] = vmTable /\ table' \in [Threads -> Threads \cup {OwnTable}]
        /\ \A u \in Threads \ {t} : table'[u] = table[u]
    BY <1>4 DEF TypeInv
  <2>6. TypeInv'
    BY <1>1, <1>4, <2>1, <2>5 DEF TypeInv, lock, vm
  <2>7. hasExclusiveThread => ownerThreadID \in Threads
    BY DEF LockInv, OwnerOK, TypeInv
  <2>8. EntryInv'
    BY <1>1, <2>1, <2>3, <2>4, <2>5, <2>7 DEF EntryInv, lock, vm
  <2> QED BY <1>2, <2>3, <2>6, <2>8
<1>5. CASE frames' = frames /\ table' = table /\ pc' = [pc EXCEPT ![t] = "grab"]
  <2>1. TypeInv'
    BY <1>1, <1>5 DEF TypeInv, lock, vm
  <2>2. EntryInv'
    BY <1>1, <1>5 DEF EntryInv, lock, vm
  <2>3. DropInv' /\ ReleaseInv'
    BY <1>3, <1>5, DropsStay, ReleasesStay
  <2> QED BY <1>2, <2>1, <2>2, <2>3
<1> QED BY <1>4, <1>5, DestroyDropAllLocksStep

LEMMA LockInvariant ==
  ASSUME IInv, NEW t \in Threads, Lock(t)
  PROVE  IInv'
<1> USE DEF IInv
<1>1. /\ ownerThreadID = NoThread /\ ~hasExclusiveThread
      /\ lockCount' \in Nat /\ lockCount' > 0 /\ LockInv'
  BY LockStepOK
<1>2. /\ UNCHANGED <<lockDropDepth, hasExclusiveThread, vmTable, delayedReleases, savedStackPointer,
                     savedLastStackTop, frames, scopes>>
      /\ ownerThreadID' = t /\ mutex' = t /\ DidAcquireLock(t)
      /\ pc' = [pc EXCEPT ![t] = IF pc[t] = "grab" THEN "checkDepth" ELSE "run"]
  BY DEF Lock
<1>3. DropInv' /\ ReleaseInv'
  BY <1>2, DropsStay, ReleasesStay
<1>4. pc' \in [Threads -> {"run", "lock", "grab", "checkDepth"}]
  BY <1>2 DEF TypeInv
<1>5. TypeInv'
  BY <1>1, <1>2, <1>4 DEF TypeInv, DidAcquireLock
<1>6. /\ stackPointer' = t /\ lastStackTop' = t /\ t \in registered' /\ table'[t] = vmTable
  BY <1>2 DEF DidAcquireLock, EntryInv, TypeInv
<1>7. lockCount' # 0
  BY <1>1
<1>8. EntryInv'
  BY <1>1, <1>2, <1>6, <1>7 DEF EntryInv
<1> QED BY <1>1, <1>3, <1>5, <1>8

LEMMA GrabAllLocksRetryInv ==
  ASSUME IInv, NEW t \in Threads, GrabAllLocksRetry(t)
  PROVE  IInv'
<1> USE DEF IInv
<1>1. LockInv' /\ \E c \in Nat : Pushed(frames'[t], frames[t], Unlocking(c, "grabAllLocks"))
  BY GrabAllLocksRetryStep
<1>2. PICK c \in Nat : Pushed(frames'[t], frames[t], Unlocking(c, "grabAllLocks"))
  BY <1>1
<1> DEFINE e == Unlocking(c, "grabAllLocks")
<1>3. e.kind = "unlock" /\ e.caller = "grabAllLocks" /\ e.step = "drainMicrotasks"
  BY UnlockFrame DEF Callers
<1>4. Pushed(frames'[t], frames[t], e)
  BY <1>2
<1> HIDE DEF e
<1>5. /\ UNCHANGED <<lock, vm, savedStackPointer, savedLastStackTop, table, scopes>>
      /\ pc' = [pc EXCEPT ![t] = "run"] /\ \E g : frames' = [frames EXCEPT ![t] = g]
  BY DEF GrabAllLocksRetry
<1>6. frames' \in [Threads -> Seq(Frames)] /\ \A u \in Threads \ {t} : frames'[u] = frames[u]
  BY <1>4, <1>5 DEF TypeInv, Pushed
<1>7. DropInv' /\ ReleaseInv' /\ DropsIn(frames'[t]) = DropsIn(frames[t])
  <2>1. lockDropDepth' = lockDropDepth /\ delayedReleases' = delayedReleases
    BY <1>5 DEF lock, vm
  <2> QED BY <1>3, <1>4, <1>6, <2>1, NothingComesOrGoes
<1>8. Dropping(frames'[t]) <=> Dropping(frames[t])
  BY <1>3, <1>4, DroppingPush
<1>9. TypeInv'
  BY <1>5, <1>6 DEF TypeInv, lock, vm
<1>10. EntryInv'
  BY <1>5, <1>6, <1>7, <1>8 DEF EntryInv, lock, vm
<1> QED BY <1>1, <1>7, <1>9, <1>10

LEMMA GrabAllLocksInv ==
  ASSUME IInv, NEW t \in Threads, GrabAllLocks(t)
  PROVE  IInv'
<1> USE DEF IInv
<1> DEFINE f == frames[t]  n == Len(f)
<1>1. /\ LockInv' /\ ownerThreadID = t /\ lockCount > 0 /\ ~hasExclusiveThread
      /\ Pushed(f, frames'[t], f[n]) /\ IsDrop(f, n) /\ Last(f) = f[n]
  BY GrabAllLocksStep
<1>2. /\ UNCHANGED <<mutex, ownerThreadID, lockCount, hasExclusiveThread, entryTable, vmTable,
                     delayedReleases, registered, savedStackPointer, savedLastStackTop, scopes>>
      /\ pc' = [pc EXCEPT ![t] = "run"] /\ lockDropDepth' = lockDropDepth - 1
      /\ stackPointer' = savedStackPointer[t] /\ lastStackTop' = savedLastStackTop[t]
      /\ table' = [table EXCEPT ![t] = vmTable] /\ \E g : frames' = [frames EXCEPT ![t] = g]
      /\ f[n].depth = lockDropDepth
  BY <1>1 DEF GrabAllLocks, MayGrab
<1>3. frames' \in [Threads -> Seq(Frames)] /\ \A u \in Threads \ {t} : frames'[u] = frames[u]
  BY <1>1, <1>2 DEF TypeInv, Pushed
<1>4. /\ DropsIn(f) = DropsIn(frames'[t]) \cup {n} /\ n \notin DropsIn(frames'[t])
      /\ ReleasesIn(f) = ReleasesIn(frames'[t])
      /\ \A i \in DropsIn(frames'[t]) : frames'[t][i].depth = f[i].depth
  BY <1>1, DropsPush DEF IsDrop
<1>5. DropInv' /\ lockDropDepth' \in Nat
  <2>1. lockDropDepth \in Nat
    BY DEF TypeInv
  <2> HIDE DEF n
  <2>2. \A u \in Threads : \A i \in DropsIn(frames'[u]) : frames'[u][i].depth = frames[u][i].depth
    BY <1>3, <1>4
  <2> QED BY <1>2, <1>3, <1>4, <2>1, <2>2, DropRemoved
<1>6. ReleaseInv'
  BY <1>2, <1>3, <1>4, ReleasesStay
<1>7. Dropping(frames'[t]) <=> Dropping(f)
  BY <1>1, DroppingPush DEF IsDrop
<1>8. /\ table'[t] = vmTable /\ table' \in [Threads -> Threads \cup {OwnTable}]
      /\ \A u \in Threads \ {t} : table'[u] = table[u]
  BY <1>2 DEF TypeInv
<1>9. TypeInv'
  BY <1>2, <1>3, <1>5, <1>8 DEF TypeInv
<1>10. savedStackPointer[t] = t /\ savedLastStackTop[t] = t
  BY <1>4 DEF EntryInv
<1>11. DropsIn(frames'[t]) # {} => DropsIn(f) # {}
  BY <1>4
<1>12. EntryInv'
  BY <1>1, <1>2, <1>3, <1>7, <1>8, <1>10, <1>11 DEF EntryInv
<1> QED BY <1>1, <1>5, <1>6, <1>9, <1>12

LEMMA ReleaseDelayedReleasedObjectsInv ==
  ASSUME IInv, NEW t \in Threads, ReleaseDelayedReleasedObjects(t)
  PROVE  IInv'
<1> USE DEF IInv
<1> DEFINE f == frames[t]  n == Len(f)  g == frames'[t]
<1>1. /\ LockInv' /\ g \in Seq(Frames) /\ n = Len(g) /\ \A k \in 1..n : Alike(f[k], g[k])
      /\ n \in 1..n /\ IsUnlock(f, n) /\ f[n].step = "drainMicrotasks"
      /\ g[n].step \in {"release", "return"} /\ \A k \in 1..(n - 1) : g[k] = f[k]
  BY ReleaseDelayedReleasedObjectsStep
<1>2. /\ UNCHANGED <<lock, vmTable, stackPointer, lastStackTop, registered, savedStackPointer,
                     savedLastStackTop, table, pc, scopes>>
      /\ delayedReleases' = delayedReleases + 1
  BY DEF ReleaseDelayedReleasedObjects
<1>3. PICK x : frames' = [frames EXCEPT ![t][n].step = x]
  BY DEF ReleaseDelayedReleasedObjects
<1>4. frames' \in [Threads -> Seq(Frames)] /\ \A u \in Threads \ {t} : frames'[u] = frames[u]
  BY <1>1, <1>3 DEF TypeInv
<1>5. n = Len(f) /\ n \in Nat
  BY DEF TypeInv
<1> HIDE DEF f, g, n
<1>6. DropsIn(g) = DropsIn(f) /\ \A i \in DropsIn(f) : g[i].depth = f[i].depth
  BY <1>1, <1>5 DEF DropsIn, IsDrop, Alike
<1>7. ReleasesIn(g) = ReleasesIn(f) \cup {n} /\ n \notin ReleasesIn(f)
  <2>1. \A k \in 1..n : k \in 1..(n - 1) \/ k = n
    BY <1>5
  <2>2. IsUnlock(g, n) /\ g[n].step # "drainMicrotasks"
    BY <1>1 DEF IsUnlock, Alike
  <2>3. \A k \in 1..(n - 1) : /\ k \in 1..n
                              /\ IsUnlock(g, k) <=> IsUnlock(f, k)
                              /\ g[k].step = f[k].step
    BY <1>1, <1>5 DEF IsUnlock
  <2>4. \A k : k \in ReleasesIn(g) <=> k \in ReleasesIn(f) \/ k = n
    BY <1>1, <1>5, <2>1, <2>2, <2>3 DEF ReleasesIn
  <2> QED BY <1>1, <2>4 DEF ReleasesIn
<1>8. DropInv'
  BY <1>2, <1>4, <1>6, DropsStay DEF f, g, lock
<1>9. ReleaseInv'
  BY <1>2, <1>4, <1>7, ReleaseAdded DEF f, g
<1>10. Dropping(g) <=> Dropping(f)
  BY <1>1, <1>5 DEF Dropping, Alike, IsUnlock
<1>11. TypeInv'
  BY <1>2, <1>4 DEF TypeInv, lock
<1>12. EntryInv'
  BY <1>2, <1>4, <1>6, <1>10 DEF EntryInv, lock, f, g
<1> QED BY <1>1, <1>8, <1>9, <1>11, <1>12

LEMMA UnlockInv ==
  ASSUME IInv, NEW t \in Threads, Unlock(t)
  PROVE  IInv'
<1> USE DEF IInv
<1> DEFINE f == frames[t]  g == frames'[t]  e == Last(f)
<1>1. /\ LockInv' /\ ownerThreadID = t /\ lockCount > 0 /\ lockCount' = 0
      /\ ~hasExclusiveThread => ownerThreadID' = NoThread
      /\ e.kind = "unlock" /\ e.step \in {"release", "return"}
      /\ \/ Pushed(f, g, e)
         \/ \E h : Pushed(f, h, e) /\ Pushed(h, g, Holder)
  BY UnlockStep
<1>2. /\ UNCHANGED <<lockDropDepth, hasExclusiveThread, vmTable, lastStackTop, registered,
                     savedStackPointer, savedLastStackTop, scopes>>
      /\ delayedReleases' = delayedReleases - 1
      /\ stackPointer' = NoThread /\ entryTable' = NoTable
      /\ table' = IF entryTable = NoTable THEN table ELSE [table EXCEPT ![t] = entryTable]
      /\ pc' = [pc EXCEPT ![t] = IF e.caller = "grabAllLocks" THEN "grab" ELSE "run"]
      /\ \E x : frames' = [frames EXCEPT ![t] = x]
      /\ (ownerThreadID' = NoThread /\ mutex' = NoThread /\ ~hasExclusiveThread)
         \/ UNCHANGED <<ownerThreadID, mutex>>
  BY DEF Unlock, ClearEntry
<1> HIDE DEF e
<1>3. frames' \in [Threads -> Seq(Frames)] /\ \A u \in Threads \ {t} : frames'[u] = frames[u]
  <2>1. g \in Seq(Frames)
    BY <1>1 DEF Pushed
  <2> QED BY <1>2, <2>1 DEF TypeInv
<1>4. /\ DropsIn(g) = DropsIn(f) /\ ReleasesIn(f) = ReleasesIn(g) \cup {Len(f)}
      /\ Len(f) \notin ReleasesIn(g) /\ \A i \in DropsIn(f) : g[i].depth = f[i].depth
  <2> HIDE DEF f, g
  <2>1. CASE Pushed(f, g, e)
    BY <1>1, <2>1, DropsPush
  <2>2. ASSUME NEW h, Pushed(f, h, e), Pushed(h, g, Holder)
        PROVE  /\ DropsIn(g) = DropsIn(f) /\ ReleasesIn(f) = ReleasesIn(g) \cup {Len(f)}
               /\ Len(f) \notin ReleasesIn(g) /\ \A i \in DropsIn(f) : g[i].depth = f[i].depth
    BY <1>1, <2>2, DropsPush, HolderFrame
  <2> QED BY <1>1, <2>1, <2>2
<1>5. DropInv'
  BY <1>2, <1>3, <1>4, DropsStay
<1>6. ReleaseInv'
  BY <1>2, <1>3, <1>4, ReleaseRemoved
<1>7. /\ table' \in [Threads -> Threads \cup {OwnTable}]
      /\ \A u \in Threads \ {t} : table'[u] = table[u]
      /\ hasExclusiveThread => table'[t] = t /\ vmTable = t /\ ownerThreadID' = t
  <2>1. hasExclusiveThread => /\ vmTable = t /\ table[t] = t /\ entryTable \in {NoTable, t}
                              /\ ownerThreadID' = t
    BY <1>1, <1>2 DEF EntryInv
  <2> QED BY <1>2, <2>1 DEF TypeInv
<1>8. ownerThreadID' \in Threads \cup {NoThread} /\ mutex' \in Threads \cup {NoThread} /\ lockCount' \in Nat
  BY <1>1, <1>2 DEF TypeInv
<1>9. pc' \in [Threads -> {"run", "lock", "grab", "checkDepth"}]
  BY <1>2 DEF TypeInv
<1>10. TypeInv'
  BY <1>2, <1>3, <1>7, <1>8, <1>9 DEF TypeInv
<1>11. EntryInv'
  <2>1. /\ \A u \in Threads :
              savedLastStackTop'[u] = u /\ (DropsIn(frames'[u]) # {} => savedStackPointer'[u] = u)
    BY <1>2, <1>3, <1>4 DEF EntryInv
  <2>2. ASSUME NEW u \in Threads, ownerThreadID' = u PROVE table'[u] = vmTable'
    <3>1. hasExclusiveThread
      BY <1>1, <2>2, Constants
    <3> QED BY <1>2, <1>7, <2>2, <3>1
  <2>3. hasExclusiveThread' => /\ vmTable' = ownerThreadID' /\ table'[ownerThreadID'] = ownerThreadID'
                               /\ entryTable' \in {NoTable, ownerThreadID'}
    BY <1>2, <1>7
  <2> QED BY <1>1, <1>2, <2>1, <2>2, <2>3 DEF EntryInv
<1> QED BY <1>1, <1>5, <1>6, <1>10, <1>11

-----------------------------------------------------------------------------
LEMMA InitInv == Init => IInv
<1> SUFFICES ASSUME Init PROVE IInv
  OBVIOUS
<1>a. /\ ownerThreadID \in Threads \cup {NoThread}
      /\ hasExclusiveThread <=> ownerThreadID # NoThread
      /\ hasExclusiveThread \in BOOLEAN
  BY Zenon DEF Init, SetExclusiveThread
<1>b. hasExclusiveThread => vmTable = ownerThreadID
  BY Zenon DEF Init
<1>c. ~hasExclusiveThread => vmTable = OwnTable
  BY Zenon DEF Init
<1>d. vmTable \in Threads \cup {OwnTable}
  <2>1. CASE hasExclusiveThread
    BY <1>a, <1>b, <2>1
  <2>2. CASE ~hasExclusiveThread
    BY <1>c, <2>2
  <2> QED BY <2>1, <2>2
<1>e. /\ lockCount = 0 /\ lockDropDepth = 0 /\ mutex = NoThread /\ entryTable = NoTable
      /\ stackPointer = NoThread /\ lastStackTop = NoThread /\ registered = {}
  BY DEF Init
<1>f. frames \in [Threads -> Seq(Frames)]
  BY DEF Init
<1>g. /\ savedStackPointer \in [Threads -> Threads \cup {NoThread}]
      /\ savedLastStackTop \in [Threads -> Threads \cup {NoThread}]
      /\ table \in [Threads -> Threads \cup {OwnTable}]
      /\ pc \in [Threads -> {"run", "lock", "grab", "checkDepth"}]
  BY DEF Init
<1>h. scopes \in [Threads -> Nat] /\ \A t \in Threads : scopes[t] <= MaxScopes[t]
  BY Constants DEF Init
<1>1. TypeInv
  BY <1>a, <1>d, <1>e, <1>f, <1>g, <1>h DEF TypeInv
<1>2. \A t \in Threads : /\ frames[t] = <<>> /\ Len(frames[t]) = 0 /\ pc[t] = "run"
                         /\ savedLastStackTop[t] = t /\ table[t] = t
  BY DEF Init
<1>3. \A t \in Threads : Held(frames[t]) = {} /\ DropsIn(frames[t]) = {} /\ ReleasesIn(frames[t]) = {}
  BY <1>2 DEF Held, Kept, DropsIn, ReleasesIn
<1>4. Cardinality({}) = 0 /\ IsFiniteSet({})
  BY FS_EmptySet
<1>5. LockInv
  <2>1. OwnerOK
    BY DEF Init, SetExclusiveThread, OwnerOK
  <2>2. ASSUME NEW t \in Threads PROVE StackOK(frames[t]) /\ ControlOK(t) /\ CountOK(t)
    <3>1. StackOK(frames[t])
      BY <1>2 DEF StackOK
    <3>2. ControlOK(t)
      BY <1>2 DEF ControlOK
    <3>3. lockCount = 0
      BY DEF Init
    <3>4. CountOK(t)
      BY <1>2, <1>3, <1>4, <3>3 DEF CountOK
    <3> QED BY <3>1, <3>2, <3>4
  <2> QED BY <2>1, <2>2 DEF LockInv
<1>6. AllDrops = {} /\ AllReleases = {}
  BY <1>3 DEF AllDrops, AllReleases, AllPairs
<1>7. DropInv
  <2>1. lockDropDepth = 0
    BY DEF Init
  <2> QED BY <1>4, <1>6, <2>1 DEF DropInv
<1>8. ReleaseInv
  <2>1. delayedReleases = 0
    BY DEF Init
  <2> QED BY <1>4, <1>6, <2>1 DEF ReleaseInv
<1>9. EntryInv
  <2>1. hasExclusiveThread => /\ vmTable = ownerThreadID /\ table[ownerThreadID] = ownerThreadID
                              /\ entryTable \in {NoTable, ownerThreadID}
    BY <1>a, <1>b, <1>e, <1>2
  <2>2. ASSUME NEW t \in Threads, ownerThreadID = t PROVE table[t] = vmTable
    <3>1. hasExclusiveThread
      BY <1>a, <2>2, Constants
    <3> QED BY <2>1, <2>2, <3>1
  <2> QED BY <1>2, <1>3, <1>e, <2>1, <2>2 DEF EntryInv
<1> QED BY <1>1, <1>5, <1>7, <1>8, <1>9 DEF IInv

LEMMA NextInv == IInv /\ [Next]_vars => IInv'
<1> SUFFICES ASSUME IInv, [Next]_vars PROVE IInv'
  OBVIOUS
<1>1. ASSUME UNCHANGED vars PROVE IInv'
  <2>1. TypeInv' /\ EntryInv'
    BY <1>1 DEF IInv, TypeInv, EntryInv, vars, lock, vm, threads
  <2>2. LockInv'
    BY <1>1 DEF IInv, LockInv, OwnerOK, ControlOK, CountOK, vars, lock, threads
  <2>3. DropInv'
    BY <1>1 DEF IInv, DropInv, AllDrops, DepthOf, vars, lock, threads
  <2>4. ReleaseInv'
    BY <1>1 DEF IInv, ReleaseInv, AllReleases, vars, vm, threads
  <2> QED BY <2>1, <2>2, <2>3, <2>4 DEF IInv
<1>2. ASSUME NEW t \in Threads, ConstructJSLockHolder(t) PROVE IInv'
  BY <1>2, ConstructJSLockHolderInv
<1>3. ASSUME NEW t \in Threads, ConstructDropAllLocks(t) PROVE IInv'
  BY <1>3, ConstructDropAllLocksInv
<1>4. ASSUME NEW t \in Threads, Lock(t) PROVE IInv'
  BY <1>4, LockInvariant
<1>5. ASSUME NEW t \in Threads, DestroyJSLockHolder(t) PROVE IInv'
  BY <1>5, DestroyJSLockHolderInv
<1>6. ASSUME NEW t \in Threads, DestroyDropAllLocks(t) PROVE IInv'
  BY <1>6, DestroyDropAllLocksInv
<1>7. ASSUME NEW t \in Threads, GrabAllLocksRetry(t) PROVE IInv'
  BY <1>7, GrabAllLocksRetryInv
<1>8. ASSUME NEW t \in Threads, GrabAllLocks(t) PROVE IInv'
  BY <1>8, GrabAllLocksInv
<1>9. ASSUME NEW t \in Threads, ReleaseDelayedReleasedObjects(t) PROVE IInv'
  BY <1>9, ReleaseDelayedReleasedObjectsInv
<1>10. ASSUME NEW t \in Threads, Unlock(t) PROVE IInv'
  BY <1>10, UnlockInv
<1>11. ASSUME Terminated PROVE IInv'
  BY <1>1, <1>11 DEF Terminated
<1> QED
  BY <1>1, <1>2, <1>3, <1>4, <1>5, <1>6, <1>7, <1>8, <1>9, <1>10, <1>11 DEF Next, Leave

(***************************************************************************)
(* The inductive invariant holds: every drop and every unfinished unlock() *)
(* on a stack of scopes remembers what its thread held, and the state of   *)
(* the lock and of the VM agrees with the stacks.                          *)
(***************************************************************************)
THEOREM IInvHolds == Spec => []IInv
BY InitInv, NextInv, PTL DEF Spec

-----------------------------------------------------------------------------
\* The drops of the specification are those of the stacks.
LEMMA DropsAgree ==
  ASSUME TypeInv, NEW t \in Threads
  PROVE  Drops(t) = DropsIn(frames[t])
<1>1. frames[t] \in Seq(Frames)
  BY DEF TypeInv
<1>2. DOMAIN frames[t] = 1..Len(frames[t])
  BY <1>1
<1> QED BY <1>2 DEF Drops, Kinds, DropsIn, IsDrop

(***************************************************************************)
(* The variables keep their types; in particular m_delayedReleaseRecursion *)
(* Count, which every thread increments and decrements, counts the calls   *)
(* that have not returned and never falls below zero.                      *)
(***************************************************************************)
THEOREM TypeCorrect == Spec => []TypeOK
<1>1. IInv => TypeOK
  <2> SUFFICES ASSUME IInv PROVE TypeOK
    OBVIOUS
  <2>1. delayedReleases \in Nat
    BY FS_CardinalityType DEF IInv, ReleaseInv
  <2>2. ASSUME NEW t \in Threads PROVE scopes[t] \in 0..MaxScopes[t]
    <3>1. scopes[t] \in Nat /\ scopes[t] <= MaxScopes[t] /\ MaxScopes[t] \in Nat
      BY Constants DEF IInv, TypeInv
    <3> QED BY <3>1
  <2> QED BY <2>1, <2>2 DEF IInv, TypeInv, TypeOK
<1> QED BY <1>1, IInvHolds, PTL

(***************************************************************************)
(* The drops that are still to be undone have the depths from 1 to         *)
(* m_lockDropDepth, each once: in grabAllLocks() it is always exactly one  *)
(* thread's turn.                                                          *)
(***************************************************************************)
THEOREM DropsAlwaysOrdered == Spec => []DropsAreOrdered
<1>1. IInv => DropsAreOrdered
  <2> SUFFICES ASSUME IInv PROVE DropsAreOrdered
    OBVIOUS
  <2>1. \A t \in Threads : Drops(t) = DropsIn(frames[t])
    BY DropsAgree DEF IInv
  <2>2. UNION {{<<t, i>> : i \in Drops(t)} : t \in Threads} = AllDrops
    BY <2>1 DEF AllDrops, AllPairs
  <2> QED BY <2>2 DEF IInv, DropInv, DropsAreOrdered, DepthOf
<1> QED BY <1>1, IInvHolds, PTL

(***************************************************************************)
(* The thread inside owns m_lock, and m_lockCount is the number of its     *)
(* JSLockHolders that no DropAllLocks took from it, whatever microtasks    *)
(* and released objects did while unlock() was on its way.                 *)
(***************************************************************************)
THEOREM LocksAlwaysMatchScopes == Spec => []LocksMatchScopes
<1>1. IInv => LocksMatchScopes
  <2> SUFFICES ASSUME IInv, NEW t \in Threads, CurrentThreadIsHoldingLock(t),
                      hasExclusiveThread => ownerThreadID = t
               PROVE  /\ ~hasExclusiveThread => mutex = t
                      /\ lockCount =
                           Cardinality({i \in Kinds(t, "JSLockHolder") : \A j \in InEffect(t) : j < i})
    BY DEF LocksMatchScopes
  <2> DEFINE f == frames[t]  n == Len(f)
             H == {i \in Kinds(t, "JSLockHolder") : \A j \in InEffect(t) : j < i}
  <2>1. /\ TypeInv /\ LockInv /\ f \in Seq(Frames) /\ n \in Nat /\ DOMAIN f = 1..n /\ CountOK(t) /\ OwnerOK
        /\ ControlOK(t)
    BY DEF IInv, TypeInv, LockInv
  <2>2. ownerThreadID = t
    BY <2>1, HoldingIsOwner
  <2>3. ~hasExclusiveThread => mutex = t
    BY <2>1, <2>2 DEF OwnerOK
  <2>4. lockCount = Cardinality(IF pc[t] = "checkDepth" THEN Kept(f) ELSE Held(f))
    BY <2>1, <2>2 DEF CountOK
  <2>5. Drops(t) = DropsIn(f)
    BY <2>1, DropsAgree
  <2>6. Kinds(t, "JSLockHolder") = {k \in 1..n : IsHolder(f, k)}
    BY <2>1 DEF Kinds, IsHolder
  <2>7. \A j \in 1..(n - 1) : j \in InEffect(t) <=> Effective(f, j)
    <3>1. \A j \in 1..(n - 1) : j \in 1..n /\ j # n
      BY <2>1
    <3> QED BY <2>5, <3>1 DEF InEffect, DropsIn, Effective, IsUnlock
  <2>8. n \in InEffect(t) <=> n \in 1..n /\ IsDrop(f, n) /\ pc[t] # "checkDepth"
    BY <2>1, <2>5 DEF InEffect, DropsIn
  <2>9. InEffect(t) \subseteq 1..n
    BY <2>5 DEF InEffect, DropsIn
  <2>10. \A j \in 1..n : j \in 1..(n - 1) \/ j = n
    BY <2>1
  <2>11. n = Len(f) /\ (pc[t] = "checkDepth" => IsDrop(f, n))
    BY <2>1 DEF ControlOK
  <2> HIDE DEF f, n
  <2>12. ASSUME NEW k \in 1..n, IsHolder(f, k)
         PROVE  (\A j \in InEffect(t) : j < k) <=>
                  /\ \A j \in 1..(n - 1) : Effective(f, j) => j < k
                  /\ IsDrop(f, n) => pc[t] = "checkDepth"
    <3>1. n \in 1..n /\ ~(n < k)
      BY <2>1
    <3>2. ASSUME \A j \in InEffect(t) : j < k
          PROVE  /\ \A j \in 1..(n - 1) : Effective(f, j) => j < k
                 /\ IsDrop(f, n) => pc[t] = "checkDepth"
      BY <2>7, <2>8, <3>1, <3>2
    <3>3. ASSUME \A j \in 1..(n - 1) : Effective(f, j) => j < k, IsDrop(f, n) => pc[t] = "checkDepth",
                 NEW j \in InEffect(t)
          PROVE  j < k
      <4>1. j # n
        BY <2>8, <3>3
      <4>2. j \in 1..(n - 1)
        BY <2>9, <2>10, <4>1
      <4> QED BY <2>7, <3>3, <4>2
    <3> QED BY <3>2, <3>3
  <2>13. H = IF pc[t] = "checkDepth" THEN Kept(f) ELSE Held(f)
    <3>1. \A k : k \in H <=> /\ k \in 1..n /\ IsHolder(f, k)
                             /\ \A j \in 1..(n - 1) : Effective(f, j) => j < k
                             /\ IsDrop(f, n) => pc[t] = "checkDepth"
      BY <2>6, <2>12
    <3>2. \A k : k \in Kept(f) <=> /\ k \in 1..n /\ IsHolder(f, k)
                                   /\ \A j \in 1..(n - 1) : Effective(f, j) => j < k
      BY <2>11 DEF Kept
    <3>3. \A k : k \in Held(f) <=> k \in Kept(f) /\ ~IsDrop(f, n)
      BY <2>11 DEF Held
    <3> HIDE DEF H
    <3>4. CASE pc[t] = "checkDepth"
      <4>1. H = Kept(f)
        BY <3>1, <3>2, <3>4
      <4> QED BY <3>4, <4>1
    <3>5. CASE pc[t] # "checkDepth"
      <4>1. H = Held(f)
        BY <3>1, <3>2, <3>3, <3>5
      <4> QED BY <3>5, <4>1
    <3> QED BY <3>4, <3>5
  <2> QED BY <2>3, <2>4, <2>13 DEF H
<1> QED BY <1>1, IInvHolds, PTL

(***************************************************************************)
(* The stack pointer and last stack top that the VM uses are those of the  *)
(* thread inside, and nothing is left of a thread that gave up its last    *)
(* lock.                                                                   *)
(***************************************************************************)
THEOREM EntryAlwaysOfThreadInside == Spec => []EntryIsOfThreadInside
<1>1. IInv => EntryIsOfThreadInside
  BY DEF IInv, EntryInv, EntryIsOfThreadInside
<1> QED BY <1>1, IInvHolds, PTL

(***************************************************************************)
(* A thread that runs in the VM, microtasks of unlock() included, has the  *)
(* VM's AtomicStringTable as its current one, unless an unlock() of its    *)
(* dropAllLocks() has not returned: the assertion of                       *)
(* Identifier::checkCurrentAtomicStringTable() can fail nowhere else.      *)
(***************************************************************************)
THEOREM TableAlwaysTheVMsOutsideDrops == Spec => []TableWrongOnlyInDrop
<1>1. IInv => TableWrongOnlyInDrop
  <2> SUFFICES ASSUME IInv, NEW t \in Threads, RunsInVM(t), table[t] # vmTable
               PROVE  \E i \in Kinds(t, "unlock") : frames[t][i].caller = "dropAllLocks"
    BY DEF TableWrongOnlyInDrop
  <2> DEFINE f == frames[t]
  <2>1. TypeInv /\ LockInv /\ f \in Seq(Frames) /\ DOMAIN f = 1..Len(f)
    BY DEF IInv, TypeInv
  <2>2. /\ f # <<>> /\ pc[t] = "run"
        /\ IsHolder(f, Len(f)) \/ IsUnlock(f, Len(f))
    BY DEF RunsInVM, IsKind, Last, IsHolder, IsUnlock
  <2>3. ownerThreadID = t
    BY <2>1, <2>2, OwnerOfTop
  <2>4. Dropping(f)
    BY <2>3 DEF IInv, EntryInv
  <2> QED BY <2>1, <2>4 DEF Kinds, Dropping, IsUnlock
<1> QED BY <1>1, IInvHolds, PTL
=============================================================================
