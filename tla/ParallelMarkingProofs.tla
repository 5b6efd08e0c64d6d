----------------------- MODULE ParallelMarkingProofs -----------------------
(***************************************************************************)
(* For any object graph and any number of helpers: marking ends only when  *)
(* nobody has anything left to do, then exactly the live cells are marked, *)
(* and each of them is visited once.                                       *)
(*                                                                         *)
(* The argument has three parts.  m_numberOfActiveParallelMarkers counts   *)
(* the threads that may have work, so that the master can tell that there  *)
(* are none.  A cell that is grey is on exactly one stack, at one place.   *)
(* What a black cell refers to is marked or about to be appended, and the  *)
(* opaque roots it added are known to its visitor or to the heap.          *)
(***************************************************************************)
EXTENDS ParallelMarking, FiniteSetTheorems, TLAPS

Draining == {"visit", "drain", "rebalance", "donate"}

\* The visitors that m_numberOfActiveParallelMarkers counts.
ActiveMarkers ==
  {v \in Visitors : pc[v] \in Draining \cup {"yield"} /\ (v = Master => phase = Len(Roots) + 1)}

Sleeping == {v \in Visitors : pc[v] \in {"asleep", "woken"}}

CountersOK ==
  /\ numActive = Cardinality(ActiveMarkers)
  /\ numWaiting \in Nat /\ numWaiting >= Cardinality(Sleeping)

HelperPC == {"out", "enter", "leave", "yield", "asleep", "woken"} \cup Draining

\* The steps of the master in which it takes marking to be over.
Over == {"weak", "exit", "finish", "finishing", "mutator"}

ControlOK ==
  /\ \A h \in Helpers : pc[h] \in HelperPC
  /\ pc[Master] \in PC \ {"out", "leave"}
  /\ phase \in 0..Len(Roots) + 1
  /\ pc[Master] = "mutator" <=> phase = 0
  /\ pc[Master] \in {"yield", "asleep", "woken"} \cup (Over \ {"mutator"}) => phase = Len(Roots) + 1
  /\ pc[Master] = "roots" => phase <= Len(Roots)
  /\ pc[Master] = "drained" => phase < Len(Roots)
  /\ pc[Master] = "enter" => phase = Len(Roots)
  /\ cycle \in Nat
  /\ offered \in [{"heap"} -> BOOLEAN] /\ inside \in [{"heap"} -> SUBSET Helpers]
  /\ pc[Master] \in {"finishing", "mutator"} => ~offered["heap"]
  /\ pc[Master] = "mutator" => inside["heap"] = {}
  /\ inside["heap"] = {h \in Helpers : pc[h] # "out"}

\* What a visitor can have left, by where it is.
WorkOK ==
  /\ \A v \in Visitors :
       /\ pc[v] \notin {"roots", "visit"} => todo[v] = <<>>
       /\ pc[v] \notin Draining \cup {"roots"} => stack[v] = <<>> /\ localRoots[v] = {}
  /\ pc[Master] \in Over => shared = <<>> /\ \A h \in Helpers : pc[h] \notin Draining

Distinct(s) == \A i, j \in DOMAIN s : s[i] = s[j] => i = j

\* The places a grey cell can be at.
StacksOK ==
  /\ Distinct(shared) /\ \A v \in Visitors : Distinct(stack[v])
  /\ \A v, w \in Visitors : v # w => ToSet(stack[v]) \cap ToSet(stack[w]) = {}
  /\ \A v \in Visitors : ToSet(stack[v]) \cap ToSet(shared) = {}
  /\ \A c \in Cells :
       c \in marks /\ cellState[c] = "NewGrey" <=>
         c \in ToSet(shared) \/ \E v \in Visitors : c \in ToSet(stack[v])

Known == opaqueRoots \cup UNION {localRoots[v] : v \in Visitors}

\* What was left behind by the cells that were visited, and by the roots.
ColoursOK ==
  /\ \A c \in marks : cellState[c] # "NewWhite"
  /\ \A c \in marks : cellState[c] = "OldBlack" =>
       /\ \A d \in ToSet(Children[c]) : d \in marks \/ \E v \in Visitors : d \in ToSet(todo[v])
       /\ OpaqueRoots[c] \subseteq Known
  /\ \A i \in DOMAIN Roots : i <= phase => ToSet(Roots[i]) \subseteq marks \cup ToSet(todo[Master])

\* Nothing is marked that is not live.
SoundOK ==
  /\ marks \subseteq Live
  /\ \A v \in Visitors : ToSet(todo[v]) \subseteq Live
  /\ Known \subseteq UNION {OpaqueRoots[c] : c \in Live}

DoneOK == pc[Master] \in Over \ {"weak"} /\ cycle > 0 => Live \subseteq marks

IInv ==
  /\ TypeOK /\ CountersOK /\ ControlOK /\ WorkOK
  /\ StacksOK /\ ColoursOK /\ SoundOK /\ DoneOK
-----------------------------------------------------------------------------
(***************************************************************************)
(* Sequences: what is in them, and that nothing is in them twice.          *)
(***************************************************************************)
LEMMA EmptyToSet == ASSUME NEW s, s = <<>> PROVE ToSet(s) = {}
<1>1. DOMAIN s = {}
  OBVIOUS
<1> QED
  BY <1>1 DEF ToSet

LEMMA EmptyDistinct == ASSUME NEW s, s = <<>> PROVE Distinct(s)
<1>1. DOMAIN s = {}
  OBVIOUS
<1> QED
  BY <1>1 DEF Distinct

LEMMA AppendSeq ==
  ASSUME NEW S, NEW s \in Seq(S), NEW x \in S
  PROVE  /\ Append(s, x) \in Seq(S)
         /\ ToSet(Append(s, x)) = ToSet(s) \cup {x}
         /\ Distinct(s) /\ x \notin ToSet(s) => Distinct(Append(s, x))
<1>1. DOMAIN s = 1..Len(s) /\ Len(s) \in Nat
  OBVIOUS
<1>2. DOMAIN Append(s, x) = 1..(Len(s) + 1)
  OBVIOUS
<1>3. \A i \in 1..Len(s) : Append(s, x)[i] = s[i]
  OBVIOUS
<1>4. Append(s, x)[Len(s) + 1] = x
  OBVIOUS
<1>5. \A i \in 1..(Len(s) + 1) : i \in 1..Len(s) \/ i = Len(s) + 1
  BY <1>1
<1>6. ToSet(Append(s, x)) = ToSet(s) \cup {x}
  <2>1. ASSUME NEW y \in ToSet(Append(s, x)) PROVE y \in ToSet(s) \cup {x}
    BY <2>1, <1>1, <1>2, <1>3, <1>4, <1>5 DEF ToSet
  <2>2. ASSUME NEW y \in ToSet(s) PROVE y \in ToSet(Append(s, x))
    <3>1. PICK i \in 1..Len(s) : y = s[i]
      BY <1>1 DEF ToSet
    <3>2. i \in DOMAIN Append(s, x) /\ Append(s, x)[i] = y
      BY <3>1, <1>1, <1>2, <1>3
    <3> QED
      BY <3>2 DEF ToSet
  <2>3. x \in ToSet(Append(s, x))
    <3>1. Len(s) + 1 \in DOMAIN Append(s, x)
      BY <1>1, <1>2
    <3> QED
      BY <3>1, <1>4 DEF ToSet
  <2> QED
    BY <2>1, <2>2, <2>3
<1>7. ASSUME Distinct(s), x \notin ToSet(s) PROVE Distinct(Append(s, x))
  <2>1. \A i \in 1..Len(s) : s[i] # x
    BY <1>7, <1>1 DEF ToSet
  <2> QED
    BY <1>7, <1>1, <1>2, <1>3, <1>4, <1>5, <2>1 DEF Distinct
<1> QED
  BY <1>6, <1>7

LEMMA HeadTail ==
  ASSUME NEW S, NEW s \in Seq(S), s # <<>>
  PROVE  /\ Head(s) \in S /\ Tail(s) \in Seq(S)
         /\ ToSet(s) = {Head(s)} \cup ToSet(Tail(s))
<1>1. DOMAIN s = 1..Len(s) /\ Len(s) \in Nat \ {0} /\ Head(s) = s[1]
  OBVIOUS
<1>2. DOMAIN Tail(s) = 1..(Len(s) - 1) /\ \A i \in 1..(Len(s) - 1) : Tail(s)[i] = s[i + 1]
  OBVIOUS
<1>3. ASSUME NEW y \in ToSet(s) PROVE y \in {Head(s)} \cup ToSet(Tail(s))
  <2>1. PICK i \in 1..Len(s) : y = s[i]
    BY <1>1 DEF ToSet
  <2>2. CASE i # 1
    <3>1. i - 1 \in 1..(Len(s) - 1) /\ Tail(s)[i - 1] = y
      BY <1>1, <1>2, <2>1, <2>2
    <3> QED
      BY <3>1, <1>2 DEF ToSet
  <2> QED
    BY <1>1, <2>1, <2>2
<1>4. ASSUME NEW y \in ToSet(Tail(s)) PROVE y \in ToSet(s)
  <2>1. PICK i \in 1..(Len(s) - 1) : y = s[i + 1]
    BY <1>2 DEF ToSet
  <2>2. i + 1 \in DOMAIN s
    BY <1>1, <2>1
  <2> QED
    BY <2>1, <2>2 DEF ToSet
<1>5. Head(s) \in ToSet(s)
  BY <1>1 DEF ToSet
<1> QED
  BY <1>3, <1>4, <1>5

LEMMA UpTo ==
  ASSUME NEW n \in Nat \ {0}
  PROVE  /\ n \in 1..n /\ \A i \in 1..n : i = n \/ i \in 1..(n - 1)
         /\ \A i \in 1..(n - 1) : i \in 1..n /\ i # n
  OBVIOUS

LEMMA LastFront ==
  ASSUME NEW S, NEW s \in Seq(S), s # <<>>
  PROVE  /\ Last(s) \in S /\ Front(s) \in Seq(S)
         /\ ToSet(s) = {Last(s)} \cup ToSet(Front(s))
         /\ Distinct(s) => Distinct(Front(s)) /\ Last(s) \notin ToSet(Front(s))
<1> DEFINE n == Len(s)  f == Front(s)
<1>1. n \in Nat \ {0} /\ DOMAIN s = 1..n /\ Last(s) = s[n] /\ \A i \in 1..n : s[i] \in S
  BY DEF Last
<1>2. f \in Seq(S) /\ DOMAIN f = 1..(n - 1) /\ \A i \in 1..(n - 1) : f[i] = s[i]
  <2>1. f = [i \in 1..(n - 1) |-> s[i]]
    BY <1>1 DEF Front
  <2> QED
    BY <2>1, <1>1
<1> HIDE DEF n, f
<1>3. \A i \in 1..n : i = n \/ i \in 1..(n - 1)
  BY <1>1, UpTo
<1>4. n \in 1..n /\ \A i \in 1..(n - 1) : i \in 1..n /\ i # n
  BY <1>1, UpTo
<1>5. ToSet(s) = {Last(s)} \cup ToSet(f)
  <2>1. ToSet(s) \subseteq {Last(s)} \cup ToSet(f)
    BY <1>1, <1>2, <1>3 DEF ToSet
  <2>2. {Last(s)} \cup ToSet(f) \subseteq ToSet(s)
    BY <1>1, <1>2, <1>4 DEF ToSet
  <2> QED
    BY <2>1, <2>2
<1>6. ASSUME Distinct(s) PROVE Distinct(f)
  <2>1. \A i \in DOMAIN f : i \in DOMAIN s /\ f[i] = s[i]
    BY <1>1, <1>2, <1>4
  <2> QED
    BY <1>6, <2>1 DEF Distinct
<1>7. ASSUME Distinct(s) PROVE Last(s) \notin ToSet(f)
  <2>1. ASSUME NEW i \in 1..(n - 1) PROVE f[i] # Last(s)
    <3>1. i \in DOMAIN s /\ n \in DOMAIN s /\ i # n /\ f[i] = s[i] /\ Last(s) = s[n]
      BY <1>1, <1>2, <1>4
    <3> QED
      BY <1>7, <3>1 DEF Distinct
  <2> QED
    BY <1>2, <2>1 DEF ToSet
<1> QED
  BY <1>1, <1>2, <1>4, <1>5, <1>6, <1>7 DEF f

\* Cutting a sequence in two, as donating and stealing do.
LEMMA SplitSeq ==
  ASSUME NEW S, NEW s \in Seq(S), NEW n \in 0..Len(s)
  PROVE  /\ Top(s, n) \in Seq(S) /\ WithoutTop(s, n) \in Seq(S)
         /\ ToSet(s) = ToSet(Top(s, n)) \cup ToSet(WithoutTop(s, n))
         /\ Distinct(s) => /\ Distinct(Top(s, n)) /\ Distinct(WithoutTop(s, n))
                           /\ ToSet(Top(s, n)) \cap ToSet(WithoutTop(s, n)) = {}
<1> DEFINE t == Top(s, n)  w == WithoutTop(s, n)  k == Len(s) - n
<1>1. Len(s) \in Nat /\ DOMAIN s = 1..Len(s) /\ \A i \in 1..Len(s) : s[i] \in S
  OBVIOUS
<1>2. k \in Nat /\ k <= Len(s) /\ n \in Nat /\ k + n = Len(s)
  BY <1>1
<1>3. t \in Seq(S) /\ DOMAIN t = 1..n /\ \A i \in 1..n : t[i] = s[k + i]
  <2>1. t = [i \in 1..n |-> s[k + i]]
    BY <1>1, <1>2 DEF Top
  <2>2. \A i \in 1..n : k + i \in 1..Len(s)
    BY <1>1, <1>2
  <2> QED
    BY <2>1, <2>2, <1>1, <1>2
<1>4. w \in Seq(S) /\ DOMAIN w = 1..k /\ \A i \in 1..k : w[i] = s[i]
  <2>1. w = [i \in 1..k |-> s[i]]
    BY <1>1, <1>2 DEF WithoutTop
  <2> QED
    BY <2>1, <1>1, <1>2
<1> HIDE DEF t, w
<1>5. ASSUME NEW y \in ToSet(s) PROVE y \in ToSet(t) \cup ToSet(w)
  <2>1. PICK i \in 1..Len(s) : y = s[i]
    BY <1>1 DEF ToSet
  <2>2. CASE i <= k
    BY <2>1, <2>2, <1>1, <1>2, <1>4 DEF ToSet
  <2>3. CASE i > k
    <3>1. i - k \in 1..n /\ t[i - k] = y
      BY <2>1, <2>3, <1>1, <1>2, <1>3
    <3> QED
      BY <3>1, <1>3 DEF ToSet
  <2> QED
    BY <2>1, <2>2, <2>3, <1>1, <1>2
<1>6. ToSet(t) \cup ToSet(w) \subseteq ToSet(s)
  <2>1. \A i \in 1..n : k + i \in DOMAIN s
    BY <1>1, <1>2
  <2>2. \A i \in 1..k : i \in DOMAIN s
    BY <1>1, <1>2
  <2> QED
    BY <1>3, <1>4, <2>1, <2>2 DEF ToSet
<1>7. ASSUME Distinct(s)
      PROVE  Distinct(t) /\ Distinct(w) /\ ToSet(t) \cap ToSet(w) = {}
  <2>0. \A i, j \in 1..n : k + i \in DOMAIN s /\ k + j \in DOMAIN s /\ (k + i = k + j => i = j)
    BY <1>1, <1>2
  <2>1. Distinct(t)
    BY <1>7, <1>3, <2>0 DEF Distinct
  <2>2. Distinct(w)
    BY <1>7, <1>1, <1>2, <1>4 DEF Distinct
  <2>3. \A i \in 1..n, j \in 1..k : t[i] # w[j]
    <3>1. \A i \in 1..n, j \in 1..k : k + i \in DOMAIN s /\ j \in DOMAIN s /\ k + i # j
      BY <1>1, <1>2
    <3> QED
      BY <1>7, <1>3, <1>4, <3>1 DEF Distinct
  <2> QED
    BY <2>1, <2>2, <2>3, <1>3, <1>4 DEF ToSet
<1> QED
  BY <1>3, <1>4, <1>5, <1>6, <1>7 DEF t, w

LEMMA ReverseSeq ==
  ASSUME NEW S, NEW s \in Seq(S)
  PROVE  /\ Reverse(s) \in Seq(S)
         /\ ToSet(Reverse(s)) = ToSet(s)
         /\ Distinct(s) => Distinct(Reverse(s))
<1> DEFINE r == Reverse(s)  n == Len(s)
<1>1. n \in Nat /\ DOMAIN s = 1..n /\ \A i \in 1..n : s[i] \in S
  OBVIOUS
<1>2. \A i \in 1..n : (n - i) + 1 \in 1..n /\ (n - ((n - i) + 1)) + 1 = i
  BY <1>1
<1>3. r \in Seq(S) /\ DOMAIN r = 1..n /\ \A i \in 1..n : r[i] = s[(n - i) + 1]
  BY <1>1, <1>2 DEF Reverse
<1> HIDE DEF r
<1>4. ToSet(r) = ToSet(s)
  <2>1. ToSet(r) \subseteq ToSet(s)
    BY <1>1, <1>2, <1>3 DEF ToSet
  <2>2. ASSUME NEW i \in 1..n PROVE s[i] \in ToSet(r)
    <3>1. (n - i) + 1 \in 1..n /\ r[(n - i) + 1] = s[i]
      BY <1>2, <1>3
    <3> QED
      BY <3>1, <1>3 DEF ToSet
  <2> QED
    BY <2>1, <2>2, <1>1 DEF ToSet
<1>5. Distinct(s) => Distinct(r)
  BY <1>1, <1>2, <1>3 DEF Distinct
<1> QED
  BY <1>3, <1>4, <1>5 DEF r

LEMMA ConcatSeq ==
  ASSUME NEW S, NEW s \in Seq(S), NEW t \in Seq(S)
  PROVE  /\ s \o t \in Seq(S)
         /\ ToSet(s \o t) = ToSet(s) \cup ToSet(t)
         /\ Distinct(s) /\ Distinct(t) /\ ToSet(s) \cap ToSet(t) = {} => Distinct(s \o t)
<1> DEFINE u == s \o t  m == Len(s)  n == Len(t)
<1>1. m \in Nat /\ n \in Nat /\ DOMAIN s = 1..m /\ DOMAIN t = 1..n
  OBVIOUS
<1>2. /\ u \in Seq(S) /\ DOMAIN u = 1..(m + n)
      /\ \A i \in 1..m : u[i] = s[i]
      /\ \A i \in 1..n : u[m + i] = t[i]
  OBVIOUS
<1>3. \A i \in 1..(m + n) : i \in 1..m \/ (i - m \in 1..n /\ i = m + (i - m))
  BY <1>1
<1>4. \A i \in 1..m : i \in 1..(m + n)
  BY <1>1
<1>5. \A i \in 1..n : m + i \in 1..(m + n)
  BY <1>1
<1> HIDE DEF u, m, n
<1>6. ASSUME NEW i \in 1..(m + n)
      PROVE  \/ i \in 1..m /\ u[i] = s[i]
             \/ \E j \in 1..n : i = m + j /\ u[i] = t[j]
  BY <1>2, <1>3
<1>7. ToSet(u) = ToSet(s) \cup ToSet(t)
  <2>1. ToSet(u) \subseteq ToSet(s) \cup ToSet(t)
    BY <1>1, <1>2, <1>6 DEF ToSet
  <2>2. ToSet(s) \subseteq ToSet(u)
    BY <1>1, <1>2, <1>4 DEF ToSet
  <2>3. ToSet(t) \subseteq ToSet(u)
    BY <1>1, <1>2, <1>5 DEF ToSet
  <2> QED
    BY <2>1, <2>2, <2>3
<1>8. ASSUME Distinct(s), Distinct(t), ToSet(s) \cap ToSet(t) = {} PROVE Distinct(u)
  <2>1. \A i \in 1..m, j \in 1..n : s[i] # t[j]
    BY <1>8, <1>1 DEF ToSet
  <2> SUFFICES ASSUME NEW i \in 1..(m + n), NEW j \in 1..(m + n), u[i] = u[j] PROVE i = j
    BY <1>2 DEF Distinct
  <2>2. \/ i \in 1..m /\ u[i] = s[i]
        \/ \E k \in 1..n : i = m + k /\ u[i] = t[k]
    BY <1>6
  <2>3. \/ j \in 1..m /\ u[j] = s[j]
        \/ \E k \in 1..n : j = m + k /\ u[j] = t[k]
    BY <1>6
  <2>4. CASE i \in 1..m /\ u[i] = s[i]
    BY <1>8, <1>1, <2>1, <2>3, <2>4 DEF Distinct
  <2>5. CASE \E k \in 1..n : i = m + k /\ u[i] = t[k]
    BY <1>8, <1>1, <2>1, <2>3, <2>5 DEF Distinct
  <2> QED
    BY <2>2, <2>4, <2>5
<1> QED
  BY <1>2, <1>7, <1>8 DEF u

LEMMA SetToSeqOfSet ==
  ASSUME NEW S, IsFiniteSet(S)
  PROVE  SetToSeq(S) \in Seq(S) /\ ToSet(SetToSeq(S)) = S /\ Distinct(SetToSeq(S))
<1> DEFINE n == Cardinality(S)  f == SetToSeq(S)
<1>1. n \in Nat /\ ExistsBijection(1..n, S)
  BY FS_CardinalityType
<1>2. \E g \in [1..n -> S] : IsInjective(g)
  BY <1>1 DEF ExistsBijection, Bijection, Injection
<1>3. f \in [1..n -> S] /\ IsInjective(f)
  BY <1>2 DEF SetToSeq
<1> HIDE DEF f
<1>4. Cardinality(1..n) = n
  BY <1>1, FS_Interval
<1>5. f \in Surjection(1..n, S)
  BY <1>3, <1>4, FS_Injection DEF Injection
<1>6. DOMAIN f = 1..n /\ \A y \in S : \E i \in 1..n : f[i] = y
  BY <1>3, <1>5 DEF Surjection
<1>7. f \in Seq(S)
  BY <1>1, <1>3
<1>8. ToSet(f) = S
  BY <1>3, <1>6 DEF ToSet
<1> QED
  BY <1>3, <1>6, <1>7, <1>8 DEF f, Distinct, IsInjective

\* What is stolen from a stack that is not empty is some of it.
LEMMA StealSome ==
  ASSUME NEW n \in Nat, NEW idle \in Nat \ {0}
  PROVE  CellsToSteal(n, idle) \in 0..n
<1> DEFINE q == CellsToSteal(n, idle)
<1>1. n + idle - 1 \in Nat
  OBVIOUS
<1>2. q \in Nat /\ q * idle <= n + idle - 1
  BY <1>1 DEF CellsToSteal
<1> HIDE DEF q
<1>3. CASE q > n
  <2>1. (n + 1) * idle <= q * idle
    BY <1>2, <1>3
  <2>2. (n + 1) * idle = n * idle + idle
    OBVIOUS
  <2>3. n * idle >= n
    OBVIOUS
  <2> QED
    BY <1>2, <2>1, <2>2, <2>3
<1> QED
  BY <1>2, <1>3 DEF q

LEMMA DonateSome == \A s \in Seq(Cells) : CellsToDonate(s) \in 0..Len(s)
  BY DEF CellsToDonate
-----------------------------------------------------------------------------
(* The constants.                                                          *)

LEMMA VisitorsFacts ==
  IsFiniteSet(Visitors) /\ Master \in Visitors /\ Master \notin Helpers /\ Helpers \subseteq Visitors
  BY ConstantsAssumption, FS_AddElement DEF Visitors

LEMMA RootsFacts ==
  /\ Len(Roots) \in Nat \ {0} /\ DOMAIN Roots = 1..Len(Roots)
  /\ \A i \in 1..Len(Roots) : Roots[i] \in Seq(Cells)
  BY ConstantsAssumption

LEMMA PairFacts ==
  ASSUME NEW A, NEW B, NEW p \in A \X B
  PROVE  p = <<p[1], p[2]>> /\ p[2] \in B
  OBVIOUS

LEMMA HandleFacts ==
  \A p \in WeakHandles \cup Harvesters : p = <<p[1], p[2]>> /\ p[2] \in Cells
<1>1. \A p \in WeakHandles : p \in AllOpaqueRoots \X Cells
  BY ConstantsAssumption
<1>2. \A p \in Harvesters : p \in Cells \X Cells
  BY ConstantsAssumption
<1> QED
  BY <1>1, <1>2, PairFacts

LEMMA ChildrenFacts == \A c \in Cells : Children[c] \in Seq(Cells)
  BY ConstantsAssumption

\* The live cells are closed, and within every closed set.
LEMMA LiveIsClosed == Live \subseteq Cells /\ Closed(Live)
<1>1. Live \subseteq Cells
  BY DEF Live
<1>2. \A i \in DOMAIN Roots : ToSet(Roots[i]) \subseteq Live
  <2>1. \A i \in DOMAIN Roots : ToSet(Roots[i]) \subseteq Cells
    BY RootsFacts DEF ToSet
  <2> QED
    BY <2>1 DEF Live, Closed
<1>3. \A c \in Live : ToSet(Children[c]) \subseteq Live
  <2>1. \A c \in Cells : ToSet(Children[c]) \subseteq Cells
    BY ChildrenFacts DEF ToSet
  <2> QED
    BY <2>1, <1>1 DEF Live, Closed
<1>4. ASSUME NEW rc \in WeakHandles, NEW c \in Live, rc[1] \in OpaqueRoots[c] PROVE rc[2] \in Live
  <2>1. rc[2] \in Cells
    BY ConstantsAssumption
  <2>2. \A S \in SUBSET Cells : Closed(S) => rc[2] \in S
    BY <1>4 DEF Live, Closed
  <2> QED
    BY <2>1, <2>2 DEF Live
<1>5. ASSUME NEW kc \in Harvesters, kc[1] \in Live PROVE kc[2] \in Live
  <2>1. kc[2] \in Cells
    BY ConstantsAssumption
  <2>2. \A S \in SUBSET Cells : Closed(S) => kc[2] \in S
    BY <1>5 DEF Live, Closed
  <2> QED
    BY <2>1, <2>2 DEF Live
<1> QED
  BY <1>1, <1>2, <1>3, <1>4, <1>5 DEF Closed

LEMMA LiveIsLeast == ASSUME NEW S \in SUBSET Cells, Closed(S) PROVE Live \subseteq S
  BY DEF Live
-----------------------------------------------------------------------------
(* The counters.                                                           *)

\* v goes to `next', and others are woken at most.
MovesTo(v, next) ==
  /\ pc' \in [Visitors -> PC] /\ pc'[v] = next
  /\ \A w \in Visitors \ {v} : pc'[w] = pc[w] \/ (pc[w] = "asleep" /\ pc'[w] = "woken")

LEMMA CountOne ==
  ASSUME NEW T \in SUBSET Visitors, NEW v
  PROVE  /\ IsFiniteSet(T) /\ Cardinality(T) \in 0..Cardinality(Visitors)
         /\ Cardinality(T) = Cardinality(T \ {v}) + (IF v \in T THEN 1 ELSE 0)
         /\ Cardinality(T \ {v}) \in Nat
<1>1. IsFiniteSet(T) /\ Cardinality(T) <= Cardinality(Visitors)
  BY VisitorsFacts, FS_Subset
<1>2. Cardinality(T) \in Nat /\ Cardinality(Visitors) \in Nat
  BY <1>1, VisitorsFacts, FS_CardinalityType
<1>3. IsFiniteSet(T \ {v}) /\ Cardinality(T \ {v}) = IF v \in T THEN Cardinality(T) - 1 ELSE Cardinality(T)
  BY <1>1, FS_RemoveElement
<1>4. Cardinality(T \ {v}) \in Nat
  BY <1>3, FS_CardinalityType
<1> QED
  BY <1>1, <1>2, <1>3, <1>4

\* A step of v does not change what the others count for.
LEMMA OthersCount ==
  ASSUME IInv, NEW v \in Visitors, NEW next, MovesTo(v, next), phase' = phase \/ v = Master
  PROVE  ActiveMarkers' \ {v} = ActiveMarkers \ {v} /\ Sleeping' \ {v} = Sleeping \ {v}
<1>1. \A w \in Visitors \ {v} :
        /\ pc'[w] \in Draining \cup {"yield"} <=> pc[w] \in Draining \cup {"yield"}
        /\ pc'[w] \in {"asleep", "woken"} <=> pc[w] \in {"asleep", "woken"}
  BY DEF MovesTo, Draining
<1> QED
  BY <1>1 DEF ActiveMarkers, Sleeping

LEMMA SameCounters ==
  ASSUME IInv, NEW v \in Visitors, NEW next, MovesTo(v, next), phase' = phase \/ v = Master,
         v \in ActiveMarkers' <=> v \in ActiveMarkers, v \in Sleeping' => v \in Sleeping,
         UNCHANGED <<numActive, numWaiting>>
  PROVE  CountersOK'
<1>1. ActiveMarkers' = ActiveMarkers /\ Sleeping' \subseteq Sleeping
  BY OthersCount
<1>2. Sleeping \in SUBSET Visitors /\ Sleeping' \in SUBSET Visitors
  BY DEF Sleeping
<1>3. Cardinality(Sleeping') <= Cardinality(Sleeping)
  BY <1>1, <1>2, CountOne, FS_Subset
<1>4. Cardinality(Sleeping') \in Nat /\ Cardinality(Sleeping) \in Nat
  BY <1>2, CountOne, FS_CardinalityType
<1> QED
  BY <1>1, <1>3, <1>4 DEF IInv, CountersOK

LEMMA ActiveType == CountersOK' => numActive' \in 0..Cardinality(Visitors)
<1>1. ActiveMarkers' \in SUBSET Visitors
  BY DEF ActiveMarkers
<1> QED
  BY <1>1, CountOne DEF CountersOK

\* A step that leaves the marks, the children to append and the opaque roots alone.
LEMMA QuietColours ==
  ASSUME IInv, UNCHANGED <<heap, todo, localRoots, opaqueRoots>>,
         \A i \in DOMAIN Roots : i <= phase' => i <= phase
  PROVE  ColoursOK' /\ SoundOK'
<1>1. Known' = Known
  BY DEF Known
<1>2. ColoursOK'
  BY <1>1 DEF IInv, ColoursOK, heap
<1>3. SoundOK'
  BY <1>1 DEF IInv, SoundOK, heap
<1> QED
  BY <1>2, <1>3

\* A step that leaves the stacks alone, too.
LEMMA QuietWork ==
  ASSUME IInv, UNCHANGED <<heap, visitor, sharing>>,
         \A i \in DOMAIN Roots : i <= phase' => i <= phase
  PROVE  StacksOK' /\ ColoursOK' /\ SoundOK'
<1>1. StacksOK'
  BY DEF IInv, StacksOK, heap, visitor, sharing
<1> QED
  BY <1>1, QuietColours DEF visitor, sharing

\* Cells go from one stack to another.
LEMMA MoveCells ==
  ASSUME IInv, UNCHANGED heap, NEW v \in Visitors,
         \A w \in Visitors \ {v} : stack'[w] = stack[w],
         Distinct(shared'), Distinct(stack'[v]), ToSet(stack'[v]) \cap ToSet(shared') = {},
         ToSet(stack'[v]) \cup ToSet(shared') = ToSet(stack[v]) \cup ToSet(shared)
  PROVE  StacksOK'
<1>1. \A w \in Visitors : Distinct(stack'[w])
  BY DEF IInv, StacksOK
<1>2. \A u, w \in Visitors : u # w => ToSet(stack'[u]) \cap ToSet(stack'[w]) = {}
  BY DEF IInv, StacksOK
<1>3. \A w \in Visitors : ToSet(stack'[w]) \cap ToSet(shared') = {}
  BY DEF IInv, StacksOK
<1>4. \A c \in Cells :
        c \in ToSet(shared') \/ (\E w \in Visitors : c \in ToSet(stack'[w])) <=>
        c \in ToSet(shared) \/ (\E w \in Visitors : c \in ToSet(stack[w]))
  OBVIOUS
<1> QED
  BY <1>1, <1>2, <1>3, <1>4 DEF IInv, StacksOK, heap
-----------------------------------------------------------------------------
(* Every step preserves the invariant.                                     *)

\* The steps of the visitors that only change where a visitor is.
LEMMA VisitorMoves ==
  ASSUME IInv, NEW v \in Visitors, VisitDone(v) \/ DonateCheck(v) \/ DonateContended(v)
  PROVE  IInv'
<1>1. pc[v] \in {"visit", "rebalance", "donate"} /\ pc'[v] \in {"drain", "rebalance", "donate"}
  BY DEF VisitDone, DonateCheck, DonateContended, IInv, TypeOK
<1>2. MovesTo(v, pc'[v])
  BY <1>1 DEF VisitDone, DonateCheck, DonateContended, MovesTo, IInv, TypeOK, PC
<1>3. /\ UNCHANGED <<heap, visitor, sharing, counters, pool, phase, cycle>>
      /\ todo[v] = <<>> /\ \A w \in Visitors : w # v => pc'[w] = pc[w]
  BY <1>1 DEF VisitDone, DonateCheck, DonateContended, IInv, TypeOK, WorkOK
<1> USE DEF visitor, heap, sharing, counters, pool
<1>4. CountersOK'
  <2>1. v \in ActiveMarkers' <=> v \in ActiveMarkers
    BY <1>1, <1>3 DEF ActiveMarkers, Draining
  <2>2. v \notin Sleeping'
    BY <1>1 DEF Sleeping
  <2> QED
    BY <1>2, <1>3, <2>1, <2>2, SameCounters
<1>5. TypeOK'
  BY <1>2, <1>3 DEF IInv, TypeOK, MovesTo
<1>6. ControlOK'
  BY <1>1, <1>3, VisitorsFacts, RootsFacts DEF IInv, ControlOK, HelperPC, Draining, Over, PC
<1>7. WorkOK'
  BY <1>1, <1>3, VisitorsFacts DEF IInv, WorkOK, Draining, Over
<1>8. StacksOK' /\ ColoursOK' /\ SoundOK'
  BY <1>3, QuietWork
<1>9. DoneOK'
  BY <1>1, <1>3, VisitorsFacts DEF IInv, DoneOK, Over
<1> QED
  BY <1>4, <1>5, <1>6, <1>7, <1>8, <1>9 DEF IInv

\* drainFromShared() begins.
LEMMA DrainFromSharedEnterInv ==
  ASSUME IInv, NEW v \in Visitors, DrainFromSharedEnter(v)
  PROVE  IInv'
<1>1. /\ pc[v] = "enter" /\ pc' = [pc EXCEPT ![v] = "yield"] /\ pc \in [Visitors -> PC]
      /\ UNCHANGED <<heap, visitor, sharing, numWaiting, shouldExit, pool, cycle>>
      /\ numActive' = numActive + 1
      /\ phase' = IF v = Master THEN Len(Roots) + 1 ELSE phase
  BY DEF DrainFromSharedEnter, IInv, TypeOK
<1>0. v = Master => phase = Len(Roots)
  BY <1>1 DEF IInv, ControlOK
<1>2. MovesTo(v, "yield")
  BY <1>1 DEF MovesTo, PC
<1> USE DEF visitor, heap, sharing, pool
<1>3. CountersOK'
  <2>1. v \in ActiveMarkers' /\ v \notin ActiveMarkers
    BY <1>1, VisitorsFacts DEF ActiveMarkers, Draining
  <2>2. v \notin Sleeping' /\ v \notin Sleeping
    BY <1>1, VisitorsFacts DEF Sleeping
  <2>3. ActiveMarkers' \ {v} = ActiveMarkers \ {v} /\ Sleeping' \ {v} = Sleeping \ {v}
    BY <1>1, <1>2, OthersCount
  <2>4. ActiveMarkers \in SUBSET Visitors /\ ActiveMarkers' \in SUBSET Visitors
    BY DEF ActiveMarkers
  <2>6. Sleeping' = Sleeping
    BY <2>2, <2>3
  <2>5. Cardinality(ActiveMarkers') = Cardinality(ActiveMarkers) + 1
    BY <2>1, <2>3, <2>4, CountOne
  <2> QED
    BY <1>1, <2>5, <2>6 DEF IInv, CountersOK
<1>4. TypeOK'
  <2>1. numActive' \in 0..Cardinality(Visitors)
    BY <1>3, ActiveType
  <2> QED
    BY <1>1, <1>2, <2>1, RootsFacts DEF IInv, TypeOK, MovesTo
<1>5. ControlOK'
  <2>1. \A h \in Helpers : pc'[h] \in HelperPC /\ (pc'[h] # "out" <=> pc[h] # "out")
    BY <1>1, VisitorsFacts DEF IInv, ControlOK, HelperPC
  <2>2. CASE v = Master
    <3>1. pc'[Master] = "yield" /\ phase' = Len(Roots) + 1 /\ pc[Master] = "enter"
      BY <1>1, <2>2
    <3> QED
      BY <1>1, <2>1, <3>1, RootsFacts DEF IInv, ControlOK, Over, PC
  <2>3. CASE v # Master
    <3>1. pc'[Master] = pc[Master] /\ phase' = phase
      BY <1>1, <2>3, VisitorsFacts
    <3> QED
      BY <1>1, <2>1, <3>1 DEF IInv, ControlOK
  <2> QED
    BY <2>2, <2>3
<1>6. WorkOK'
  BY <1>1, VisitorsFacts DEF IInv, TypeOK, WorkOK, Draining, Over
<1>7. StacksOK' /\ ColoursOK' /\ SoundOK'
  <2>1. \A i \in DOMAIN Roots : i <= phase' => i <= phase
    BY <1>0, <1>1, RootsFacts
  <2> QED
    BY <1>1, <2>1, QuietWork
<1>8. DoneOK'
  BY <1>1, VisitorsFacts DEF IInv, TypeOK, DoneOK, Over
<1> QED
  BY <1>3, <1>4, <1>5, <1>6, <1>7, <1>8 DEF IInv

\* A helper comes or goes.
LEMMA HelperInv ==
  ASSUME IInv, NEW h \in Helpers, HelperEnter(h) \/ HelperLeave(h)
  PROVE  IInv'
<1>1. /\ pc[h] \in {"out", "leave"} /\ pc'[h] \in {"enter", "out"}
      /\ pc' = [pc EXCEPT ![h] = pc'[h]] /\ pc \in [Visitors -> PC] /\ h \in Visitors
      /\ UNCHANGED <<heap, visitor, sharing, counters, phase, cycle>>
  BY VisitorsFacts DEF HelperEnter, HelperLeave, IInv, TypeOK
<1>2. MovesTo(h, pc'[h])
  BY <1>1 DEF MovesTo, PC
<1> USE DEF visitor, heap, sharing, counters, pool
<1>3. CountersOK'
  <2>1. h \notin ActiveMarkers' /\ h \notin ActiveMarkers
    BY <1>1 DEF ActiveMarkers, Draining
  <2>2. h \notin Sleeping'
    BY <1>1 DEF Sleeping
  <2> QED
    BY <1>1, <1>2, <2>1, <2>2, SameCounters
<1>4. /\ offered' \in [{"heap"} -> BOOLEAN] /\ (offered["heap"] = FALSE => offered'["heap"] = FALSE)
      /\ inside' \in [{"heap"} -> SUBSET Helpers]
      /\ inside'["heap"] = {g \in Helpers : pc'[g] # "out"}
      /\ ~offered["heap"] => inside'["heap"] \subseteq inside["heap"]
  <2>1. CASE HelperEnter(h)
    BY <1>1, <2>1 DEF HelperEnter, Pool!Enter, IInv, TypeOK, ControlOK
  <2>2. CASE HelperLeave(h)
    BY <1>1, <2>2 DEF HelperLeave, Pool!Leave, IInv, TypeOK, ControlOK
  <2> QED
    BY <2>1, <2>2
<1>5. TypeOK'
  BY <1>1, <1>2, <1>4 DEF IInv, TypeOK, MovesTo
<1>6. ControlOK'
  <2>1. pc'[Master] = pc[Master] /\ \A g \in Helpers : pc'[g] \in HelperPC
    BY <1>1, VisitorsFacts DEF IInv, ControlOK, HelperPC
  <2>2. pc[Master] = "mutator" => inside'["heap"] = {}
    BY <1>4 DEF IInv, ControlOK
  <2> QED
    BY <1>1, <1>4, <2>1, <2>2 DEF IInv, ControlOK
<1>7. WorkOK'
  BY <1>1, VisitorsFacts DEF IInv, TypeOK, WorkOK, Draining, Over
<1>8. StacksOK' /\ ColoursOK' /\ SoundOK'
  BY <1>1, QuietWork
<1>9. DoneOK'
  BY <1>1, VisitorsFacts DEF IInv, TypeOK, DoneOK, Over
<1> QED
  BY <1>3, <1>5, <1>6, <1>7, <1>8, <1>9 DEF IInv

\* The steps of the master that only change where it is.
LEMMA MasterMoves ==
  ASSUME IInv, DonateAndDrain \/ MarkersShouldExit \/ FinishCall \/ Finish
  PROVE  IInv'
<1>1. /\ pc[Master] \in {"roots", "exit", "finish", "finishing"} /\ Master \in Visitors
      /\ pc[Master] = "roots" => pc'[Master] = "rebalance" /\ phase' = phase /\ todo[Master] = <<>>
      /\ pc[Master] = "exit" => pc'[Master] = "finish" /\ phase' = phase
      /\ pc[Master] = "finish" => pc'[Master] = "finishing" /\ phase' = phase
      /\ pc[Master] = "finishing" => pc'[Master] = "mutator" /\ phase' = 0
      /\ UNCHANGED <<heap, visitor, sharing, numActive, numWaiting, cycle>>
  BY VisitorsFacts DEF DonateAndDrain, MarkersShouldExit, FinishCall, Finish, NotifyAll, IInv, TypeOK,
     counters
<1>2. MovesTo(Master, pc'[Master])
  BY <1>1 DEF DonateAndDrain, MarkersShouldExit, FinishCall, Finish, NotifyAll, MovesTo, PC, IInv, TypeOK
<1> USE DEF visitor, heap, sharing, counters, pool
<1>3. CountersOK'
  <2>0. pc[Master] = "roots" => phase <= Len(Roots) /\ phase \in Nat
    BY RootsFacts DEF IInv, ControlOK
  <2>1. Master \notin ActiveMarkers' /\ Master \notin ActiveMarkers
    BY <1>1, <2>0, RootsFacts DEF ActiveMarkers, Draining
  <2>2. Master \notin Sleeping'
    BY <1>1 DEF Sleeping
  <2> QED
    BY <1>1, <1>2, <2>1, <2>2, SameCounters
<1>4. /\ offered' \in [{"heap"} -> BOOLEAN] /\ (offered["heap"] = FALSE => offered'["heap"] = FALSE)
      /\ (pc[Master] = "finish" => offered'["heap"] = FALSE)
      /\ (pc[Master] = "finishing" => inside["heap"] = {})
      /\ UNCHANGED inside /\ shouldExit' \in BOOLEAN
  BY DEF DonateAndDrain, MarkersShouldExit, FinishCall, Finish, Pool!Withdraw, IInv, TypeOK
<1>5. TypeOK'
  BY <1>1, <1>2, <1>4, RootsFacts DEF IInv, TypeOK, MovesTo
<1>6. ControlOK'
  <2>1. \A h \in Helpers : pc'[h] \in HelperPC /\ (pc'[h] # "out" <=> pc[h] # "out")
    BY <1>2, VisitorsFacts DEF IInv, ControlOK, HelperPC, MovesTo
  <2>2. inside'["heap"] = {h \in Helpers : pc'[h] # "out"}
    BY <1>4, <2>1 DEF IInv, ControlOK
  <2>3. /\ pc'[Master] \in {"rebalance", "finish", "finishing", "mutator"}
        /\ pc'[Master] = "mutator" <=> phase' = 0
        /\ pc'[Master] \in {"finish", "finishing"} => phase' = Len(Roots) + 1
        /\ phase' \in 0..Len(Roots) + 1
    <3>1. /\ phase \in 0..Len(Roots) + 1 /\ (pc[Master] = "mutator" <=> phase = 0)
          /\ pc[Master] \in {"exit", "finish", "finishing"} => phase = Len(Roots) + 1
      BY DEF IInv, ControlOK, Over
    <3>2. Len(Roots) \in Nat
      BY RootsFacts
    <3>3. CASE pc[Master] = "roots"
      BY <1>1, <3>1, <3>3
    <3>4. CASE pc[Master] \in {"exit", "finish"}
      BY <1>1, <3>1, <3>2, <3>4
    <3>5. CASE pc[Master] = "finishing"
      BY <1>1, <3>2, <3>5
    <3> QED
      BY <1>1, <3>3, <3>4, <3>5
  <2>4. /\ pc'[Master] \in {"finishing", "mutator"} => ~offered'["heap"]
        /\ pc'[Master] = "mutator" => inside'["heap"] = {}
    BY <1>1, <1>4 DEF IInv, ControlOK
  <2>5. cycle' \in Nat /\ inside' \in [{"heap"} -> SUBSET Helpers]
    BY <1>1, <1>4 DEF IInv, ControlOK
  <2> QED
    BY <1>4, <2>1, <2>2, <2>3, <2>4, <2>5 DEF ControlOK, Over, PC
<1>7. WorkOK'
  BY <1>1, <1>2, VisitorsFacts DEF IInv, WorkOK, Draining, Over, MovesTo
<1>8. StacksOK' /\ ColoursOK' /\ SoundOK'
  <2>1. \A i \in DOMAIN Roots : i <= phase' => i <= phase
    BY <1>1, RootsFacts
  <2> QED
    BY <1>1, <2>1, QuietWork
<1>9. DoneOK'
  BY <1>1 DEF IInv, DoneOK, Over
<1> QED
  BY <1>3, <1>5, <1>6, <1>7, <1>8, <1>9 DEF IInv

\* append(): the next child is marked and pushed, unless somebody has marked it.
LEMMA SetMarkedAndAppendInv ==
  ASSUME IInv, NEW v \in Visitors, SetMarkedAndAppend(v)
  PROVE  IInv'
<1> DEFINE cell == Head(todo[v])
<1>1. /\ pc[v] \in {"roots", "visit"} /\ todo[v] # <<>> /\ todo[v] \in Seq(Cells)
      /\ todo' = [todo EXCEPT ![v] = Tail(todo[v])] /\ todo \in [Visitors -> Seq(Cells)]
      /\ UNCHANGED <<localRoots, shared, opaqueRoots, counters, pool, pc, phase, cycle>>
  BY DEF SetMarkedAndAppend, IInv, TypeOK, sharing
<1>2. /\ cell \in Cells /\ todo'[v] \in Seq(Cells)
      /\ ToSet(todo[v]) = {cell} \cup ToSet(todo'[v])
      /\ \A w \in Visitors \ {v} : todo'[w] = todo[w]
  BY <1>1, HeadTail
<1>3. Known' = Known
  BY <1>1 DEF Known
<1>4. \/ cell \in marks /\ UNCHANGED <<heap, stack>>
      \/ /\ cell \notin marks /\ marks' = marks \cup {cell}
         /\ cellState' = [cellState EXCEPT ![cell] = "NewGrey"]
         /\ stack' = [stack EXCEPT ![v] = Append(stack[v], cell)]
  BY <1>1 DEF SetMarkedAndAppend, IInv, TypeOK
<1> HIDE DEF cell
<1>5. TypeOK' /\ CountersOK'
  <2>1. cell \notin marks => Append(stack[v], cell) \in Seq(Cells)
    BY <1>2, AppendSeq DEF IInv, TypeOK
  <2>2. TypeOK'
    BY <1>1, <1>2, <1>4, <2>1 DEF IInv, TypeOK, heap, counters, pool
  <2>3. CountersOK'
    BY <1>1 DEF IInv, CountersOK, ActiveMarkers, Sleeping, counters
  <2> QED
    BY <2>2, <2>3
<1>6. ControlOK'
  BY <1>1 DEF IInv, ControlOK, pool
<1>7. WorkOK'
  <2>1. \A w \in Visitors \ {v} : stack'[w] = stack[w]
    BY <1>4 DEF IInv, TypeOK
  <2>2. pc[v] \in Draining \cup {"roots"}
    BY <1>1 DEF Draining
  <2> QED
    BY <1>1, <1>2, <2>1, <2>2 DEF IInv, WorkOK
<1>8. StacksOK'
  <2>1. CASE UNCHANGED <<heap, stack>>
    BY <1>1, <2>1 DEF IInv, StacksOK, heap
  <2>2. CASE /\ cell \notin marks /\ marks' = marks \cup {cell}
             /\ cellState' = [cellState EXCEPT ![cell] = "NewGrey"]
             /\ stack' = [stack EXCEPT ![v] = Append(stack[v], cell)]
    <3>1. cell \notin ToSet(shared) /\ \A w \in Visitors : cell \notin ToSet(stack[w])
      BY <1>2, <2>2 DEF IInv, StacksOK
    <3>2. /\ stack'[v] = Append(stack[v], cell) /\ stack[v] \in Seq(Cells)
          /\ \A w \in Visitors \ {v} : stack'[w] = stack[w]
      BY <2>2 DEF IInv, TypeOK
    <3>3. ToSet(stack'[v]) = ToSet(stack[v]) \cup {cell} /\ Distinct(stack'[v])
      BY <1>2, <3>1, <3>2, AppendSeq DEF IInv, StacksOK
    <3>4. \A w \in Visitors : Distinct(stack'[w])
      BY <3>2, <3>3 DEF IInv, StacksOK
    <3>0. /\ \A u, w \in Visitors : u # w => ToSet(stack[u]) \cap ToSet(stack[w]) = {}
          /\ \A w \in Visitors : ToSet(stack[w]) \cap ToSet(shared) = {}
      BY DEF IInv, StacksOK
    <3>5. \A u, w \in Visitors : u # w => ToSet(stack'[u]) \cap ToSet(stack'[w]) = {}
      <4> SUFFICES ASSUME NEW u \in Visitors, NEW w \in Visitors, u # w
                   PROVE  ToSet(stack'[u]) \cap ToSet(stack'[w]) = {}
        OBVIOUS
      <4>1. ToSet(stack'[u]) = ToSet(stack[u]) \/ (u = v /\ ToSet(stack'[u]) = ToSet(stack[u]) \cup {cell})
        BY <3>2, <3>3
      <4>2. ToSet(stack'[w]) = ToSet(stack[w]) \/ (w = v /\ ToSet(stack'[w]) = ToSet(stack[w]) \cup {cell})
        BY <3>2, <3>3
      <4>3. ToSet(stack[u]) \cap ToSet(stack[w]) = {}
        BY <3>0
      <4> QED
        BY <3>1, <4>1, <4>2, <4>3
    <3>6. ASSUME NEW w \in Visitors PROVE ToSet(stack'[w]) \cap ToSet(shared) = {}
      <4>1. ToSet(stack'[w]) = ToSet(stack[w]) \/ ToSet(stack'[w]) = ToSet(stack[w]) \cup {cell}
        BY <3>2, <3>3
      <4>2. ToSet(stack[w]) \cap ToSet(shared) = {}
        BY <3>0
      <4> QED
        BY <3>1, <4>1, <4>2
    <3>7. \A c \in Cells :
            c \in ToSet(shared) \/ (\E w \in Visitors : c \in ToSet(stack'[w])) <=>
            c = cell \/ c \in ToSet(shared) \/ (\E w \in Visitors : c \in ToSet(stack[w]))
      BY <3>2, <3>3
    <3>8. \A c \in Cells :
            c \in marks' /\ cellState'[c] = "NewGrey" <=>
            c = cell \/ (c \in marks /\ cellState[c] = "NewGrey")
      BY <1>2, <2>2 DEF IInv, TypeOK
    <3> QED
      BY <1>1, <3>4, <3>5, <3>6, <3>7, <3>8 DEF IInv, StacksOK
  <2> QED
    BY <1>4, <2>1, <2>2
<1>9. /\ marks' = marks \cup {cell}
      /\ \A c \in marks : cellState'[c] = cellState[c]
      /\ cell \in marks \/ cellState'[cell] = "NewGrey"
  BY <1>2, <1>4 DEF heap, IInv, TypeOK
<1>10. ColoursOK'
  <2>1. \A c \in marks' : cellState'[c] # "NewWhite"
    BY <1>9 DEF IInv, ColoursOK
  <2>2. ASSUME NEW c \in marks', cellState'[c] = "OldBlack"
        PROVE  /\ \A d \in ToSet(Children[c]) : d \in marks' \/ \E w \in Visitors : d \in ToSet(todo'[w])
               /\ OpaqueRoots[c] \subseteq Known'
    <3>1. c \in marks /\ cellState[c] = "OldBlack"
      BY <1>9, <2>2
    <3> QED
      BY <1>2, <1>3, <1>9, <3>1 DEF IInv, ColoursOK
  <2>3. ASSUME NEW i \in DOMAIN Roots, i <= phase'
        PROVE  ToSet(Roots[i]) \subseteq marks' \cup ToSet(todo'[Master])
    <3>1. ToSet(Roots[i]) \subseteq marks \cup ToSet(todo[Master])
      BY <1>1, <2>3 DEF IInv, ColoursOK
    <3>2. todo'[Master] = todo[Master] \/ v = Master
      BY <1>2, VisitorsFacts
    <3> QED
      BY <1>2, <1>9, <3>1, <3>2
  <2> QED
    BY <2>1, <2>2, <2>3 DEF ColoursOK
<1>11. SoundOK'
  BY <1>2, <1>3, <1>9 DEF IInv, SoundOK
<1>12. DoneOK'
  BY <1>1, <1>9 DEF IInv, DoneOK
<1> QED
  BY <1>5, <1>6, <1>7, <1>8, <1>10, <1>11, <1>12 DEF IInv

\* drain() takes a cell: it is black from now on, and its children are to be appended.
LEMMA VisitChildrenInv ==
  ASSUME IInv, NEW v \in Visitors, VisitChildren(v)
  PROVE  IInv'
<1> DEFINE cell == Last(stack[v])
<1>1. /\ pc[v] = "drain" /\ stack[v] # <<>> /\ stack[v] \in Seq(Cells)
      /\ pc' = [pc EXCEPT ![v] = "visit"] /\ pc \in [Visitors -> PC]
      /\ stack' = [stack EXCEPT ![v] = Front(stack[v])]
      /\ cellState' = [cellState EXCEPT ![cell] = "OldBlack"]
      /\ todo' = [todo EXCEPT ![v] = Children[cell]]
      /\ UNCHANGED <<marks, shared, counters, pool, phase, cycle>>
  BY DEF VisitChildren, IInv, TypeOK
<1>2. /\ cell \in Cells /\ Front(stack[v]) \in Seq(Cells)
      /\ ToSet(stack[v]) = {cell} \cup ToSet(Front(stack[v]))
      /\ Distinct(Front(stack[v])) /\ cell \notin ToSet(Front(stack[v]))
  BY <1>1, LastFront DEF IInv, StacksOK
<1>3. Children[cell] \in Seq(Cells) /\ OpaqueRoots[cell] \subseteq AllOpaqueRoots
  BY <1>2, ChildrenFacts DEF AllOpaqueRoots
<1>4. AddOpaqueRoots(v, OpaqueRoots[cell])
  BY DEF VisitChildren
<1> HIDE DEF cell
<1>5. cell \in marks /\ todo[v] = <<>>
  BY <1>1, <1>2 DEF IInv, StacksOK, WorkOK
<1>6. /\ \A w \in Visitors \ {v} : stack'[w] = stack[w] /\ todo'[w] = todo[w] /\ pc'[w] = pc[w]
      /\ stack'[v] = Front(stack[v]) /\ todo'[v] = Children[cell] /\ pc'[v] = "visit"
      /\ cellState'[cell] = "OldBlack" /\ \A c \in Cells \ {cell} : cellState'[c] = cellState[c]
  BY <1>1, <1>2 DEF IInv, TypeOK
<1>7. /\ localRoots' \in [Visitors -> SUBSET AllOpaqueRoots] /\ opaqueRoots' \subseteq AllOpaqueRoots
      /\ \A w \in Visitors \ {v} : localRoots'[w] = localRoots[w]
      /\ opaqueRoots' \cup localRoots'[v] = opaqueRoots \cup localRoots[v] \cup OpaqueRoots[cell]
  <2> DEFINE roots == OpaqueRoots[cell]
  <2>0. /\ localRoots \in [Visitors -> SUBSET AllOpaqueRoots] /\ opaqueRoots \subseteq AllOpaqueRoots
        /\ roots \subseteq AllOpaqueRoots
    BY <1>3 DEF IInv, TypeOK
  <2>1. \/ roots = {} /\ localRoots' = localRoots /\ opaqueRoots' = opaqueRoots
        \/ localRoots' = [localRoots EXCEPT ![v] = localRoots[v] \cup roots] /\ opaqueRoots' = opaqueRoots
        \/ /\ opaqueRoots' = opaqueRoots \cup localRoots[v]
           /\ localRoots' = [localRoots EXCEPT ![v] = roots]
    BY <1>4, <2>0 DEF AddOpaqueRoots
  <2> HIDE DEF roots
  <2>2. /\ localRoots' \in [Visitors -> SUBSET AllOpaqueRoots] /\ opaqueRoots' \subseteq AllOpaqueRoots
        /\ \A w \in Visitors \ {v} : localRoots'[w] = localRoots[w]
    BY <2>0, <2>1
  <2>3. opaqueRoots' \cup localRoots'[v] = opaqueRoots \cup localRoots[v] \cup roots
    BY <2>0, <2>1
  <2> QED
    BY <2>2, <2>3 DEF roots
<1>8. Known' = Known \cup OpaqueRoots[cell]
  BY <1>7 DEF Known
<1> USE DEF counters, pool
<1>9. MovesTo(v, "visit")
  BY <1>1 DEF MovesTo, PC
<1>10. CountersOK'
  <2>1. v \in ActiveMarkers' <=> v \in ActiveMarkers
    BY <1>1, <1>6 DEF ActiveMarkers, Draining
  <2>2. v \notin Sleeping'
    BY <1>6 DEF Sleeping
  <2> QED
    BY <1>1, <1>9, <2>1, <2>2, SameCounters
<1>11. TypeOK'
  <2>1. stack' \in [Visitors -> Seq(Cells)]
    BY <1>1, <1>2 DEF IInv, TypeOK
  <2>2. todo' \in [Visitors -> Seq(Cells)]
    BY <1>1, <1>3 DEF IInv, TypeOK
  <2>3. cellState' \in [Cells -> {"NewWhite", "NewGrey", "OldBlack"}]
    BY <1>1 DEF IInv, TypeOK
  <2> QED
    BY <1>1, <1>7, <1>9, <2>1, <2>2, <2>3 DEF IInv, TypeOK, MovesTo
<1>12. ControlOK'
  BY <1>1, <1>6, VisitorsFacts, RootsFacts DEF IInv, ControlOK, HelperPC, Draining, Over, PC
<1>13. WorkOK'
  BY <1>1, <1>6, <1>7, VisitorsFacts DEF IInv, WorkOK, Draining, Over
<1>14. StacksOK'
  <2>1. \A w \in Visitors : Distinct(stack'[w])
    BY <1>2, <1>6 DEF IInv, StacksOK
  <2>2. \A u, w \in Visitors : u # w => ToSet(stack'[u]) \cap ToSet(stack'[w]) = {}
    BY <1>2, <1>6 DEF IInv, StacksOK
  <2>3. \A w \in Visitors : ToSet(stack'[w]) \cap ToSet(shared) = {}
    BY <1>2, <1>6 DEF IInv, StacksOK
  <2>4. cell \notin ToSet(shared) /\ \A w \in Visitors : cell \notin ToSet(stack'[w])
    BY <1>2, <1>6 DEF IInv, StacksOK
  <2>5. \A c \in Cells \ {cell} :
          (\E w \in Visitors : c \in ToSet(stack'[w])) <=> (\E w \in Visitors : c \in ToSet(stack[w]))
    BY <1>2, <1>6
  <2> QED
    <3>1. ASSUME NEW c \in Cells
          PROVE  c \in marks' /\ cellState'[c] = "NewGrey" <=>
                   c \in ToSet(shared) \/ \E w \in Visitors : c \in ToSet(stack'[w])
      <4>1. CASE c = cell
        BY <1>6, <2>4, <4>1
      <4>2. CASE c # cell
        <5>1. marks' = marks /\ cellState'[c] = cellState[c]
          BY <1>1, <1>6, <4>2
        <5> QED
          BY <2>5, <4>2, <5>1 DEF IInv, StacksOK
      <4> QED
        BY <4>1, <4>2
    <3>2. Distinct(shared) /\ shared' = shared
      BY <1>1 DEF IInv, StacksOK
    <3> QED
      BY <2>1, <2>2, <2>3, <3>1, <3>2 DEF StacksOK
<1>15. ColoursOK'
  <2>1. \A c \in marks' : cellState'[c] # "NewWhite"
    BY <1>1, <1>6 DEF IInv, ColoursOK, TypeOK
  <2>2. ASSUME NEW c \in marks', cellState'[c] = "OldBlack"
        PROVE  /\ \A d \in ToSet(Children[c]) : d \in marks' \/ \E w \in Visitors : d \in ToSet(todo'[w])
               /\ OpaqueRoots[c] \subseteq Known'
    <3>1. CASE c = cell
      BY <1>6, <1>8, <3>1
    <3>2. CASE c # cell
      <4>1. c \in marks /\ cellState[c] = "OldBlack"
        BY <1>1, <1>6, <2>2, <3>2 DEF IInv, TypeOK
      <4>2. ToSet(todo[v]) = {}
        BY <1>5, EmptyToSet
      <4> QED
        BY <1>1, <1>6, <1>8, <4>1, <4>2 DEF IInv, ColoursOK
    <3> QED
      BY <3>1, <3>2
  <2>3. ASSUME NEW i \in DOMAIN Roots, i <= phase'
        PROVE  ToSet(Roots[i]) \subseteq marks' \cup ToSet(todo'[Master])
    <3>1. ToSet(Roots[i]) \subseteq marks \cup ToSet(todo[Master])
      BY <1>1, <2>3 DEF IInv, ColoursOK
    <3>2. todo'[Master] = todo[Master] \/ ToSet(todo[Master]) = {}
      BY <1>5, <1>6, VisitorsFacts, EmptyToSet
    <3> QED
      BY <1>1, <3>1, <3>2
  <2> QED
    BY <2>1, <2>2, <2>3 DEF ColoursOK
<1>16. SoundOK'
  <2>1. cell \in Live /\ ToSet(Children[cell]) \subseteq Live
    BY <1>5, LiveIsClosed DEF IInv, SoundOK, Closed
  <2> QED
    BY <1>1, <1>6, <1>8, <2>1 DEF IInv, SoundOK
<1>17. DoneOK'
  BY <1>1, <1>6, VisitorsFacts DEF IInv, DoneOK, Over
<1> QED
  BY <1>10, <1>11, <1>12, <1>13, <1>14, <1>15, <1>16, <1>17 DEF IInv

\* Where the others are does not change but for being woken.
LEMMA OthersStay ==
  ASSUME IInv, NEW v \in Visitors, NEW next, MovesTo(v, next), next # "out", pc[v] # "out",
         v \in Helpers => next \in HelperPC
  PROVE  /\ \A h \in Helpers : pc'[h] \in HelperPC
         /\ {h \in Helpers : pc'[h] # "out"} = {h \in Helpers : pc[h] # "out"}
         /\ \A w \in Visitors \ {v} : pc[w] \notin {"asleep", "woken"} => pc'[w] = pc[w]
         /\ \A w \in Visitors \ {v}, P \in SUBSET (PC \ {"asleep", "woken"}) : pc'[w] \in P <=> pc[w] \in P
         /\ v # Master => \/ pc'[Master] = pc[Master]
                          \/ pc[Master] = "asleep" /\ pc'[Master] = "woken"
<1>1. \A h \in Helpers : pc'[h] \in HelperPC /\ (pc'[h] # "out" <=> pc[h] # "out")
  BY VisitorsFacts DEF MovesTo, IInv, ControlOK, HelperPC
<1>2. \A w \in Visitors \ {v}, P \in SUBSET (PC \ {"asleep", "woken"}) : pc'[w] \in P <=> pc[w] \in P
  BY DEF MovesTo
<1>3. \A w \in Visitors \ {v} : pc[w] \notin {"asleep", "woken"} => pc'[w] = pc[w]
  BY DEF MovesTo
<1>4. v # Master => \/ pc'[Master] = pc[Master]
                    \/ pc[Master] = "asleep" /\ pc'[Master] = "woken"
  BY VisitorsFacts DEF MovesTo
<1> QED
  BY <1>1, <1>2, <1>3, <1>4

\* A visitor goes on; the phase and the pool stay as they are.
LEMMA ControlStays ==
  ASSUME IInv, NEW v \in Visitors, NEW next, MovesTo(v, next), next # "out", pc[v] # "out",
         v \in Helpers => next \in HelperPC,
         UNCHANGED <<pool, phase, cycle>>,
         v = Master =>
           /\ next \in PC \ {"out", "leave", "mutator", "roots"} /\ pc[v] # "mutator"
           /\ next \in {"yield", "asleep", "woken", "weak", "exit", "finish", "finishing"} => phase = Len(Roots) + 1
           /\ next = "drained" => phase < Len(Roots)
           /\ next = "enter" => phase = Len(Roots)
           /\ next # "finishing"
  PROVE  ControlOK'
<1>1. /\ \A h \in Helpers : pc'[h] \in HelperPC
      /\ {h \in Helpers : pc'[h] # "out"} = {h \in Helpers : pc[h] # "out"}
      /\ v # Master => \/ pc'[Master] = pc[Master]
                       \/ pc[Master] = "asleep" /\ pc'[Master] = "woken"
  BY OthersStay
<1>2. inside'["heap"] = {h \in Helpers : pc'[h] # "out"}
  BY <1>1 DEF IInv, ControlOK, pool
<1>3. CASE v # Master
  BY <1>1, <1>2, <1>3 DEF IInv, ControlOK, Over, pool, PC
<1>4. CASE v = Master
  <2>1. pc'[Master] = next
    BY <1>4 DEF MovesTo
  <2> QED
    BY <1>1, <1>2, <1>4, <2>1 DEF IInv, ControlOK, Over, pool, PC
<1> QED
  BY <1>3, <1>4

\* donateKnownParallel() gives half of the stack away.
LEMMA DonateInv ==
  ASSUME IInv, NEW v \in Visitors, Donate(v)
  PROVE  IInv'
<1> DEFINE n == CellsToDonate(stack[v])  s == stack[v]
<1>1. /\ pc[v] = "donate" /\ pc \in [Visitors -> PC] /\ s \in Seq(Cells) /\ shared \in Seq(Cells)
      /\ shared' = shared \o Reverse(Top(s, n))
      /\ stack' = [stack EXCEPT ![v] = WithoutTop(s, n)] /\ stack \in [Visitors -> Seq(Cells)]
      /\ pc' = NotifyAll([pc EXCEPT ![v] = "drain"])
      /\ UNCHANGED <<heap, localRoots, todo, opaqueRoots, counters, pool, phase, cycle>>
  BY DEF Donate, IInv, TypeOK
<1>2. n \in 0..Len(s)
  BY <1>1, DonateSome
<1>3. MovesTo(v, "drain")
  BY <1>1 DEF MovesTo, NotifyAll, PC
<1> HIDE DEF n, s
<1>4. /\ Top(s, n) \in Seq(Cells) /\ WithoutTop(s, n) \in Seq(Cells)
      /\ ToSet(s) = ToSet(Top(s, n)) \cup ToSet(WithoutTop(s, n))
      /\ Distinct(s) => /\ Distinct(Top(s, n)) /\ Distinct(WithoutTop(s, n))
                        /\ ToSet(Top(s, n)) \cap ToSet(WithoutTop(s, n)) = {}
  BY <1>1, <1>2, SplitSeq
<1>5. Distinct(s) /\ Distinct(shared) /\ ToSet(s) \cap ToSet(shared) = {}
  BY DEF IInv, StacksOK, s
<1> DEFINE r == Reverse(Top(s, n))
<1>6. r \in Seq(Cells) /\ ToSet(r) = ToSet(Top(s, n)) /\ Distinct(r)
  BY <1>4, <1>5, ReverseSeq
<1> HIDE DEF r
<1>7. ToSet(shared) \cap ToSet(r) = {}
  BY <1>4, <1>5, <1>6
<1>8. shared' \in Seq(Cells) /\ ToSet(shared') = ToSet(shared) \cup ToSet(r) /\ Distinct(shared')
  BY <1>1, <1>5, <1>6, <1>7, ConcatSeq DEF r
<1>9. stack'[v] = WithoutTop(s, n) /\ \A w \in Visitors \ {v} : stack'[w] = stack[w]
  BY <1>1
<1>10. StacksOK'
  <2>1. ToSet(stack'[v]) \cap ToSet(shared') = {}
    BY <1>4, <1>5, <1>6, <1>8, <1>9
  <2>2. ToSet(stack'[v]) \cup ToSet(shared') = ToSet(stack[v]) \cup ToSet(shared)
    BY <1>4, <1>6, <1>8, <1>9 DEF s
  <2>3. Distinct(stack'[v])
    BY <1>4, <1>5, <1>9
  <2> QED
    BY <1>1, <1>8, <1>9, <2>1, <2>2, <2>3, MoveCells
<1>11. CountersOK'
  <2>1. v \in ActiveMarkers' <=> v \in ActiveMarkers
    BY <1>1, <1>3 DEF ActiveMarkers, Draining, MovesTo
  <2>2. v \notin Sleeping'
    BY <1>3 DEF Sleeping, MovesTo
  <2> QED
    BY <1>1, <1>3, <2>1, <2>2, SameCounters DEF counters
<1>12. TypeOK'
  <2>1. stack' \in [Visitors -> Seq(Cells)]
    BY <1>1, <1>4
  <2> QED
    BY <1>1, <1>3, <1>8, <2>1 DEF IInv, TypeOK, MovesTo, heap, counters, pool
<1>13. ControlOK'
  BY <1>1, <1>3, ControlStays DEF HelperPC, Draining, PC
<1>14. WorkOK'
  <2>1. \A w \in Visitors \ {v} : pc[w] \notin {"asleep", "woken"} => pc'[w] = pc[w]
    BY <1>3 DEF MovesTo
  <2>2. \A w \in Visitors \ {v} :
          /\ pc'[w] \notin {"roots", "visit"} => pc[w] \notin {"roots", "visit"}
          /\ pc'[w] \notin Draining \cup {"roots"} => pc[w] \notin Draining \cup {"roots"}
    BY <2>1 DEF Draining
  <2>3. pc'[v] = "drain" /\ todo[v] = <<>>
    BY <1>1, <1>3 DEF MovesTo, IInv, WorkOK
  <2>4. pc'[Master] \notin Over
    <3>1. CASE v = Master
      BY <2>3, <3>1 DEF Over
    <3>2. CASE v # Master
      <4>1. v \in Helpers /\ pc[v] \in Draining
        BY <1>1, <3>2 DEF Visitors, Draining
      <4>2. pc[Master] \notin Over
        BY <4>1 DEF IInv, WorkOK
      <4> QED
        BY <1>3, <3>2, <4>2, VisitorsFacts DEF MovesTo, Over
    <3> QED
      BY <3>1, <3>2
  <2> QED
    BY <1>1, <1>9, <2>2, <2>3, <2>4 DEF IInv, WorkOK, Draining
<1>15. ColoursOK' /\ SoundOK'
  BY <1>1, QuietColours
<1>16. DoneOK'
  <2>1. pc'[Master] \in Over => pc[Master] = pc'[Master]
    BY <1>3, VisitorsFacts DEF MovesTo, Over
  <2> QED
    BY <1>1, <2>1 DEF IInv, DoneOK, heap
<1> QED
  BY <1>10, <1>11, <1>12, <1>13, <1>14, <1>15, <1>16 DEF IInv

\* drain() ends, and the opaque roots that were found are merged.
LEMMA DrainDoneInv ==
  ASSUME IInv, NEW v \in Visitors, DrainDone(v)
  PROVE  IInv'
<1> DEFINE next == AfterDrain(v)
<1>1. /\ pc[v] = "drain" /\ stack[v] = <<>> /\ pc \in [Visitors -> PC]
      /\ opaqueRoots' = opaqueRoots \cup localRoots[v]
      /\ localRoots' = [localRoots EXCEPT ![v] = {}]
      /\ localRoots \in [Visitors -> SUBSET AllOpaqueRoots] /\ opaqueRoots \subseteq AllOpaqueRoots
      /\ pc' = [pc EXCEPT ![v] = next]
      /\ UNCHANGED <<heap, stack, todo, shared, counters, pool, phase, cycle>>
  BY DEF DrainDone, IInv, TypeOK
<1>2. /\ next \in {"yield", "drained", "enter"}
      /\ v \in Helpers => next = "yield"
      /\ v = Master => phase \in 0..Len(Roots) + 1
      /\ v = Master => (next = "yield" <=> phase = Len(Roots) + 1)
      /\ v = Master => (next = "drained" => phase < Len(Roots)) /\ (next = "enter" => phase = Len(Roots))
  <2>1. phase \in 0..Len(Roots) + 1
    BY DEF IInv, ControlOK
  <2>2. next = IF v \in Helpers \/ phase > Len(Roots) THEN "yield"
               ELSE IF phase < Len(Roots) THEN "drained" ELSE "enter"
    BY DEF AfterDrain
  <2> HIDE DEF next
  <2>3. v = Master => v \notin Helpers
    BY VisitorsFacts
  <2>4. next \in {"yield", "drained", "enter"} /\ (v \in Helpers => next = "yield")
    BY <2>2
  <2>5. ASSUME v = Master
        PROVE  /\ next = "yield" <=> phase = Len(Roots) + 1
               /\ (next = "drained" => phase < Len(Roots)) /\ (next = "enter" => phase = Len(Roots))
    <3>1. Len(Roots) \in Nat
      BY RootsFacts
    <3>2. CASE phase > Len(Roots)
      BY <2>1, <2>2, <3>1, <3>2
    <3>3. CASE phase < Len(Roots)
      BY <2>1, <2>2, <2>3, <2>5, <3>1, <3>3
    <3>4. CASE phase = Len(Roots)
      BY <2>2, <2>3, <2>5, <3>1, <3>4
    <3> QED
      BY <2>1, <3>1, <3>2, <3>3, <3>4
  <2> QED
    BY <2>1, <2>4, <2>5
<1> HIDE DEF next
<1>3. MovesTo(v, next) /\ \A w \in Visitors \ {v} : pc'[w] = pc[w]
  BY <1>1, <1>2 DEF MovesTo, PC
<1>4. localRoots'[v] = {} /\ \A w \in Visitors \ {v} : localRoots'[w] = localRoots[w]
  BY <1>1
<1>5. Known' = Known
  <2>1. ASSUME NEW r \in Known PROVE r \in Known'
    <3>1. r \in opaqueRoots \/ \E w \in Visitors : r \in localRoots[w]
      BY <2>1 DEF Known
    <3> QED
      BY <1>1, <1>4, <3>1 DEF Known
  <2>2. ASSUME NEW r \in Known' PROVE r \in Known
    <3>1. r \in opaqueRoots' \/ \E w \in Visitors : r \in localRoots'[w]
      BY <2>2 DEF Known
    <3> QED
      BY <1>1, <1>4, <3>1 DEF Known
  <2> QED
    BY <2>1, <2>2
<1>6. CountersOK'
  <2>1. v \in ActiveMarkers' <=> v \in ActiveMarkers
    BY <1>1, <1>2, <1>3 DEF ActiveMarkers, Draining, MovesTo, Visitors
  <2>2. v \notin Sleeping'
    BY <1>2, <1>3 DEF Sleeping, MovesTo
  <2> QED
    BY <1>1, <1>3, <2>1, <2>2, SameCounters DEF counters
<1>7. TypeOK'
  <2>1. localRoots' \in [Visitors -> SUBSET AllOpaqueRoots] /\ opaqueRoots' \subseteq AllOpaqueRoots
    BY <1>1
  <2> QED
    BY <1>1, <1>3, <2>1 DEF IInv, TypeOK, MovesTo, heap, counters, pool
<1>8. ControlOK'
  BY <1>1, <1>2, <1>3, ControlStays DEF HelperPC, Draining, PC
<1>9. WorkOK'
  <2>1. pc'[v] = next /\ todo[v] = <<>>
    BY <1>1, <1>3 DEF MovesTo, IInv, WorkOK
  <2>2. pc'[Master] \in Over => pc[Master] \in Over
    BY <1>2, <1>3, <2>1, VisitorsFacts DEF Over
  <2>3. \A h \in Helpers : pc[h] \notin Draining => pc'[h] \notin Draining
    BY <1>2, <1>3, <2>1, VisitorsFacts DEF Draining
  <2> QED
    BY <1>1, <1>3, <1>4, <2>1, <2>2, <2>3 DEF IInv, WorkOK
<1>10. StacksOK'
  BY <1>1 DEF IInv, StacksOK, heap
<1>11. ColoursOK'
  BY <1>1, <1>5 DEF IInv, ColoursOK, heap
<1>12. SoundOK'
  BY <1>1, <1>5 DEF IInv, SoundOK, heap
<1>13. DoneOK'
  <2>1. pc'[Master] \in Over => pc[Master] = pc'[Master]
    BY <1>2, <1>3, VisitorsFacts DEF Over, MovesTo
  <2> QED
    BY <1>1, <2>1 DEF IInv, DoneOK, heap
<1> QED
  BY <1>6, <1>7, <1>8, <1>9, <1>10, <1>11, <1>12, <1>13 DEF IInv

\* A visitor that waits for work has the lock: what it counted, without itself.
HasLock(v, active, waiting) ==
  /\ pc[v] \in {"yield", "woken"}
  /\ active = Cardinality(ActiveMarkers \ {v})
  /\ waiting \in Nat \ {0} /\ waiting - 1 >= Cardinality(Sleeping \ {v})

LEMMA TakesLock ==
  ASSUME IInv, NEW v \in Visitors
  PROVE  /\ pc[v] = "yield" => HasLock(v, numActive - 1, numWaiting + 1)
         /\ pc[v] = "woken" => HasLock(v, numActive, numWaiting)
<1>1. ActiveMarkers \in SUBSET Visitors /\ Sleeping \in SUBSET Visitors
  BY DEF ActiveMarkers, Sleeping
<1>2. /\ Cardinality(ActiveMarkers) = Cardinality(ActiveMarkers \ {v}) + (IF v \in ActiveMarkers THEN 1 ELSE 0)
      /\ Cardinality(ActiveMarkers \ {v}) \in Nat
  BY <1>1, CountOne
<1>3. /\ Cardinality(Sleeping) = Cardinality(Sleeping \ {v}) + (IF v \in Sleeping THEN 1 ELSE 0)
      /\ Cardinality(Sleeping \ {v}) \in Nat
  BY <1>1, CountOne
<1>4. CASE pc[v] = "yield"
  <2>1. v \in ActiveMarkers /\ v \notin Sleeping
    BY <1>4 DEF ActiveMarkers, Sleeping, IInv, ControlOK
  <2> QED
    BY <1>2, <1>3, <1>4, <2>1 DEF IInv, CountersOK, HasLock
<1>5. CASE pc[v] = "woken"
  <2>1. v \notin ActiveMarkers /\ v \in Sleeping
    BY <1>5 DEF ActiveMarkers, Sleeping, Draining
  <2> QED
    BY <1>2, <1>3, <1>5, <2>1 DEF IInv, CountersOK, HasLock
<1> QED
  BY <1>4, <1>5

LEMMA WaiterHasNothing ==
  ASSUME IInv, NEW v \in Visitors, pc[v] \in {"yield", "woken"}
  PROVE  /\ stack[v] = <<>> /\ todo[v] = <<>> /\ localRoots[v] = {}
         /\ v = Master => phase = Len(Roots) + 1
<1>1. pc[v] \notin Draining \cup {"roots"} /\ pc[v] \notin {"roots", "visit"}
  BY DEF Draining
<1> QED
  BY <1>1 DEF IInv, WorkOK, ControlOK

\* There are shared cells, and the visitor takes some.
LEMMA StealInv ==
  ASSUME IInv, NEW v \in Visitors, NEW active, NEW waiting, HasLock(v, active, waiting),
         shared # <<>>, Steal(v, active, waiting),
         UNCHANGED <<heap, localRoots, todo, opaqueRoots, shouldExit, pool, phase, cycle>>
  PROVE  IInv'
<1> DEFINE n == CellsToSteal(Len(shared), waiting)
<1>1. /\ stack' = [stack EXCEPT ![v] = stack[v] \o Reverse(Top(shared, n))]
      /\ shared' = WithoutTop(shared, n)
      /\ numActive' = active + 1 /\ numWaiting' = waiting - 1
      /\ pc' = [pc EXCEPT ![v] = "drain"]
      /\ pc \in [Visitors -> PC] /\ stack \in [Visitors -> Seq(Cells)] /\ shared \in Seq(Cells)
      /\ pc[v] \in {"yield", "woken"}
  BY DEF Steal, IInv, TypeOK, HasLock
<1>2. n \in 0..Len(shared)
  <2>1. Len(shared) \in Nat /\ waiting \in Nat \ {0}
    BY <1>1 DEF HasLock
  <2> QED
    BY <2>1, StealSome
<1> HIDE DEF n
<1>3. MovesTo(v, "drain") /\ \A w \in Visitors \ {v} : pc'[w] = pc[w]
  BY <1>1 DEF MovesTo, PC
<1>4. /\ Top(shared, n) \in Seq(Cells) /\ WithoutTop(shared, n) \in Seq(Cells)
      /\ ToSet(shared) = ToSet(Top(shared, n)) \cup ToSet(WithoutTop(shared, n))
      /\ Distinct(shared) => /\ Distinct(Top(shared, n)) /\ Distinct(WithoutTop(shared, n))
                             /\ ToSet(Top(shared, n)) \cap ToSet(WithoutTop(shared, n)) = {}
  BY <1>1, <1>2, SplitSeq
<1>5. Distinct(stack[v]) /\ Distinct(shared) /\ ToSet(stack[v]) \cap ToSet(shared) = {}
  BY DEF IInv, StacksOK
<1> DEFINE r == Reverse(Top(shared, n))
<1>6. r \in Seq(Cells) /\ ToSet(r) = ToSet(Top(shared, n)) /\ Distinct(r)
  BY <1>4, <1>5, ReverseSeq
<1>7. stack[v] \o r \in Seq(Cells) /\ stack'[v] = stack[v] \o r /\ \A w \in Visitors \ {v} : stack'[w] = stack[w]
  BY <1>1, <1>6, ConcatSeq
<1> HIDE DEF r
<1>8. ToSet(stack'[v]) = ToSet(stack[v]) \cup ToSet(r) /\ Distinct(stack'[v])
  <2>1. ToSet(stack[v]) \cap ToSet(r) = {}
    BY <1>4, <1>5, <1>6
  <2>2. stack[v] \in Seq(Cells)
    BY <1>1
  <2>3. ToSet(stack[v] \o r) = ToSet(stack[v]) \cup ToSet(r) /\ Distinct(stack[v] \o r)
    BY <1>5, <1>6, <2>1, <2>2, ConcatSeq
  <2> QED
    BY <1>7, <2>3
<1>9. StacksOK'
  <2>1. ToSet(stack'[v]) \cap ToSet(shared') = {}
    BY <1>1, <1>4, <1>5, <1>6, <1>8
  <2>2. ToSet(stack'[v]) \cup ToSet(shared') = ToSet(stack[v]) \cup ToSet(shared)
    BY <1>1, <1>4, <1>6, <1>8
  <2>3. Distinct(shared')
    BY <1>1, <1>4, <1>5
  <2> QED
    BY <1>7, <1>8, <2>1, <2>2, <2>3, MoveCells
<1>10. CountersOK'
  <2>1. ActiveMarkers' \ {v} = ActiveMarkers \ {v} /\ Sleeping' \ {v} = Sleeping \ {v}
    BY <1>3, OthersCount
  <2>2. v \in ActiveMarkers' /\ v \notin Sleeping'
    BY <1>1, <1>3, WaiterHasNothing DEF ActiveMarkers, Sleeping, Draining, MovesTo
  <2>3. ActiveMarkers' \in SUBSET Visitors /\ Sleeping' \in SUBSET Visitors
    BY DEF ActiveMarkers, Sleeping
  <2>4. Cardinality(ActiveMarkers') = active + 1
    BY <2>1, <2>2, <2>3, CountOne DEF HasLock
  <2>5. Sleeping' = Sleeping \ {v}
    BY <2>1, <2>2
  <2>6. waiting - 1 \in Nat /\ waiting - 1 >= Cardinality(Sleeping')
    BY <2>5 DEF HasLock
  <2> QED
    BY <1>1, <2>4, <2>6 DEF CountersOK
<1>11. TypeOK'
  <2>1. stack' \in [Visitors -> Seq(Cells)]
    BY <1>1, <1>7
  <2>2. shared' \in Seq(Cells)
    BY <1>1, <1>4
  <2>3. numActive' \in 0..Cardinality(Visitors)
    BY <1>10, ActiveType
  <2>4. numWaiting' \in Nat
    BY <1>10 DEF CountersOK
  <2> QED
    BY <1>3, <2>1, <2>2, <2>3, <2>4 DEF IInv, TypeOK, MovesTo, heap, pool
<1>12. ControlOK'
  BY <1>1, <1>3, ControlStays, WaiterHasNothing DEF HelperPC, Draining, PC
<1>13. pc[Master] \notin Over /\ pc'[Master] \notin Over
  <2>1. pc[Master] \notin Over
    BY DEF IInv, WorkOK
  <2> QED
    BY <2>1, <1>3, VisitorsFacts DEF MovesTo, Over
<1>14. WorkOK'
  <2>1. pc'[v] = "drain" /\ todo[v] = <<>>
    BY <1>1, <1>3, WaiterHasNothing DEF MovesTo
  <2> QED
    BY <1>3, <1>7, <1>13, <2>1 DEF IInv, WorkOK, Draining
<1>15. ColoursOK' /\ SoundOK'
  BY QuietColours
<1>16. DoneOK'
  BY <1>13 DEF DoneOK
<1> QED
  BY <1>9, <1>10, <1>11, <1>12, <1>14, <1>15, <1>16 DEF IInv

\* There are none: it sleeps, or is done.
LEMMA IdleInv ==
  ASSUME IInv, NEW v \in Visitors, NEW active, NEW waiting, HasLock(v, active, waiting),
         NEW next \in {"asleep", "leave", "weak"}, MovesTo(v, next),
         next = "leave" => v \in Helpers,
         next = "weak" => v = Master /\ active = 0 /\ shared = <<>>,
         numActive' = active, numWaiting' = waiting,
         UNCHANGED <<heap, visitor, sharing, shouldExit, pool, phase, cycle>>
  PROVE  IInv'
<1>1. /\ stack[v] = <<>> /\ todo[v] = <<>> /\ localRoots[v] = {}
      /\ v = Master => phase = Len(Roots) + 1
      /\ pc[v] \in {"yield", "woken"} /\ pc'[v] = next
  BY WaiterHasNothing DEF HasLock, MovesTo
<1>2. CountersOK'
  <2>1. ActiveMarkers' \ {v} = ActiveMarkers \ {v} /\ Sleeping' \ {v} = Sleeping \ {v}
    BY OthersCount
  <2>2. v \notin ActiveMarkers'
    BY <1>1 DEF ActiveMarkers, Draining
  <2>3. ActiveMarkers' = ActiveMarkers \ {v}
    BY <2>1, <2>2
  <2>4. Sleeping' \in SUBSET Visitors
    BY DEF Sleeping
  <2>5. /\ Cardinality(Sleeping') = Cardinality(Sleeping' \ {v}) + (IF v \in Sleeping' THEN 1 ELSE 0)
        /\ Cardinality(Sleeping' \ {v}) \in Nat
    BY <2>4, CountOne
  <2>6. waiting \in Nat /\ waiting >= Cardinality(Sleeping')
    <3>1. waiting \in Nat \ {0} /\ waiting - 1 >= Cardinality(Sleeping' \ {v})
      BY <2>1 DEF HasLock
    <3> DEFINE k == Cardinality(Sleeping' \ {v})  m == Cardinality(Sleeping')
    <3>2. k \in Nat /\ (m = k \/ m = k + 1) /\ waiting - 1 >= k
      BY <2>5, <3>1
    <3> HIDE DEF k, m
    <3>3. waiting >= m
      BY <3>1, <3>2
    <3> QED
      BY <3>1, <3>3 DEF m
  <2> QED
    BY <2>3, <2>6 DEF CountersOK, HasLock
<1>3. TypeOK'
  <2>1. numActive' \in 0..Cardinality(Visitors) /\ numWaiting' \in Nat
    BY <1>2, ActiveType DEF CountersOK
  <2> QED
    BY <2>1 DEF IInv, TypeOK, MovesTo, heap, visitor, sharing, pool
<1>4. ControlOK'
  <2>1. v = Master => v \notin Helpers
    BY VisitorsFacts
  <2>2. v \in Helpers => next \in HelperPC
    BY <2>1 DEF HelperPC
  <2>3. v = Master => next \in {"asleep", "weak"}
    BY <2>1
  <2> QED
    BY <1>1, <2>2, <2>3, ControlStays DEF PC
<1>5. StacksOK' /\ ColoursOK' /\ SoundOK'
  BY QuietWork
<1>6. pc'[Master] \in Over \ {"weak"} => pc'[Master] = pc[Master]
  BY <1>1, VisitorsFacts DEF MovesTo, Over
<1>7. WorkOK'
  <2>1. /\ pc'[v] \notin Draining \cup {"roots"} /\ pc[v] \notin Draining
        /\ \A w \in Visitors \ {v} :
             /\ pc'[w] \in Draining <=> pc[w] \in Draining
             /\ pc'[w] \in {"roots", "visit"} <=> pc[w] \in {"roots", "visit"}
             /\ pc'[w] = "roots" <=> pc[w] = "roots"
    BY <1>1 DEF Draining, MovesTo
  <2>2. \A w \in Visitors :
          /\ pc'[w] \notin {"roots", "visit"} => todo'[w] = <<>>
          /\ pc'[w] \notin Draining \cup {"roots"} => stack'[w] = <<>> /\ localRoots'[w] = {}
    BY <1>1, <2>1 DEF IInv, WorkOK, visitor
  <2>3. ASSUME pc'[Master] \in Over
        PROVE  shared' = <<>> /\ \A h \in Helpers : pc'[h] \notin Draining
    <3>1. CASE next = "weak"
      <4>1. ActiveMarkers \ {v} = {}
        <5>1. ActiveMarkers \ {v} \in SUBSET Visitors
          BY DEF ActiveMarkers
        <5>2. IsFiniteSet(ActiveMarkers \ {v}) /\ Cardinality(ActiveMarkers \ {v}) = 0
          BY <3>1, <5>1, CountOne DEF HasLock
        <5> QED
          BY <5>2, FS_EmptySet
      <4>2. \A h \in Helpers : pc[h] \notin Draining
        BY <3>1, <4>1, VisitorsFacts DEF ActiveMarkers
      <4> QED
        BY <2>1, <3>1, <4>2, VisitorsFacts DEF sharing
    <3>2. CASE next # "weak"
      <4>1. pc[Master] \in Over
        BY <1>1, <2>3, <3>2, VisitorsFacts DEF MovesTo, Over
      <4>2. shared = <<>> /\ \A h \in Helpers : pc[h] \notin Draining
        BY <4>1 DEF IInv, WorkOK
      <4> QED
        BY <1>1, <2>1, <4>2, VisitorsFacts DEF sharing
    <3> QED
      BY <3>1, <3>2
  <2> QED
    BY <2>2, <2>3 DEF WorkOK
<1>8. DoneOK'
  BY <1>6 DEF IInv, DoneOK, heap
<1> QED
  BY <1>2, <1>3, <1>4, <1>5, <1>7, <1>8 DEF IInv

\* The two places where a visitor gets the lock of drainFromShared().
LEMMA WaitInv ==
  ASSUME IInv, NEW v \in Visitors, Yield(v) \/ Woken(v)
  PROVE  IInv'
<1>0. pc \in [Visitors -> PC]
  BY DEF IInv, TypeOK
<1>1. PICK active, waiting, pcs :
        /\ HasLock(v, active, waiting)
        /\ IF v = Master THEN MasterWait(active, waiting) ELSE SlaveWait(v, active, waiting, pcs)
        /\ pcs = pc \/ pcs = NotifyAll(pc)
  BY TakesLock DEF Yield, Woken, TerminationNotice
<1>2. UNCHANGED <<heap, localRoots, todo, opaqueRoots, shouldExit, pool, phase, cycle>>
  BY DEF Yield, Woken
<1>3. CASE shared # <<>> /\ Steal(v, active, waiting)
  BY <1>1, <1>2, <1>3, StealInv
<1>4. ASSUME NEW next \in {"asleep", "leave", "weak"}, NEW p,
             p = [pc EXCEPT ![v] = next] \/ p = [NotifyAll(pc) EXCEPT ![v] = next]
               \/ (next = "weak" /\ p = NotifyAll([pc EXCEPT ![v] = next])),
             Idle(active, waiting, p), next = "leave" => v \in Helpers,
             next = "weak" => v = Master /\ active = 0 /\ shared = <<>>
      PROVE  IInv'
  <2>1. MovesTo(v, next)
    <3>1. CASE p = [pc EXCEPT ![v] = next]
      BY <1>0, <1>4, <3>1 DEF Idle, MovesTo, PC
    <3>2. CASE p = [NotifyAll(pc) EXCEPT ![v] = next]
      BY <1>0, <1>4, <3>2 DEF Idle, MovesTo, NotifyAll, PC
    <3>3. CASE next = "weak" /\ p = NotifyAll([pc EXCEPT ![v] = next])
      BY <1>0, <1>4, <3>3 DEF Idle, MovesTo, NotifyAll, PC
    <3> QED
      BY <1>4, <3>1, <3>2, <3>3
  <2>2. numActive' = active /\ numWaiting' = waiting /\ UNCHANGED <<visitor, sharing>>
    BY <1>2, <1>4 DEF Idle, visitor, sharing
  <2> QED
    BY <1>1, <1>2, <1>4, <2>1, <2>2, IdleInv
<1>5. CASE v = Master
  <2>1. \/ /\ active = 0 /\ shared = <<>>
           /\ Idle(active, waiting, NotifyAll([pc EXCEPT ![Master] = "weak"]))
        \/ shared # <<>> /\ Steal(Master, active, waiting)
        \/ Idle(active, waiting, [pc EXCEPT ![Master] = "asleep"])
    BY <1>1, <1>5 DEF MasterWait
  <2>2. CASE /\ active = 0 /\ shared = <<>>
             /\ Idle(active, waiting, NotifyAll([pc EXCEPT ![Master] = "weak"]))
    BY <1>4, <1>5, <2>2
  <2>3. CASE Idle(active, waiting, [pc EXCEPT ![Master] = "asleep"])
    BY <1>4, <1>5, <2>3
  <2> QED
    BY <1>3, <1>5, <2>1, <2>2, <2>3
<1>6. CASE v # Master
  <2>0. v \in Helpers
    BY <1>6 DEF Visitors
  <2>1. \/ Idle(active, waiting, [pcs EXCEPT ![v] = "leave"])
        \/ shared # <<>> /\ Steal(v, active, waiting)
        \/ Idle(active, waiting, [pcs EXCEPT ![v] = "asleep"])
    BY <1>1, <1>6 DEF SlaveWait
  <2>2. CASE Idle(active, waiting, [pcs EXCEPT ![v] = "leave"])
    BY <1>1, <1>4, <2>0, <2>2
  <2>3. CASE Idle(active, waiting, [pcs EXCEPT ![v] = "asleep"])
    BY <1>1, <1>4, <2>3
  <2> QED
    BY <1>3, <2>1, <2>2, <2>3
<1> QED
  BY <1>5, <1>6

\* When the master takes marking to be over, nobody has anything left.
LEMMA NothingLeft == IInv => TerminationIsReal
<1> SUFFICES ASSUME IInv, pc[Master] \in Over
             PROVE  shared = <<>> /\ \A v \in Visitors : stack[v] = <<>> /\ todo[v] = <<>> /\ localRoots[v] = {}
  BY DEF TerminationIsReal, Over
<1>1. shared = <<>> /\ \A h \in Helpers : pc[h] \notin Draining
  BY DEF IInv, WorkOK
<1>2. \A v \in Visitors : pc[v] \notin Draining \cup {"roots", "visit"}
  <2>1. \A h \in Helpers : pc[h] \notin Draining \cup {"roots", "visit"}
    BY <1>1 DEF IInv, ControlOK, HelperPC, Draining
  <2>2. pc[Master] \notin Draining \cup {"roots", "visit"}
    BY DEF Over, Draining
  <2> QED
    BY <2>1, <2>2 DEF Visitors
<1> QED
  BY <1>1, <1>2 DEF IInv, WorkOK

LEMMA AllEmpty ==
  ASSUME IInv, pc[Master] \in Over
  PROVE  /\ ToSet(shared) = {} /\ \A v \in Visitors : ToSet(stack[v]) = {} /\ ToSet(todo[v]) = {}
         /\ Known = opaqueRoots
<1>1. shared = <<>> /\ \A v \in Visitors : stack[v] = <<>> /\ todo[v] = <<>> /\ localRoots[v] = {}
  BY NothingLeft DEF TerminationIsReal, Over
<1>2. Known = opaqueRoots
  BY <1>1 DEF Known
<1>3. \A v \in Visitors : ToSet(stack[v]) = {} /\ ToSet(todo[v]) = {}
  BY <1>1, EmptyToSet
<1> QED
  BY <1>1, <1>2, <1>3, EmptyToSet

\* markRoots() begins: nothing is marked, and the first roots are to be appended.
LEMMA MarkRootsInv ==
  ASSUME IInv, MarkRoots
  PROVE  IInv'
<1>1. /\ pc[Master] = "mutator" /\ Master \in Visitors /\ pc \in [Visitors -> PC]
      /\ cycle' = cycle + 1 /\ cycle < MaxCycles /\ cycle \in 0..MaxCycles
      /\ marks' = {} /\ opaqueRoots' = {} /\ shouldExit' = FALSE /\ phase' = 1
      /\ stack' = [stack EXCEPT ![Master] = <<>>] /\ stack \in [Visitors -> Seq(Cells)]
      /\ todo' = [todo EXCEPT ![Master] = Roots[1]] /\ todo \in [Visitors -> Seq(Cells)]
      /\ pc' = [pc EXCEPT ![Master] = "roots"]
      /\ UNCHANGED <<cellState, localRoots, shared, numActive, numWaiting>>
  BY VisitorsFacts DEF MarkRoots, IInv, TypeOK
<1>2. /\ inside["heap"] = {} /\ UNCHANGED inside /\ offered' = [offered EXCEPT !["heap"] = TRUE]
  BY DEF MarkRoots, Pool!Offer
<1>3. shared = <<>> /\ \A v \in Visitors : stack[v] = <<>> /\ todo[v] = <<>> /\ localRoots[v] = {}
  BY <1>1, NothingLeft DEF TerminationIsReal
<1>4. /\ \A v \in Visitors : stack'[v] = <<>> /\ localRoots'[v] = {}
      /\ \A v \in Visitors \ {Master} : todo'[v] = <<>> /\ pc'[v] = pc[v]
      /\ todo'[Master] = Roots[1] /\ pc'[Master] = "roots" /\ shared' = <<>>
  BY <1>1, <1>3
<1>5. Roots[1] \in Seq(Cells) /\ 1 \in DOMAIN Roots /\ Len(Roots) \in Nat \ {0}
  BY RootsFacts
<1>6. MovesTo(Master, "roots")
  BY <1>1 DEF MovesTo, PC
<1>7. CountersOK'
  <2>1. Master \notin ActiveMarkers' /\ Master \notin ActiveMarkers
    BY <1>1, <1>4 DEF ActiveMarkers, Draining
  <2>2. Master \notin Sleeping'
    BY <1>4 DEF Sleeping
  <2> QED
    BY <1>1, <1>6, <2>1, <2>2, SameCounters
<1>8. TypeOK'
  <2>1. stack' \in [Visitors -> Seq(Cells)] /\ todo' \in [Visitors -> Seq(Cells)]
    BY <1>1, <1>5
  <2>2. offered' \in [{"heap"} -> BOOLEAN]
    BY <1>2 DEF IInv, TypeOK
  <2>3. cycle' \in 0..MaxCycles
    BY <1>1, ConstantsAssumption
  <2>4. phase' \in 0..Len(Roots) + 1
    BY <1>1, <1>5
  <2> QED
    BY <1>1, <1>2, <1>6, <2>1, <2>2, <2>3, <2>4 DEF IInv, TypeOK, MovesTo
<1>9. ControlOK'
  <2>1. \A h \in Helpers : pc'[h] = pc[h]
    BY <1>4, VisitorsFacts
  <2>2. offered' \in [{"heap"} -> BOOLEAN] /\ cycle' \in Nat
    BY <1>1, <1>2 DEF IInv, TypeOK
  <2>3. inside'["heap"] = {h \in Helpers : pc'[h] # "out"}
    BY <1>2, <2>1 DEF IInv, ControlOK
  <2> QED
    BY <1>1, <1>2, <1>4, <1>5, <2>1, <2>2, <2>3 DEF IInv, ControlOK, Over, PC
<1>10. WorkOK'
  BY <1>4 DEF WorkOK, Over
<1>11. /\ ToSet(shared') = {} /\ Distinct(shared')
       /\ \A v \in Visitors : ToSet(stack'[v]) = {} /\ Distinct(stack'[v])
       /\ \A v \in Visitors \ {Master} : ToSet(todo'[v]) = {}
  BY <1>4, EmptyToSet, EmptyDistinct
<1>12. StacksOK'
  BY <1>1, <1>11 DEF StacksOK
<1>13. ColoursOK'
  <2>1. \A i \in DOMAIN Roots : i <= phase' => i = 1
    BY <1>1, <1>5, RootsFacts
  <2> QED
    BY <1>1, <1>4, <2>1 DEF ColoursOK
<1>14. SoundOK'
  <2>1. ToSet(Roots[1]) \subseteq Live
    BY <1>5, LiveIsClosed DEF Closed
  <2>2. Known' = {}
    BY <1>1, <1>4 DEF Known
  <2> QED
    BY <1>1, <1>4, <1>11, <2>1, <2>2 DEF SoundOK
<1>15. DoneOK'
  BY <1>4 DEF DoneOK, Over
<1> QED
  BY <1>7, <1>8, <1>9, <1>10, <1>12, <1>13, <1>14, <1>15 DEF IInv

\* The roots of a phase were drained.
LEMMA NextRootsInv ==
  ASSUME IInv, NextRoots
  PROVE  IInv'
<1>1. /\ pc[Master] = "drained" /\ Master \in Visitors /\ pc \in [Visitors -> PC]
      /\ phase' = phase + 1 /\ phase \in 0..Len(Roots) + 1 /\ phase < Len(Roots)
      /\ todo' = [todo EXCEPT ![Master] = Roots[phase + 1]] /\ todo \in [Visitors -> Seq(Cells)]
      /\ pc' = [pc EXCEPT ![Master] = "roots"]
      /\ UNCHANGED <<heap, stack, localRoots, sharing, counters, pool, cycle>>
  BY VisitorsFacts DEF NextRoots, IInv, TypeOK, ControlOK
<1>2. phase + 1 \in DOMAIN Roots /\ Roots[phase + 1] \in Seq(Cells) /\ phase' \in 1..Len(Roots)
  BY <1>1, RootsFacts
<1>3. todo[Master] = <<>> /\ ToSet(todo[Master]) = {}
  BY <1>1, EmptyToSet DEF IInv, WorkOK
<1>4. /\ \A v \in Visitors \ {Master} : todo'[v] = todo[v] /\ pc'[v] = pc[v]
      /\ todo'[Master] = Roots[phase + 1] /\ pc'[Master] = "roots"
  BY <1>1
<1>5. MovesTo(Master, "roots")
  BY <1>1 DEF MovesTo, PC
<1> USE DEF heap, sharing, counters, pool
<1>6. CountersOK'
  <2>1. Master \notin ActiveMarkers' /\ Master \notin ActiveMarkers
    BY <1>1, <1>4 DEF ActiveMarkers, Draining
  <2>2. Master \notin Sleeping'
    BY <1>4 DEF Sleeping
  <2> QED
    BY <1>1, <1>5, <2>1, <2>2, SameCounters
<1>7. TypeOK'
  <2>1. todo' \in [Visitors -> Seq(Cells)]
    BY <1>1, <1>2
  <2>2. phase' \in 0..Len(Roots) + 1
    BY <1>2, RootsFacts
  <2> QED
    BY <1>1, <1>5, <2>1, <2>2 DEF IInv, TypeOK, MovesTo
<1>8. ControlOK'
  <2>1. \A h \in Helpers : pc'[h] = pc[h]
    BY <1>4, VisitorsFacts
  <2>2. inside'["heap"] = {h \in Helpers : pc'[h] # "out"}
    BY <1>1, <2>1 DEF IInv, ControlOK
  <2>3. phase' \in 0..Len(Roots) + 1 /\ phase' # 0 /\ phase' <= Len(Roots)
    BY <1>2, RootsFacts
  <2> QED
    BY <1>1, <1>4, <2>1, <2>2, <2>3 DEF IInv, ControlOK, Over, PC
<1>9. WorkOK'
  BY <1>1, <1>4 DEF IInv, WorkOK, Draining, Over
<1>10. StacksOK'
  BY <1>1 DEF IInv, StacksOK
<1>11. Known' = Known
  BY <1>1 DEF Known
<1>12. ColoursOK'
  <2>1. \A d : (\E v \in Visitors : d \in ToSet(todo[v])) => \E v \in Visitors : d \in ToSet(todo'[v])
    BY <1>3, <1>4
  <2>2. ASSUME NEW i \in DOMAIN Roots, i <= phase'
        PROVE  ToSet(Roots[i]) \subseteq marks' \cup ToSet(todo'[Master])
    <3>1. i <= phase \/ i = phase + 1
      BY <1>1, <2>2, RootsFacts
    <3> QED
      BY <1>1, <1>3, <1>4, <3>1 DEF IInv, ColoursOK
  <2> QED
    BY <1>1, <1>11, <2>1, <2>2 DEF IInv, ColoursOK
<1>13. SoundOK'
  <2>1. ToSet(Roots[phase + 1]) \subseteq Live
    BY <1>2, LiveIsClosed DEF Closed
  <2> QED
    BY <1>1, <1>4, <1>11, <2>1 DEF IInv, SoundOK
<1>14. DoneOK'
  BY <1>4 DEF DoneOK, Over
<1> QED
  BY <1>6, <1>7, <1>8, <1>9, <1>10, <1>12, <1>13, <1>14 DEF IInv

\* What a round of visitWeakHandles() finds is live; if it finds nothing new, all that is
\* live is marked.
LEMMA WeakRound ==
  ASSUME IInv, pc[Master] = "weak",
         NEW new, new = (KeptByHandles \cup KeptByHarvesters(marks \cup KeptByHandles)) \ marks
  PROVE  /\ new \subseteq Live
         /\ new = {} => Live \subseteq marks
<1>1. /\ \A v \in Visitors : ToSet(todo[v]) = {} /\ ToSet(stack[v]) = {}
      /\ ToSet(shared) = {} /\ Known = opaqueRoots /\ Master \in Visitors
  BY AllEmpty, VisitorsFacts DEF Over
<1>2. marks \subseteq Live /\ marks \subseteq Cells /\ opaqueRoots \subseteq UNION {OpaqueRoots[c] : c \in Live}
  BY <1>1 DEF IInv, SoundOK, TypeOK
<1>3. KeptByHandles \subseteq Live
  <2> SUFFICES ASSUME NEW c \in KeptByHandles PROVE c \in Live
    OBVIOUS
  <2>1. PICK r \in opaqueRoots : <<r, c>> \in WeakHandles
    BY DEF KeptByHandles
  <2>2. PICK k \in Live : r \in OpaqueRoots[k]
    BY <1>2
  <2> DEFINE rc == <<r, c>>
  <2>3. rc \in WeakHandles /\ rc[1] = r /\ rc[2] = c
    BY <2>1
  <2> HIDE DEF rc
  <2>4. rc[1] \in OpaqueRoots[k] => rc[2] \in Live
    BY <2>2, <2>3, LiveIsClosed DEF Closed
  <2> QED
    BY <2>2, <2>3, <2>4
<1>4. KeptByHarvesters(marks \cup KeptByHandles) \subseteq Live
  <2> SUFFICES ASSUME NEW c \in KeptByHarvesters(marks \cup KeptByHandles) PROVE c \in Live
    OBVIOUS
  <2>1. PICK k \in marks \cup KeptByHandles : <<k, c>> \in Harvesters
    BY DEF KeptByHarvesters
  <2> DEFINE kc == <<k, c>>
  <2>2. kc \in Harvesters /\ kc[1] = k /\ kc[2] = c /\ k \in Live
    BY <1>2, <1>3, <2>1
  <2> HIDE DEF kc
  <2>3. kc[1] \in Live => kc[2] \in Live
    BY <2>2, LiveIsClosed DEF Closed
  <2> QED
    BY <2>2, <2>3
<1>5. ASSUME new = {} PROVE Closed(marks)
  <2>1. ASSUME NEW i \in DOMAIN Roots PROVE ToSet(Roots[i]) \subseteq marks
    <3>1. phase = Len(Roots) + 1
      BY DEF IInv, ControlOK, Over
    <3>2. i <= phase
      BY <3>1, RootsFacts
    <3> QED
      BY <1>1, <3>2 DEF IInv, ColoursOK
  <2>2. ASSUME NEW c \in marks PROVE ToSet(Children[c]) \subseteq marks /\ OpaqueRoots[c] \subseteq opaqueRoots
    <3>1. cellState[c] # "NewGrey"
      BY <1>1, <1>2 DEF IInv, StacksOK
    <3>2. cellState[c] = "OldBlack"
      BY <1>2, <3>1 DEF IInv, TypeOK, ColoursOK
    <3> QED
      BY <1>1, <3>2 DEF IInv, ColoursOK
  <2>3. ASSUME NEW rc \in WeakHandles, NEW c \in marks, rc[1] \in OpaqueRoots[c] PROVE rc[2] \in marks
    <3>1. rc[1] \in opaqueRoots /\ rc[2] \in Cells /\ <<rc[1], rc[2]>> \in WeakHandles
      BY <2>2, <2>3, HandleFacts
    <3>2. rc[2] \in KeptByHandles
      BY <3>1 DEF KeptByHandles
    <3> QED
      BY <1>5, <3>2
  <2>4. ASSUME NEW kc \in Harvesters, kc[1] \in marks PROVE kc[2] \in marks
    <3>1. kc[2] \in Cells /\ <<kc[1], kc[2]>> \in Harvesters
      BY HandleFacts
    <3>2. kc[2] \in KeptByHarvesters(marks \cup KeptByHandles)
      BY <2>4, <3>1 DEF KeptByHarvesters
    <3> QED
      BY <1>5, <3>2
  <2> QED
    BY <2>1, <2>2, <2>3, <2>4 DEF Closed
<1>6. new = {} => Live \subseteq marks
  BY <1>2, <1>5, LiveIsLeast
<1> QED
  BY <1>3, <1>4, <1>6

\* One round of visitWeakHandles().
LEMMA VisitWeakHandlesInv ==
  ASSUME IInv, VisitWeakHandles
  PROVE  IInv'
<1> DEFINE new == (KeptByHandles \cup KeptByHarvesters(marks \cup KeptByHandles)) \ marks
<1>1. /\ pc[Master] = "weak" /\ Master \in Visitors /\ pc \in [Visitors -> PC]
      /\ marks' = marks \cup new /\ marks \subseteq Cells
      /\ cellState' = [c \in Cells |-> IF c \in new THEN "NewGrey" ELSE cellState[c]]
      /\ stack' = [stack EXCEPT ![Master] = stack[Master] \o SetToSeq(new)]
      /\ stack \in [Visitors -> Seq(Cells)]
      /\ pc' = [pc EXCEPT ![Master] = IF new = {} THEN "exit" ELSE "roots"]
      /\ phase' = (IF new = {} THEN phase ELSE Len(Roots)) /\ phase = Len(Roots) + 1
      /\ UNCHANGED <<localRoots, todo, sharing, counters, pool, cycle>>
  <2>1. pc[Master] = "weak" /\ phase = Len(Roots) + 1
    BY DEF VisitWeakHandles, IInv, ControlOK, Over
  <2> QED
    BY <2>1, VisitorsFacts DEF VisitWeakHandles, IInv, TypeOK
<1>2. new \subseteq Live /\ (new = {} => Live \subseteq marks) /\ new \cap marks = {}
  BY <1>1, WeakRound
<1> HIDE DEF new
<1>3. new \subseteq Cells /\ IsFiniteSet(new)
  BY <1>2, LiveIsClosed, ConstantsAssumption, FS_Subset
<1>4. shared = <<>> /\ \A v \in Visitors : stack[v] = <<>> /\ todo[v] = <<>> /\ localRoots[v] = {}
  BY <1>1, NothingLeft DEF TerminationIsReal
<1>5. /\ ToSet(shared) = {} /\ \A v \in Visitors : ToSet(stack[v]) = {} /\ ToSet(todo[v]) = {}
  BY <1>1, AllEmpty DEF Over
<1> DEFINE s == SetToSeq(new)
<1>6. s \in Seq(new) /\ ToSet(s) = new /\ Distinct(s)
  BY <1>3, SetToSeqOfSet
<1> HIDE DEF s
<1>7. stack'[Master] = s /\ s \in Seq(Cells) /\ \A v \in Visitors \ {Master} : stack'[v] = <<>>
  <2>1. s \in Seq(Cells)
    BY <1>3, <1>6
  <2>2. <<>> \o s = s
    BY <2>1
  <2> QED
    BY <1>1, <1>4, <2>1, <2>2 DEF s
<1>8. new = {} => s = <<>>
  <2>1. ASSUME s # <<>> PROVE s[1] \in ToSet(s)
    BY <2>1, <1>7 DEF ToSet
  <2> QED
    BY <2>1, <1>6
<1>9. /\ \A v \in Visitors \ {Master} : pc'[v] = pc[v]
      /\ pc'[Master] = IF new = {} THEN "exit" ELSE "roots"
  BY <1>1
<1>10. MovesTo(Master, pc'[Master])
  BY <1>1 DEF MovesTo, PC
<1> USE DEF sharing, counters, pool
<1>11. CountersOK'
  <2>1. Master \notin ActiveMarkers' /\ Master \notin ActiveMarkers
    BY <1>1, <1>9 DEF ActiveMarkers, Draining
  <2>2. Master \notin Sleeping'
    BY <1>9 DEF Sleeping
  <2> QED
    BY <1>1, <1>10, <2>1, <2>2, SameCounters
<1>12. TypeOK'
  <2>1. marks' \subseteq Cells
    BY <1>1, <1>3
  <2>2. cellState' \in [Cells -> {"NewWhite", "NewGrey", "OldBlack"}]
    BY <1>1 DEF IInv, TypeOK
  <2>3. stack' \in [Visitors -> Seq(Cells)]
    BY <1>1, <1>7
  <2>4. phase' \in 0..Len(Roots) + 1
    BY <1>1, RootsFacts
  <2> QED
    BY <1>1, <1>10, <2>1, <2>2, <2>3, <2>4 DEF IInv, TypeOK, MovesTo
<1>13. ControlOK'
  <2>1. \A h \in Helpers : pc'[h] = pc[h]
    BY <1>9, VisitorsFacts
  <2>2. inside'["heap"] = {h \in Helpers : pc'[h] # "out"}
    BY <1>1, <2>1 DEF IInv, ControlOK
  <2>3. CASE new = {}
    BY <1>1, <1>9, <2>1, <2>2, <2>3 DEF IInv, ControlOK, Over, PC
  <2>4. CASE new # {}
    <3>1. pc'[Master] = "roots" /\ phase' = Len(Roots) /\ Len(Roots) \in Nat \ {0}
      BY <1>1, <1>9, <2>4, RootsFacts
    <3> QED
      BY <1>1, <2>1, <2>2, <3>1 DEF IInv, ControlOK, Over, PC
  <2> QED
    BY <2>3, <2>4
<1>14. WorkOK'
  <2>1. \A h \in Helpers : pc'[h] \notin Draining
    BY <1>1, <1>9, VisitorsFacts DEF IInv, WorkOK, Over
  <2> QED
    BY <1>1, <1>4, <1>7, <1>8, <1>9, <2>1 DEF WorkOK
<1>15. /\ ToSet(stack'[Master]) = new /\ Distinct(stack'[Master])
       /\ \A v \in Visitors \ {Master} : ToSet(stack'[v]) = {} /\ Distinct(stack'[v])
       /\ ToSet(shared') = {} /\ Distinct(shared')
  <2>1. shared' = <<>>
    BY <1>1, <1>4
  <2> QED
    BY <1>6, <1>7, <2>1, EmptyToSet, EmptyDistinct
<1>16. StacksOK'
  <2>1. ASSUME NEW c \in Cells PROVE c \in marks' /\ cellState'[c] = "NewGrey" <=> c \in new
    <3>1. c \in marks => cellState[c] # "NewGrey"
      BY <1>5 DEF IInv, StacksOK
    <3> QED
      BY <1>1, <3>1
  <2> QED
    BY <1>1, <1>15, <2>1 DEF StacksOK
<1>17. Known' = Known
  BY <1>1 DEF Known
<1>18. /\ \A c \in new : cellState'[c] = "NewGrey"
       /\ \A c \in marks : cellState'[c] = cellState[c]
  BY <1>1, <1>2, <1>3
<1>19. ColoursOK'
  <2>1. \A c \in marks' : cellState'[c] # "NewWhite"
    BY <1>1, <1>18 DEF IInv, ColoursOK
  <2>2. ASSUME NEW c \in marks', cellState'[c] = "OldBlack"
        PROVE  /\ \A d \in ToSet(Children[c]) : d \in marks' \/ \E w \in Visitors : d \in ToSet(todo'[w])
               /\ OpaqueRoots[c] \subseteq Known'
    <3>1. c \in marks /\ cellState[c] = "OldBlack"
      BY <1>1, <1>18, <2>2
    <3> QED
      BY <1>1, <1>17, <3>1 DEF IInv, ColoursOK
  <2>3. ASSUME NEW i \in DOMAIN Roots, i <= phase'
        PROVE  ToSet(Roots[i]) \subseteq marks' \cup ToSet(todo'[Master])
    <3>1. i <= phase
      BY <1>1, RootsFacts
    <3> QED
      BY <1>1, <3>1 DEF IInv, ColoursOK
  <2> QED
    BY <2>1, <2>2, <2>3 DEF ColoursOK
<1>20. SoundOK'
  BY <1>1, <1>2, <1>17 DEF IInv, SoundOK
<1>21. DoneOK'
  BY <1>1, <1>2, <1>9 DEF DoneOK, Over
<1> QED
  BY <1>11, <1>12, <1>13, <1>14, <1>16, <1>19, <1>20, <1>21 DEF IInv

LEMMA InitIInv == Init => IInv
<1> SUFFICES ASSUME Init PROVE IInv
  OBVIOUS
<1>1. /\ marks = {} /\ cellState = [c \in Cells |-> "NewWhite"]
      /\ stack = [v \in Visitors |-> <<>>] /\ todo = [v \in Visitors |-> <<>>]
      /\ localRoots = [v \in Visitors |-> {}]
      /\ shared = <<>> /\ opaqueRoots = {} /\ numActive = 0 /\ numWaiting = 0 /\ shouldExit = FALSE
      /\ offered = [c \in {"heap"} |-> FALSE] /\ inside = [c \in {"heap"} |-> {}]
      /\ pc = [v \in Visitors |-> IF v = Master THEN "mutator" ELSE "out"]
      /\ phase = 0 /\ cycle = 0
  BY DEF Init, Pool!Init
<1>2. pc[Master] = "mutator" /\ \A h \in Helpers : pc[h] = "out"
  BY <1>1, VisitorsFacts
<1>3. \A v \in Visitors : pc[v] \in {"mutator", "out"}
  BY <1>1
<1>4. CountersOK
  <2>1. ActiveMarkers = {} /\ Sleeping = {}
    BY <1>3 DEF ActiveMarkers, Sleeping, Draining
  <2> QED
    BY <1>1, <2>1, FS_EmptySet DEF CountersOK
<1>5. TypeOK
  <2>1. 0 \in 0..Cardinality(Visitors)
    BY VisitorsFacts, FS_CardinalityType
  <2>2. 0 \in 0..MaxCycles /\ 0 \in 0..Len(Roots) + 1
    BY ConstantsAssumption, RootsFacts
  <2>3. pc \in [Visitors -> PC]
    BY <1>1 DEF PC
  <2>4. /\ stack \in [Visitors -> Seq(Cells)] /\ todo \in [Visitors -> Seq(Cells)]
        /\ localRoots \in [Visitors -> SUBSET AllOpaqueRoots]
        /\ cellState \in [Cells -> {"NewWhite", "NewGrey", "OldBlack"}]
    BY <1>1
  <2>5. offered \in [{"heap"} -> BOOLEAN] /\ inside \in [{"heap"} -> SUBSET Helpers]
    BY <1>1
  <2>6. shared \in Seq(Cells) /\ marks \subseteq Cells /\ opaqueRoots \subseteq AllOpaqueRoots
    BY <1>1
  <2> QED
    BY <1>1, <2>1, <2>2, <2>3, <2>4, <2>5, <2>6 DEF TypeOK
<1>6. ControlOK
  <2>1. inside["heap"] = {h \in Helpers : pc[h] # "out"}
    BY <1>1, <1>2
  <2>2. phase \in 0..Len(Roots) + 1
    BY <1>1, RootsFacts
  <2> QED
    BY <1>1, <1>2, <2>1, <2>2 DEF ControlOK, HelperPC, PC, Over
<1>7. WorkOK
  BY <1>1, <1>2 DEF WorkOK, Draining
<1>8. /\ ToSet(shared) = {} /\ Distinct(shared)
      /\ \A v \in Visitors : ToSet(stack[v]) = {} /\ Distinct(stack[v]) /\ ToSet(todo[v]) = {}
  <2>1. \A v \in Visitors : stack[v] = <<>> /\ todo[v] = <<>>
    BY <1>1
  <2> QED
    BY <1>1, <2>1, EmptyToSet, EmptyDistinct
<1>9. StacksOK
  BY <1>1, <1>8 DEF StacksOK
<1>10. ColoursOK
  BY <1>1, RootsFacts DEF ColoursOK
<1>11. SoundOK
  <2>1. Known = {}
    BY <1>1 DEF Known
  <2> QED
    BY <1>1, <1>8, <2>1 DEF SoundOK
<1>12. DoneOK
  BY <1>1 DEF DoneOK
<1> QED
  BY <1>4, <1>5, <1>6, <1>7, <1>9, <1>10, <1>11, <1>12 DEF IInv

LEMMA StutterIInv == IInv /\ UNCHANGED vars => IInv'
<1> SUFFICES ASSUME IInv, UNCHANGED vars PROVE IInv'
  OBVIOUS
<1>1. UNCHANGED <<heap, visitor, sharing, counters, pool, pc, phase, cycle>>
  BY DEF vars
<1> USE DEF heap, visitor, sharing, counters, pool
<1>2. StacksOK' /\ ColoursOK' /\ SoundOK'
  BY <1>1, QuietWork
<1>3. CountersOK'
  BY <1>1 DEF IInv, CountersOK, ActiveMarkers, Sleeping
<1>4. TypeOK'
  BY <1>1 DEF IInv, TypeOK
<1>5. ControlOK' /\ WorkOK' /\ DoneOK'
  BY <1>1 DEF IInv, ControlOK, WorkOK, DoneOK
<1> QED
  BY <1>2, <1>3, <1>4, <1>5 DEF IInv

LEMMA NextIInv == IInv /\ [Next]_vars => IInv'
<1> SUFFICES ASSUME IInv, [Next]_vars PROVE IInv'
  OBVIOUS
<1>1. ASSUME NEW v \in Visitors, Visit(v) PROVE IInv'
  BY <1>1, SetMarkedAndAppendInv, VisitorMoves, VisitChildrenInv, DonateInv, DrainDoneInv,
     DrainFromSharedEnterInv, WaitInv DEF Visit
<1>2. ASSUME NEW h \in Helpers, HelperEnter(h) \/ HelperLeave(h) PROVE IInv'
  BY <1>2, HelperInv
<1>3. CASE MarkRoots
  BY <1>3, MarkRootsInv
<1>4. CASE Collect
  BY <1>4, MasterMoves, NextRootsInv, VisitWeakHandlesInv DEF Collect
<1>5. CASE UNCHANGED vars
  BY <1>5, StutterIInv
<1> QED
  BY <1>1, <1>2, <1>3, <1>4, <1>5 DEF Next, Terminated
-----------------------------------------------------------------------------
(***************************************************************************)
(* The invariant holds in every reachable state, whatever the object graph *)
(* and however many helpers come and go.                                   *)
(***************************************************************************)
THEOREM IInvHolds == Spec => []IInv
  BY InitIInv, NextIInv, PTL DEF Spec

(***************************************************************************)
(* drainFromShared() detects termination correctly: when the master goes   *)
(* on to the weak handles, no visitor has a cell, a child or an opaque     *)
(* root left, and no cell is shared.                                       *)
(***************************************************************************)
THEOREM TerminationDetected == Spec => []TerminationIsReal
  BY IInvHolds, NothingLeft, PTL

(***************************************************************************)
(* When markRoots() has returned, the marked cells are exactly the live    *)
(* ones, all of them were visited, and no helper is inside.                *)
(***************************************************************************)
THEOREM ExactlyLiveCellsMarked == Spec => []MarkingComplete
<1>1. IInv => MarkingComplete
  <2> SUFFICES ASSUME IInv, pc[Master] = "mutator", cycle > 0
               PROVE  /\ marks = Live /\ \A c \in marks : cellState[c] = "OldBlack"
                      /\ inside["heap"] = {} /\ numActive = 0
    BY DEF MarkingComplete
  <2>1. marks = Live
    BY DEF IInv, SoundOK, DoneOK, Over
  <2>2. ASSUME NEW c \in marks PROVE cellState[c] = "OldBlack"
    <3>1. c \in Cells /\ cellState[c] \in {"NewWhite", "NewGrey", "OldBlack"}
      BY DEF IInv, TypeOK
    <3>2. cellState[c] # "NewGrey"
      BY <3>1, AllEmpty DEF IInv, StacksOK, Over
    <3> QED
      BY <3>1, <3>2 DEF IInv, ColoursOK
  <2>3. inside["heap"] = {} /\ \A h \in Helpers : pc[h] = "out"
    BY DEF IInv, ControlOK
  <2>4. ActiveMarkers = {}
    BY <2>3 DEF ActiveMarkers, Visitors, Draining
  <2>5. numActive = 0
    BY <2>4, FS_EmptySet DEF IInv, CountersOK
  <2> QED
    BY <2>1, <2>2, <2>3, <2>5
<1> QED
  BY <1>1, IInvHolds, PTL

LEMMA OccursOnce ==
  ASSUME NEW s \in Seq(Cells), Distinct(s), NEW c
  PROVE  Occurrences(s, c) = IF c \in ToSet(s) THEN 1 ELSE 0
<1> DEFINE I == {i \in DOMAIN s : s[i] = c}
<1>1. CASE c \in ToSet(s)
  <2>1. PICK i \in DOMAIN s : s[i] = c
    BY <1>1 DEF ToSet
  <2>2. I = {i}
    BY <2>1 DEF Distinct
  <2> QED
    BY <1>1, <2>2, FS_Singleton DEF Occurrences
<1>2. CASE c \notin ToSet(s)
  <2>1. I = {}
    BY <1>2 DEF ToSet
  <2> QED
    BY <1>2, <2>1, FS_EmptySet DEF Occurrences
<1> QED
  BY <1>1, <1>2

(***************************************************************************)
(* Every cell that was marked and not visited is on one mark stack, once,  *)
(* through all donating and stealing, and no other cell is on any.         *)
(***************************************************************************)
THEOREM CellsVisitedOnce == Spec => []EachCellVisitedOnce
<1>1. IInv => EachCellVisitedOnce
  <2> SUFFICES ASSUME IInv, NEW c \in Cells
               PROVE  /\ Occurrences(shared, c) + Cardinality(Waiting(c))
                           = IF c \in marks /\ cellState[c] = "NewGrey" THEN 1 ELSE 0
                      /\ \A v \in Visitors : Occurrences(stack[v], c) <= 1
    BY DEF EachCellVisitedOnce
  <2>1. /\ shared \in Seq(Cells) /\ Distinct(shared)
        /\ \A v \in Visitors : stack[v] \in Seq(Cells) /\ Distinct(stack[v])
    BY DEF IInv, TypeOK, StacksOK
  <2>2. Occurrences(shared, c) = IF c \in ToSet(shared) THEN 1 ELSE 0
    BY <2>1, OccursOnce
  <2>3. \A v \in Visitors : Occurrences(stack[v], c) = IF c \in ToSet(stack[v]) THEN 1 ELSE 0
    BY <2>1, OccursOnce
  <2>4. Waiting(c) = {v \in Visitors : c \in ToSet(stack[v])}
    BY <2>3 DEF Waiting
  <2>5. CASE \E v \in Visitors : c \in ToSet(stack[v])
    <3>1. PICK v \in Visitors : c \in ToSet(stack[v])
      BY <2>5
    <3>2. Waiting(c) = {v} /\ c \notin ToSet(shared)
      BY <2>4, <3>1 DEF IInv, StacksOK
    <3>3. c \in marks /\ cellState[c] = "NewGrey"
      BY <3>1 DEF IInv, StacksOK
    <3>4. Cardinality(Waiting(c)) = 1 /\ Occurrences(shared, c) = 0
      BY <2>2, <3>2, FS_Singleton
    <3>5. \A w \in Visitors : Occurrences(stack[w], c) <= 1
      BY <2>3
    <3> QED
      BY <3>3, <3>4, <3>5
  <2>6. CASE \A v \in Visitors : c \notin ToSet(stack[v])
    <3>1. Waiting(c) = {}
      BY <2>4, <2>6
    <3>2. c \in ToSet(shared) <=> c \in marks /\ cellState[c] = "NewGrey"
      BY <2>6 DEF IInv, StacksOK
    <3> QED
      BY <2>2, <2>3, <3>1, <3>2, FS_EmptySet
  <2> QED
    BY <2>5, <2>6
<1> QED
  BY <1>1, IInvHolds, PTL
=============================================================================
