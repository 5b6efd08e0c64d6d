--------------------------- MODULE ParallelMarking ---------------------------
(***************************************************************************)
(* The marking phase of a full collection: the thread that collects and    *)
(* the helpers of the pool, each with a SlotVisitor and a mark stack, mark *)
(* the cells that are reachable and share work over m_sharedMarkStack      *)
(* (SlotVisitor.cpp, MarkStack.cpp, Heap::markRoots()).                    *)
(*                                                                         *)
(* Helpers come and go as ParallelTask allows, which ParallelHelperPool    *)
(* implements.  A visitor belongs to the thread that uses it.  The object  *)
(* graph stands still while it is marked, and is a constant.               *)
(***************************************************************************)
EXTENDS Naturals, FiniteSets, Sequences, SequencesExt

CONSTANTS
  Cells,          \* the cells of the heap
  Children,       \* the sequence of the cells each cell refers to
  Roots,          \* what the master marks first: a sequence of sequences of cells
  OpaqueRoots,    \* the opaque roots that visiting a cell adds
  WeakHandles,    \* <<r, c>>: a weak handle to c that is reachable from the opaque root r
  Harvesters,     \* <<k, c>>: a harvester that marks c if k is marked
  Helpers,        \* the threads of the pool
  Master,         \* the thread that collects
  OpaqueRootMergeThreshold,
  MaxCycles       \* how often the heap is collected (a bound of the model)

Visitors == Helpers \cup {Master}
AllOpaqueRoots == UNION {OpaqueRoots[c] : c \in Cells}

ASSUME ConstantsAssumption ==
  /\ IsFiniteSet(Cells)
  /\ Children \in [Cells -> Seq(Cells)]
  /\ Roots \in Seq(Seq(Cells)) /\ Roots # <<>>
  /\ WeakHandles \subseteq AllOpaqueRoots \X Cells
  /\ Harvesters \subseteq Cells \X Cells
  /\ IsFiniteSet(Helpers) /\ Master \notin Helpers
  /\ OpaqueRootMergeThreshold \in Nat /\ MaxCycles \in Nat

VARIABLES
  marks,        \* the cells whose mark bit is set
  cellState,    \* JSCell::cellState()
  stack,        \* SlotVisitor::m_stack, of each visitor
  localRoots,   \* SlotVisitor::m_opaqueRoots
  todo,         \* what a visitor has still to append of the cell it visits
  shared,       \* m_sharedMarkStack
  opaqueRoots,  \* Heap::m_opaqueRoots
  numActive,    \* m_numberOfActiveParallelMarkers
  numWaiting,   \* m_numberOfWaitingParallelMarkers
  shouldExit,   \* m_parallelMarkersShouldExit
  offered,      \* whether the helpers are offered the marking task (ParallelTask)
  inside,       \* the helpers that run it (ParallelTask)
  pc,           \* where each visitor is
  phase,        \* the element of Roots the master marks from, or one more
  cycle         \* the number of collections

heap == <<marks, cellState>>
visitor == <<stack, localRoots, todo>>
sharing == <<shared, opaqueRoots>>
counters == <<numActive, numWaiting, shouldExit>>
pool == <<offered, inside>>
vars == <<heap, visitor, sharing, counters, pool, pc, phase, cycle>>

\* The heap is the one client of the pool here.
Pool == INSTANCE ParallelTask WITH Clients <- {"heap"}, Runners <- Helpers

Init ==
  /\ marks = {}
  /\ cellState = [c \in Cells |-> "NewWhite"]
  /\ stack = [v \in Visitors |-> <<>>]
  /\ localRoots = [v \in Visitors |-> {}]
  /\ todo = [v \in Visitors |-> <<>>]
  /\ shared = <<>> /\ opaqueRoots = {}
  /\ numActive = 0 /\ numWaiting = 0 /\ shouldExit = FALSE
  /\ Pool!Init
  /\ pc = [v \in Visitors |-> IF v = Master THEN "mutator" ELSE "out"]
  /\ phase = 0 /\ cycle = 0

\* The last n elements of s, and the others.
Top(s, n) == SubSeq(s, Len(s) - n + 1, Len(s))
WithoutTop(s, n) == SubSeq(s, 1, Len(s) - n)

\* m_markingConditionVariable.notifyAll().
NotifyAll(pcs) == [v \in Visitors |-> IF pcs[v] = "asleep" THEN "woken" ELSE pcs[v]]

-----------------------------------------------------------------------------
(***************************************************************************)
(* The visitors of all threads: append(), drain(), donateKnownParallel().  *)
(***************************************************************************)
\* setMarkedAndAppendToMarkStack(), of the next child of the cell that is visited.
SetMarkedAndAppend(v) ==
  /\ pc[v] \in {"roots", "visit"} /\ todo[v] # <<>>
  /\ todo' = [todo EXCEPT ![v] = Tail(@)]
  /\ LET cell == Head(todo[v]) IN
     IF cell \in marks
       THEN UNCHANGED <<heap, stack>>
       ELSE /\ marks' = marks \cup {cell}
            /\ cellState' = [cellState EXCEPT ![cell] = "NewGrey"]
            /\ stack' = [stack EXCEPT ![v] = Append(@, cell)]
  /\ UNCHANGED <<localRoots, sharing, counters, pool, pc, phase, cycle>>

\* The last child was appended; after some number of scans drain() rebalances.
VisitDone(v) ==
  /\ pc[v] = "visit" /\ todo[v] = <<>>
  /\ \E next \in {"drain", "rebalance"} : pc' = [pc EXCEPT ![v] = next]
  /\ UNCHANGED <<heap, visitor, sharing, counters, pool, phase, cycle>>

\* addOpaqueRoot(), for the roots of one cell.
AddOpaqueRoots(v, roots) ==
  IF roots = {} THEN UNCHANGED <<localRoots, opaqueRoots>>
  ELSE IF Cardinality(localRoots[v]) < OpaqueRootMergeThreshold
    THEN localRoots' = [localRoots EXCEPT ![v] = @ \cup roots] /\ UNCHANGED opaqueRoots
    ELSE /\ opaqueRoots' = opaqueRoots \cup localRoots[v]
         /\ localRoots' = [localRoots EXCEPT ![v] = roots]

\* drain() takes a cell, and visitChildren() begins.
VisitChildren(v) ==
  /\ pc[v] = "drain" /\ stack[v] # <<>>
  /\ LET cell == Last(stack[v]) IN
     /\ stack' = [stack EXCEPT ![v] = Front(@)]
     /\ cellState' = [cellState EXCEPT ![cell] = "OldBlack"]
     /\ todo' = [todo EXCEPT ![v] = Children[cell]]
     /\ AddOpaqueRoots(v, OpaqueRoots[cell])
  /\ pc' = [pc EXCEPT ![v] = "visit"]
  /\ UNCHANGED <<marks, shared, counters, pool, phase, cycle>>

\* donateKnownParallel() looks at m_sharedMarkStack without the lock.
DonateCheck(v) ==
  /\ pc[v] = "rebalance"
  /\ pc' = [pc EXCEPT ![v] = IF Len(stack[v]) < 2 \/ shared # <<>> THEN "drain" ELSE "donate"]
  /\ UNCHANGED <<heap, visitor, sharing, counters, pool, phase, cycle>>

\* donateSomeCellsTo(): the number of cells that one segment donates.
CellsToDonate(s) == Len(s) \div 2

\* Fault: a cell more is removed than is donated.
DonateLosesCell(v) ==
  /\ pc[v] = "donate"
  /\ LET n == CellsToDonate(stack[v]) IN
     /\ shared' = shared \o Reverse(Top(stack[v], n))
     /\ stack' = [stack EXCEPT ![v] = WithoutTop(@, n + 1)]
  /\ pc' = NotifyAll([pc EXCEPT ![v] = "drain"])
  /\ UNCHANGED <<heap, localRoots, todo, opaqueRoots, counters, pool, phase, cycle>>

\* donateKnownParallel(), with the lock; what was donated meanwhile stays below.
Donate(v) ==
  /\ pc[v] = "donate"
  /\ LET n == CellsToDonate(stack[v]) IN
     /\ shared' = shared \o Reverse(Top(stack[v], n))
     /\ stack' = [stack EXCEPT ![v] = WithoutTop(@, n)]
  /\ pc' = NotifyAll([pc EXCEPT ![v] = "drain"])
  /\ UNCHANGED <<heap, localRoots, todo, opaqueRoots, counters, pool, phase, cycle>>

\* donateKnownParallel() does not get the lock at once.
DonateContended(v) ==
  /\ pc[v] = "donate"
  /\ pc' = [pc EXCEPT ![v] = "drain"]
  /\ UNCHANGED <<heap, visitor, sharing, counters, pool, phase, cycle>>

\* Where a visitor goes on when drain() returns: in drainFromShared(), in the loop
\* over the roots, or where the master calls drainFromShared().
AfterDrain(v) ==
  IF v \in Helpers \/ phase > Len(Roots) THEN "yield"
  ELSE IF phase < Len(Roots) THEN "drained" ELSE "enter"

\* Fault: the opaque roots stay with the visitor.
DrainDoneUnmerged(v) ==
  /\ pc[v] = "drain" /\ stack[v] = <<>>
  /\ pc' = [pc EXCEPT ![v] = AfterDrain(v)]
  /\ UNCHANGED <<heap, visitor, sharing, counters, pool, phase, cycle>>

\* drain() ends: mergeOpaqueRootsIfNecessary().
DrainDone(v) ==
  /\ pc[v] = "drain" /\ stack[v] = <<>>
  /\ opaqueRoots' = opaqueRoots \cup localRoots[v]
  /\ localRoots' = [localRoots EXCEPT ![v] = {}]
  /\ pc' = [pc EXCEPT ![v] = AfterDrain(v)]
  /\ UNCHANGED <<heap, stack, todo, shared, counters, pool, phase, cycle>>

-----------------------------------------------------------------------------
(***************************************************************************)
(* drainFromShared().                                                      *)
(***************************************************************************)
DrainFromSharedEnter(v) ==
  /\ pc[v] = "enter"
  /\ numActive' = numActive + 1
  /\ phase' = IF v = Master THEN Len(Roots) + 1 ELSE phase
  /\ pc' = [pc EXCEPT ![v] = "yield"]
  /\ UNCHANGED <<heap, visitor, sharing, numWaiting, shouldExit, pool, cycle>>

\* stealSomeCellsFrom(): the number of cells that are stolen from one segment.
CellsToSteal(n, idle) == (n + idle - 1) \div idle

\* The visitor goes back to work with some of the shared cells.
Steal(v, active, waiting) ==
  LET n == CellsToSteal(Len(shared), waiting) IN
  /\ stack' = [stack EXCEPT ![v] = @ \o Reverse(Top(shared, n))]
  /\ shared' = WithoutTop(shared, n)
  /\ numActive' = active + 1 /\ numWaiting' = waiting - 1
  /\ pc' = [pc EXCEPT ![v] = "drain"]

\* The visitor does not get work; it sleeps, returns or wakes others.
Idle(active, waiting, pcs) ==
  /\ numActive' = active /\ numWaiting' = waiting
  /\ pc' = pcs
  /\ UNCHANGED <<stack, shared>>

\* What the master does until there is work or nobody is active.
MasterWait(active, waiting) ==
  \/ /\ active = 0 /\ shared = <<>>
     /\ Idle(active, waiting, NotifyAll([pc EXCEPT ![Master] = "weak"]))
  \/ shared # <<>> /\ Steal(Master, active, waiting)
  \/ /\ active # 0 /\ shared = <<>>
     /\ Idle(active, waiting, [pc EXCEPT ![Master] = "asleep"])

\* What a helper does until there is work or marking is over.
SlaveWait(v, active, waiting, pcs) ==
  \/ shouldExit /\ Idle(active, waiting, [pcs EXCEPT ![v] = "leave"])
  \/ ~shouldExit /\ shared # <<>> /\ Steal(v, active, waiting)
  \/ ~shouldExit /\ shared = <<>> /\ Idle(active, waiting, [pcs EXCEPT ![v] = "asleep"])

\* A helper that finds that nobody is active lets the master know.
TerminationNotice(active) == IF active = 0 /\ shared = <<>> THEN NotifyAll(pc) ELSE pc

\* Fault: the master is not told.
YieldSilently(v) ==
  /\ pc[v] = "yield"
  /\ IF v = Master THEN MasterWait(numActive - 1, numWaiting + 1)
     ELSE SlaveWait(v, numActive - 1, numWaiting + 1, pc)
  /\ UNCHANGED <<heap, localRoots, todo, opaqueRoots, shouldExit, pool, phase, cycle>>

\* The visitor has nothing left, and takes the lock.
Yield(v) ==
  /\ pc[v] = "yield"
  /\ IF v = Master THEN MasterWait(numActive - 1, numWaiting + 1)
     ELSE SlaveWait(v, numActive - 1, numWaiting + 1, TerminationNotice(numActive - 1))
  /\ UNCHANGED <<heap, localRoots, todo, opaqueRoots, shouldExit, pool, phase, cycle>>

\* The visitor was woken, and has the lock again.
Woken(v) ==
  /\ pc[v] = "woken"
  /\ IF v = Master THEN MasterWait(numActive, numWaiting)
     ELSE SlaveWait(v, numActive, numWaiting, pc)
  /\ UNCHANGED <<heap, localRoots, todo, opaqueRoots, shouldExit, pool, phase, cycle>>

-----------------------------------------------------------------------------
(***************************************************************************)
(* The helpers: the function markRoots() gives to the pool.                *)
(***************************************************************************)
HelperEnter(h) ==
  /\ pc[h] = "out"
  /\ Pool!Enter("heap", h)
  /\ pc' = [pc EXCEPT ![h] = "enter"]
  /\ UNCHANGED <<heap, visitor, sharing, counters, phase, cycle>>

HelperLeave(h) ==
  /\ pc[h] = "leave"
  /\ Pool!Leave("heap", h)
  /\ pc' = [pc EXCEPT ![h] = "out"]
  /\ UNCHANGED <<heap, visitor, sharing, counters, phase, cycle>>

(***************************************************************************)
(* The master: Heap::markRoots().                                          *)
(***************************************************************************)
MarkRoots ==
  /\ pc[Master] = "mutator" /\ cycle < MaxCycles
  /\ cycle' = cycle + 1
  /\ marks' = {} /\ opaqueRoots' = {}
  /\ stack' = [stack EXCEPT ![Master] = <<>>]
  /\ shouldExit' = FALSE
  /\ Pool!Offer("heap")
  /\ phase' = 1
  /\ todo' = [todo EXCEPT ![Master] = Roots[1]]
  /\ pc' = [pc EXCEPT ![Master] = "roots"]
  /\ UNCHANGED <<cellState, localRoots, shared, numActive, numWaiting>>

\* donateAndDrain(), after the roots of a phase were appended.
DonateAndDrain ==
  /\ pc[Master] = "roots" /\ todo[Master] = <<>>
  /\ pc' = [pc EXCEPT ![Master] = "rebalance"]
  /\ UNCHANGED <<heap, visitor, sharing, counters, pool, phase, cycle>>

\* The next kind of roots.
NextRoots ==
  /\ pc[Master] = "drained"
  /\ phase' = phase + 1
  /\ todo' = [todo EXCEPT ![Master] = Roots[phase + 1]]
  /\ pc' = [pc EXCEPT ![Master] = "roots"]
  /\ UNCHANGED <<heap, stack, localRoots, sharing, counters, pool, cycle>>

\* visitWeakSets(): the weak handles whose owner is reachable from opaque roots;
\* harvestWeakReferences(): what depends on cells that are marked by then.
KeptByHandles == {c \in Cells : \E r \in opaqueRoots : <<r, c>> \in WeakHandles}
KeptByHarvesters(marked) == {c \in Cells : \E k \in marked : <<k, c>> \in Harvesters}

\* Fault: the harvesters are forgotten.
VisitWeakHandlesOnly ==
  /\ pc[Master] = "weak"
  /\ LET new == KeptByHandles \ marks IN
     /\ marks' = marks \cup new
     /\ cellState' = [c \in Cells |-> IF c \in new THEN "NewGrey" ELSE cellState[c]]
     /\ stack' = [stack EXCEPT ![Master] = @ \o SetToSeq(new)]
     /\ pc' = [pc EXCEPT ![Master] = IF new = {} THEN "exit" ELSE "roots"]
     /\ phase' = IF new = {} THEN phase ELSE Len(Roots)
  /\ UNCHANGED <<localRoots, todo, sharing, counters, pool, cycle>>

\* One round of visitWeakHandles().  Nobody else marks meanwhile.
VisitWeakHandles ==
  /\ pc[Master] = "weak"
  /\ LET new == (KeptByHandles \cup KeptByHarvesters(marks \cup KeptByHandles)) \ marks IN
     /\ marks' = marks \cup new
     /\ cellState' = [c \in Cells |-> IF c \in new THEN "NewGrey" ELSE cellState[c]]
     /\ stack' = [stack EXCEPT ![Master] = @ \o SetToSeq(new)]
     /\ pc' = [pc EXCEPT ![Master] = IF new = {} THEN "exit" ELSE "roots"]
     /\ phase' = IF new = {} THEN phase ELSE Len(Roots)
  /\ UNCHANGED <<localRoots, todo, sharing, counters, pool, cycle>>

\* m_parallelMarkersShouldExit is set, and all helpers are woken.
MarkersShouldExit ==
  /\ pc[Master] = "exit"
  /\ shouldExit' = TRUE
  /\ pc' = NotifyAll([pc EXCEPT ![Master] = "finish"])
  /\ UNCHANGED <<heap, visitor, sharing, numActive, numWaiting, pool, phase, cycle>>

\* m_helperClient.finish(): the task is withdrawn,
FinishCall ==
  /\ pc[Master] = "finish"
  /\ Pool!Withdraw("heap")
  /\ pc' = [pc EXCEPT ![Master] = "finishing"]
  /\ UNCHANGED <<heap, visitor, sharing, counters, phase, cycle>>

\* and the master goes on, to resetVisitors(), when no helper runs it any more.
Finish ==
  /\ pc[Master] = "finishing" /\ inside["heap"] = {}
  /\ phase' = 0
  /\ pc' = [pc EXCEPT ![Master] = "mutator"]
  /\ UNCHANGED <<heap, visitor, sharing, counters, pool, cycle>>

-----------------------------------------------------------------------------
Visit(v) ==
  \/ SetMarkedAndAppend(v) \/ VisitDone(v) \/ VisitChildren(v)
  \/ DonateCheck(v) \/ Donate(v) \/ DonateContended(v) \/ DrainDone(v)
  \/ DrainFromSharedEnter(v) \/ Yield(v) \/ Woken(v)

Collect ==
  \/ DonateAndDrain \/ NextRoots \/ VisitWeakHandles
  \/ MarkersShouldExit \/ FinishCall \/ Finish

Terminated == pc[Master] = "mutator" /\ cycle = MaxCycles /\ UNCHANGED vars

Next ==
  \/ \E v \in Visitors : Visit(v)
  \/ \E h \in Helpers : HelperEnter(h) \/ HelperLeave(h)
  \/ MarkRoots \/ Collect \/ Terminated

Spec == Init /\ [][Next]_vars

\* Every thread that marks goes on; whether a helper ever comes is up to the scheduler.
FairSpec ==
  /\ Spec
  /\ \A v \in Visitors : WF_vars(Visit(v))
  /\ \A h \in Helpers : WF_vars(HelperLeave(h))
  /\ WF_vars(Collect)

-----------------------------------------------------------------------------
PC == {"mutator", "out", "enter", "leave", "roots", "visit", "drain", "rebalance", "donate", "yield",
       "drained", "asleep", "woken", "weak", "exit", "finish", "finishing"}

TypeOK ==
  /\ marks \subseteq Cells
  /\ cellState \in [Cells -> {"NewWhite", "NewGrey", "OldBlack"}]
  /\ stack \in [Visitors -> Seq(Cells)]
  /\ localRoots \in [Visitors -> SUBSET AllOpaqueRoots]
  /\ todo \in [Visitors -> Seq(Cells)]
  /\ shared \in Seq(Cells)
  /\ opaqueRoots \subseteq AllOpaqueRoots
  /\ numActive \in 0..Cardinality(Visitors)
  /\ numWaiting \in Nat
  /\ shouldExit \in BOOLEAN
  /\ offered \in [{"heap"} -> BOOLEAN]
  /\ inside \in [{"heap"} -> SUBSET Helpers]
  /\ pc \in [Visitors -> PC]
  /\ phase \in 0..Len(Roots) + 1
  /\ cycle \in 0..MaxCycles

\* The least set that contains the roots and is closed under references, weak handles
\* and harvesters.
Closed(S) ==
  /\ \A i \in DOMAIN Roots : ToSet(Roots[i]) \subseteq S
  /\ \A c \in S : ToSet(Children[c]) \subseteq S
  /\ \A rc \in WeakHandles : (\E c \in S : rc[1] \in OpaqueRoots[c]) => rc[2] \in S
  /\ \A kc \in Harvesters : kc[1] \in S => kc[2] \in S

Live == {c \in Cells : \A S \in SUBSET Cells : Closed(S) => c \in S}

(***************************************************************************)
(* When markRoots() returns exactly the live cells are marked, none of     *)
(* them is left on a mark stack (resetVisitors()), and no helper is left   *)
(* to touch the heap while it is swept.                                    *)
(***************************************************************************)
MarkingComplete ==
  pc[Master] = "mutator" /\ cycle > 0 =>
    /\ marks = Live
    /\ \A c \in marks : cellState[c] = "OldBlack"
    /\ inside["heap"] = {} /\ numActive = 0

\* How often the cell c waits to be visited.
Occurrences(s, c) == Cardinality({i \in DOMAIN s : s[i] = c})
Waiting(c) == {v \in Visitors : Occurrences(stack[v], c) > 0}

(***************************************************************************)
(* However cells move between the stacks, each cell that was marked and    *)
(* not visited yet is on one stack, once, and all others on none.          *)
(***************************************************************************)
EachCellVisitedOnce ==
  \A c \in Cells :
    LET n == Occurrences(shared, c) + Cardinality(Waiting(c)) IN
    /\ n = IF c \in marks /\ cellState[c] = "NewGrey" THEN 1 ELSE 0
    /\ \A v \in Visitors : Occurrences(stack[v], c) <= 1

(***************************************************************************)
(* The master believes that marking is over, in converge() and in every    *)
(* round of visitWeakHandles(), only when no visitor has anything left:    *)
(* cells, children or opaque roots (the assertions of containsOpaqueRoot() *)
(* and reset()).                                                           *)
(***************************************************************************)
TerminationIsReal ==
  pc[Master] \in {"weak", "exit", "finish", "finishing", "mutator"} =>
    /\ shared = <<>>
    /\ \A v \in Visitors : stack[v] = <<>> /\ todo[v] = <<>> /\ localRoots[v] = {}

\* Every collection ends: termination is always detected and every helper exits.
MarkingTerminates == []<>(pc[Master] = "mutator")
=============================================================================
