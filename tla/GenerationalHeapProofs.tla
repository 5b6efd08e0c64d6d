----------------------- MODULE GenerationalHeapProofs -----------------------
(***************************************************************************)
(* For any blocks and cells: no reference dangles, the remembered set is   *)
(* complete, no destructor runs on the remains of a free list, the blocks  *)
(* are accounted for, weak handles are valid, and the heap implements      *)
(* ManagedHeap.                                                            *)
(*                                                                         *)
(* None of these is inductive alone.  What an eden collection keeps        *)
(* depends on the remembered set, on mark bits only ever being set for     *)
(* cells that are kept, and on blocks with new objects being on their      *)
(* list; what a sweep may destroy depends on which of the half-finished    *)
(* states a block can be in at each step of the control, which is what     *)
(* PhasesOK and BlocksOK record.                                           *)
(***************************************************************************)
EXTENDS GenerationalHeap, TLAPS

\* Where the control is, and which of the allocator's pointers are set there.
PhasesOK ==
  /\ currentBlock # NoBlock => phase \in {"mutator", "found"}
  /\ lastActiveBlock # NoBlock => phase \in {"iterating", "marking", "finalized"}
  /\ operationInProgress # "NoOperation" <=> phase = "marking"
  /\ phase = "marking" => writeBarrierBuffer = <<>>
  /\ phase \in {"mutator", "iterating", "sweeping"} => attempt = 0
  /\ phase = "marking" => attempt \in {0, 1}
  /\ phase = "sweeping" => blocksWithNewObjects = {} /\ retiredBlocks = {}
  /\ phase = "trying" /\ attempt = 3 =>
       \A a, b \in blocksToSweep : a = b /\ state[b] = "New"

\* The blocks that have free cells, a bitmap or new objects.
BlocksOK ==
  /\ \A c \in freeList : BlockOf[c] = currentBlock
  /\ lastActiveBlock # NoBlock => state[lastActiveBlock] = "Marked"
  /\ phase = "iterating" /\ lastActiveBlock # NoBlock => lastActiveBlock \in blocksToSweep
  /\ \A b \in Blocks : newlyAllocated[b] # NoBitmap => b = lastActiveBlock
  /\ \A b \in Blocks : state[b] = "New" =>
       phase = "trying" /\ attempt = 3 /\ b \in blocksToSweep
  /\ \A b \in blocksToSweep : state[b] # "Allocated"
  /\ phase # "finalized" =>
       \A b \in blocksWithNewObjects :
          state[b] \in {"Allocated", "FreeListed"} \/ b = lastActiveBlock
  /\ phase = "mutator" /\ currentBlock # NoBlock => currentBlock \in blocksWithNewObjects
  /\ phase \in {"iterating", "marking"} /\ lastActiveBlock # NoBlock =>
       lastActiveBlock \in blocksWithNewObjects

\* Mark bits and cell states agree, and old objects are kept.
MarksOK ==
  /\ marks \subseteq Kept
  /\ \A c \in Cells : c \in marks <=> cellState[c] # "NewWhite"
  /\ phase # "finalized" => markStack \cup ToSet(writeBarrierBuffer) \subseteq marks

\* What is not kept refers to nothing, and a cell that can be handed out is no object.
CellsOK ==
  /\ \A c \in Cells : c \notin Kept => slot[c] = NoCell
  /\ \A c \in Cells :
       state[BlockOf[c]] \in {"absent", "New"} \/ c \in freeList => content[c] = "garbage"

IInv ==
  /\ TypeOK /\ PhasesOK /\ BlocksOK /\ BlocksAccountedFor
  /\ MarksOK /\ CellsOK /\ NoDanglingReferences
  /\ RememberedSetComplete /\ DestructorsOnObjects /\ WeakHandlesValid
-----------------------------------------------------------------------------
USE GenerationalHeapAssumption

LEMMA ToSetEmpty == ToSet(<<>>) = {}
  BY DEF ToSet

LEMMA ToSetOne == ASSUME NEW x PROVE ToSet(<<x>>) = {x}
  BY DEF ToSet

LEMMA ToSetAppend ==
  ASSUME NEW S, NEW s \in Seq(S), NEW x \in S
  PROVE  ToSet(Append(s, x)) = ToSet(s) \cup {x}
<1>1. DOMAIN Append(s, x) = DOMAIN s \cup {Len(s) + 1}
  OBVIOUS
<1>2. \A i \in DOMAIN s : Append(s, x)[i] = s[i]
  OBVIOUS
<1>3. Append(s, x)[Len(s) + 1] = x
  OBVIOUS
<1> QED
  BY <1>1, <1>2, <1>3 DEF ToSet

LEMMA ToSetType == ASSUME NEW S, NEW s \in Seq(S) PROVE ToSet(s) \subseteq S
  BY DEF ToSet
-----------------------------------------------------------------------------
(* What the steps do to the set of objects that are kept.                  *)

LEMMA KeptSame == UNCHANGED <<state, marks, newlyAllocated, freeList>> => Kept' = Kept
  BY DEF Kept, IsLive, MarkedOrNewlyAllocated

LEMMA KeptTypes == Kept \subseteq Cells
  BY DEF Kept

\* The head of the free list is not kept before it is handed out, and is afterwards.
LEMMA PopFreeListKept ==
  ASSUME IInv, NEW c \in Cells, PopFreeList(c)
  PROVE  c \notin Kept /\ Kept' = Kept \cup {c}
  BY DEF IInv, TypeOK, BlocksOK, BlocksAccountedFor, PopFreeList, Kept, IsLive, Space,
         MarkedOrNewlyAllocated, bits

LEMMA AllocateSlowCaseKept == IInv /\ AllocateSlowCase => Kept' = Kept
  BY DEF IInv, TypeOK, BlocksOK, BlocksAccountedFor, AllocateSlowCase, Kept, IsLive, Space,
         MarkedOrNewlyAllocated

\* In a block that can be swept, the dead cells are those that are not kept.
LEMMA DeadAreNotKept ==
  ASSUME IInv, NEW b \in Blocks, state[b] \in {"New", "Marked"}
  PROVE  DeadIn(b) = CellsOf(b) \ Kept
  BY DEF IInv, TypeOK, DeadIn, CellsOf, Kept, IsLive

LEMMA UseBlockKept == ASSUME IInv, NEW b \in Blocks, UseBlock(b) PROVE Kept' = Kept
  BY DEF IInv, TypeOK, BlocksOK, BlocksAccountedFor, PhasesOK, UseBlock, Kept, IsLive, Space,
         MarkedOrNewlyAllocated, SweepToFreeList, DeadIn, CellsOf, NoBitmap

LEMMA RetireBlockKept == ASSUME IInv, NEW b \in Blocks, RetireBlock(b) PROVE Kept' = Kept
  BY DEF IInv, TypeOK, BlocksOK, BlocksAccountedFor, PhasesOK, RetireBlock, Kept, IsLive, Space,
         MarkedOrNewlyAllocated, SweepToFreeList, DeadIn, CellsOf, NoBitmap

LEMMA AddBlockKept == ASSUME IInv, NEW b \in Blocks, AddBlock(b) PROVE Kept' = Kept
  BY DEF IInv, TypeOK, BlocksOK, BlocksAccountedFor, MarksOK, AddBlock, Kept, IsLive, Space,
         MarkedOrNewlyAllocated

LEMMA StopAllocatingKept == IInv /\ StopAllocating => Kept' = Kept
  BY DEF IInv, TypeOK, BlocksOK, BlocksAccountedFor, MarksOK, StopAllocating, Kept, IsLive, Space,
         MarkedOrNewlyAllocated, CellsOf

LEMMA DidFinishIteratingKept == IInv /\ DidFinishIterating => Kept' = Kept
  BY DEF IInv, TypeOK, BlocksOK, BlocksAccountedFor, MarksOK, PhasesOK, DidFinishIterating, Kept, IsLive,
         Space, MarkedOrNewlyAllocated, CellsOf, SweepToFreeList, DeadIn, NoBitmap, bits

\* Marking visits what it starts with, and what that refers to unless it was marked before.
LEMMA VisitedClosed ==
  ASSUME TypeOK, NEW grey \in SUBSET Cells, NEW old \in SUBSET Cells
  PROVE  /\ Visited(grey, old) \subseteq Cells
         /\ grey \subseteq Visited(grey, old)
         /\ \A c \in Visited(grey, old) : slot[c] \in Visited(grey, old) \cup old \cup {NoCell}
<1> DEFINE closed == {S \in SUBSET Cells :
                        grey \subseteq S /\ \A c \in S : slot[c] \in S \cup old \cup {NoCell}}
<1>1. Visited(grey, old) = {c \in Cells : \A S \in closed : c \in S}
  BY DEF Visited
<1> HIDE DEF closed
<1>2. ASSUME NEW c \in Visited(grey, old), slot[c] \notin old \cup {NoCell}
      PROVE  slot[c] \in Visited(grey, old)
  <2>1. \A S \in closed : slot[c] \in S
    BY <1>1, <1>2 DEF closed
  <2>2. slot[c] \in Cells
    BY <1>1, <1>2 DEF TypeOK
  <2> QED
    BY <2>1, <2>2, <1>1
<1>3. grey \subseteq Visited(grey, old)
  BY <1>1 DEF closed
<1> QED
  BY <1>1, <1>2, <1>3

\* Marking stays within every set that is closed under references.
LEMMA VisitedWithin ==
  ASSUME NEW grey, NEW old, NEW S \in SUBSET Cells, grey \subseteq S,
         \A c \in S : slot[c] \in S \cup {NoCell}
  PROVE  Visited(grey, old) \subseteq S
  BY DEF Visited

\* The cells that a collection finds live are all that is kept; the rest is lost to the program.
LEMMA FinishCollectionKept ==
  ASSUME IInv, NEW words \in SUBSET Cells, roots \subseteq words, NEW executing \in SUBSET roots,
         FinishCollection(words, executing)
  PROVE  /\ Kept' = marks'
         /\ marks' \subseteq Kept
         /\ roots \subseteq marks'
         /\ \A c \in marks' : slot[c] \in marks' \cup {NoCell}
         /\ \A c \in marks' : cellState'[c] = "OldGrey" => c \in executing
<1> DEFINE old == IF Full THEN {} ELSE marks
           grey == (IF Full THEN {} ELSE markStack) \cup (ConservativeRoots(words) \ old)
           visited == Visited(grey, old)
<1>1. phase = "marking"
  BY DEF FinishCollection
<1>2. currentBlock = NoBlock /\ \A b \in Blocks : state[b] \notin {"New", "FreeListed"}
  BY <1>1 DEF IInv, PhasesOK, BlocksOK, BlocksAccountedFor, Space
<1>3. Kept = LiveCells
  BY <1>2 DEF Kept, LiveCells, IInv, TypeOK
<1>4. ConservativeRoots(words) \subseteq Kept /\ roots \subseteq ConservativeRoots(words)
  BY <1>3 DEF LiveCells, ConservativeRoots, IInv, NoDanglingReferences
<1>5. old \subseteq Kept /\ grey \subseteq Kept /\ Kept \subseteq Cells
  BY <1>4, <1>1, KeptTypes DEF IInv, MarksOK
<1>6. marks' = old \cup visited
  BY DEF FinishCollection, MarkRoots
<1> HIDE DEF old, grey, visited
<1>7. visited \subseteq Kept
  BY <1>5, VisitedWithin DEF visited, IInv, NoDanglingReferences
<1>8. grey \subseteq visited /\ \A c \in visited : slot[c] \in visited \cup old \cup {NoCell}
  BY <1>5, VisitedClosed DEF visited, IInv
<1>9. marks' \subseteq Kept
  BY <1>5, <1>6, <1>7
<1>10. roots \subseteq marks'
  BY <1>4, <1>6, <1>8 DEF grey
<1>11. ASSUME NEW c \in old, c \notin visited
       PROVE  slot[c] \in marks \cup {NoCell} /\ cellState[c] # "OldGrey" /\ ~Full
  <2>1. ~Full /\ c \in marks /\ c \notin markStack
    BY <1>11, <1>8 DEF old, grey
  <2>2. c \notin ToSet(writeBarrierBuffer)
    BY <1>1, ToSetEmpty DEF IInv, PhasesOK
  <2> QED
    BY <2>1, <2>2 DEF IInv, RememberedSetComplete, Full
<1>12. \A c \in marks' : slot[c] \in marks' \cup {NoCell}
  BY <1>6, <1>8, <1>11 DEF old
<1>13. \A c \in marks' : cellState'[c] = "OldGrey" => c \in executing
  <2>1. cellState' = [c \in Cells |->
          IF c \in executing THEN "OldGrey" ELSE IF c \in visited THEN "OldBlack"
          ELSE IF c \in old THEN cellState[c] ELSE "NewWhite"]
    BY DEF FinishCollection, MarkRoots, visited, grey, old
  <2> QED
    BY <2>1, <1>5, <1>6, <1>9, <1>11
<1>14. Kept' = marks'
  <2>1. \A b \in Blocks : newlyAllocated'[b] = NoBitmap
    BY DEF FinishCollection, ClearLivenessData, IInv, BlocksOK, TypeOK
  <2>2. \A b \in Blocks : state[b] # "absent" => state'[b] \in {"Marked", "Retired"}
    BY <1>2 DEF FinishCollection, ClearLivenessData, IInv, BlocksAccountedFor, Space, TypeOK, BlockStates
  <2>3. \A b \in Blocks : state[b] = "absent" => state'[b] = "absent"
    BY <1>2 DEF FinishCollection, ClearLivenessData, IInv, BlocksAccountedFor, Space, TypeOK, BlockStates
  <2>4. \A c \in Kept : state[BlockOf[c]] # "absent"
    BY DEF Kept, IsLive
  <2>5. freeList' = {}
    BY DEF FinishCollection, ResetAllocators
  <2> QED
    BY <2>1, <2>2, <2>3, <2>4, <2>5, <1>9, <1>5 DEF Kept, IsLive, MarkedOrNewlyAllocated, NoBitmap
<1> QED
  BY <1>9, <1>10, <1>12, <1>13, <1>14

\* A sweep of marked blocks destroys nothing that is kept, and frees no block with such an object.
LEMMA SweepAndShrinkKept ==
  ASSUME IInv, NEW B \in SUBSET Blocks, \A b \in B : state[b] = "Marked", SweepAndShrink(B)
  PROVE  /\ Kept' = Kept
         /\ \A c \in Kept : /\ BlockOf[c] \notin Emptied(B)
                            /\ BlockOf[c] \in B => c \notin DeadIn(BlockOf[c])
<1>1. \A b \in Emptied(B) : CellsOf(b) \cap Kept = {}
  BY DEF Emptied, IsEmptyBlock, CellsOf, Kept, IsLive
<1>2. \A c \in Kept : BlockOf[c] \notin Emptied(B)
  BY <1>1 DEF CellsOf, Kept
<1>3. \A c \in Kept : BlockOf[c] \in B => c \notin DeadIn(BlockOf[c])
  BY DeadAreNotKept
<1>4. Kept' = Kept
  BY <1>2 DEF SweepAndShrink, FreeBlocks, Kept, IsLive, MarkedOrNewlyAllocated, IInv, TypeOK
<1> QED
  BY <1>2, <1>3, <1>4

LEMMA LastChanceToFinalizeKept == LastChanceToFinalize => Kept' = {}
  BY DEF LastChanceToFinalize, Kept, IsLive, MarkedOrNewlyAllocated, NoBitmap

LEMMA KeptInSpace == \A c \in Kept : BlockOf[c] \in Space
  BY DEF Kept, IsLive, Space
-----------------------------------------------------------------------------
(* Every step preserves the invariant.                                     *)

LEMMA AllocateInv ==
  ASSUME IInv, NEW c \in Cells, Allocate(c)
  PROVE  IInv'
<1>0. c \notin Kept /\ Kept' = Kept \cup {c}
  BY PopFreeListKept DEF Allocate
<1> USE DEF Allocate, PopFreeList, heap, control, bits, IInv, TypeOK
<1>1. TypeOK'
  BY DEF BlockStates
<1>2. PhasesOK'
  BY DEF Space, PhasesOK, BlocksAccountedFor, BlocksOK
<1>3. BlocksOK'
  BY DEF PhasesOK, BlocksOK, BlocksAccountedFor, Space
<1>4. BlocksAccountedFor'
  BY DEF PhasesOK, BlocksOK, BlocksAccountedFor, Space
<1>5. MarksOK'
  BY <1>0 DEF PhasesOK, MarksOK
<1>6. CellsOK'
  BY <1>0 DEF BlocksOK, BlocksAccountedFor, Space, CellsOK, PhasesOK
<1>7. NoDanglingReferences'
  BY <1>0 DEF NoDanglingReferences, CellsOK
<1>8. RememberedSetComplete'
  BY DEF PhasesOK, MarksOK, RememberedSetComplete
<1>9. DestructorsOnObjects'
  BY <1>0 DEF PhasesOK, BlocksOK, BlocksAccountedFor, Space, CellsOK, DestructorsOnObjects
<1>10. WeakHandlesValid'
  BY <1>0 DEF WeakHandlesValid, CellsOK
<1> QED
  BY <1>1, <1>2, <1>3, <1>4, <1>5, <1>6, <1>7, <1>8, <1>9, <1>10 DEF IInv

LEMMA AllocateInBlockInv ==
  ASSUME IInv, NEW c \in Cells, AllocateInBlock(c)
  PROVE  IInv'
<1>0. c \notin Kept /\ Kept' = Kept \cup {c}
  BY PopFreeListKept DEF AllocateInBlock
<1> USE DEF AllocateInBlock, PopFreeList, bits, IInv, TypeOK
<1>1. TypeOK'
  BY DEF BlockStates, BlocksOK
<1>2. PhasesOK'
  BY DEF Space, PhasesOK, BlocksAccountedFor, BlocksOK
<1>3. BlocksOK'
  BY DEF PhasesOK, BlocksOK, BlocksAccountedFor, Space
<1>4. BlocksAccountedFor'
  BY DEF PhasesOK, BlocksOK, BlocksAccountedFor, Space
<1>5. MarksOK'
  BY <1>0 DEF PhasesOK, MarksOK
<1>6. CellsOK'
  BY <1>0 DEF BlocksOK, BlocksAccountedFor, Space, CellsOK, PhasesOK
<1>7. NoDanglingReferences'
  BY <1>0 DEF NoDanglingReferences, CellsOK
<1>8. RememberedSetComplete'
  BY DEF PhasesOK, MarksOK, RememberedSetComplete
<1>9. DestructorsOnObjects'
  BY <1>0 DEF PhasesOK, BlocksOK, BlocksAccountedFor, Space, CellsOK, DestructorsOnObjects
<1>10. WeakHandlesValid'
  BY <1>0 DEF WeakHandlesValid, CellsOK
<1> QED
  BY <1>1, <1>2, <1>3, <1>4, <1>5, <1>6, <1>7, <1>8, <1>9, <1>10 DEF IInv

LEMMA AllocateSlowCaseInv ==
  ASSUME IInv, AllocateSlowCase
  PROVE  IInv'
<1>0. Kept' = Kept
  BY AllocateSlowCaseKept
<1> USE DEF AllocateSlowCase, cells, heap, IInv, TypeOK
<1>1. TypeOK'
  BY DEF BlockStates
<1>2. PhasesOK'
  BY DEF Space, PhasesOK, BlocksAccountedFor, BlocksOK
<1>3. BlocksOK'
  BY DEF PhasesOK, BlocksOK, BlocksAccountedFor, Space, BlockStates
<1>4. BlocksAccountedFor'
  BY DEF PhasesOK, BlocksOK, BlocksAccountedFor, Space, BlockStates
<1>5. MarksOK'
  BY <1>0 DEF PhasesOK, MarksOK
<1>6. CellsOK'
  BY <1>0 DEF BlocksOK, BlocksAccountedFor, Space, CellsOK, PhasesOK
<1>7. NoDanglingReferences'
  BY <1>0 DEF NoDanglingReferences, CellsOK
<1>8. RememberedSetComplete'
  BY DEF PhasesOK, MarksOK, RememberedSetComplete
<1>9. DestructorsOnObjects'
  BY <1>0 DEF PhasesOK, BlocksOK, BlocksAccountedFor, Space, CellsOK, DestructorsOnObjects,
       NoDanglingReferences, Kept
<1>10. WeakHandlesValid'
  BY <1>0 DEF WeakHandlesValid, CellsOK
<1> QED
  BY <1>1, <1>2, <1>3, <1>4, <1>5, <1>6, <1>7, <1>8, <1>9, <1>10 DEF IInv

LEMMA UseBlockInv ==
  ASSUME IInv, NEW b \in Blocks, UseBlock(b)
  PROVE  IInv'
<1>0. Kept' = Kept /\ DeadIn(b) = CellsOf(b) \ Kept
  BY UseBlockKept, DeadAreNotKept DEF UseBlock, IInv, BlocksAccountedFor
<1> USE DEF UseBlock, SweepToFreeList, heap, IInv, TypeOK
<1>1. TypeOK'
  BY DEF BlockStates, DeadIn, CellsOf, SweptWeak, Filled, NoBitmap
<1>2. PhasesOK'
  BY DEF Space, PhasesOK, BlocksAccountedFor, BlocksOK
<1>3. BlocksOK'
  BY DEF PhasesOK, BlocksOK, BlocksAccountedFor, Space, DeadIn, CellsOf, NoBitmap
<1>4. BlocksAccountedFor'
  BY DEF PhasesOK, BlocksOK, BlocksAccountedFor, Space, BlockStates
<1>5. MarksOK'
  BY <1>0 DEF PhasesOK, MarksOK
<1>6. CellsOK'
  BY <1>0 DEF BlocksOK, BlocksAccountedFor, Space, CellsOK, PhasesOK, CellsOf, Filled
<1>7. NoDanglingReferences'
  BY <1>0, KeptTypes DEF NoDanglingReferences, CellsOK, CellsOf, Filled
<1>8. RememberedSetComplete'
  BY DEF PhasesOK, MarksOK, RememberedSetComplete
<1>9. DestructorsOnObjects'
  BY <1>0 DEF PhasesOK, BlocksOK, BlocksAccountedFor, Space, CellsOK, DestructorsOnObjects,
       CellsOf, Filled, NoDanglingReferences
<1>10. WeakHandlesValid'
  BY <1>0 DEF WeakHandlesValid, CellsOK, CellsOf, Filled, SweptWeak
<1> QED
  BY <1>1, <1>2, <1>3, <1>4, <1>5, <1>6, <1>7, <1>8, <1>9, <1>10 DEF IInv

LEMMA RetireBlockInv ==
  ASSUME IInv, NEW b \in Blocks, RetireBlock(b)
  PROVE  IInv'
<1>0. Kept' = Kept /\ DeadIn(b) = CellsOf(b) \ Kept
  BY RetireBlockKept, DeadAreNotKept DEF RetireBlock, IInv, BlocksAccountedFor
<1> USE DEF RetireBlock, SweepToFreeList, heap, control, IInv, TypeOK
<1>1. TypeOK'
  BY DEF BlockStates, DeadIn, CellsOf, SweptWeak, Filled, NoBitmap
<1>2. PhasesOK'
  BY DEF Space, PhasesOK, BlocksAccountedFor, BlocksOK, DeadIn
<1>3. BlocksOK'
  BY DEF PhasesOK, BlocksOK, BlocksAccountedFor, Space, DeadIn, CellsOf, NoBitmap
<1>4. BlocksAccountedFor'
  BY DEF PhasesOK, BlocksOK, BlocksAccountedFor, Space, BlockStates, DeadIn
<1>5. MarksOK'
  BY <1>0 DEF PhasesOK, MarksOK
<1>6. CellsOK'
  BY <1>0 DEF BlocksOK, BlocksAccountedFor, Space, CellsOK, PhasesOK, CellsOf, Filled
<1>7. NoDanglingReferences'
  BY <1>0, KeptTypes DEF NoDanglingReferences, CellsOK, CellsOf, Filled
<1>8. RememberedSetComplete'
  BY DEF PhasesOK, MarksOK, RememberedSetComplete
<1>9. DestructorsOnObjects'
  BY <1>0 DEF PhasesOK, BlocksOK, BlocksAccountedFor, Space, CellsOK, DestructorsOnObjects,
       CellsOf, Filled, NoDanglingReferences
<1>10. WeakHandlesValid'
  BY <1>0 DEF WeakHandlesValid, CellsOK, CellsOf, Filled, SweptWeak
<1> QED
  BY <1>1, <1>2, <1>3, <1>4, <1>5, <1>6, <1>7, <1>8, <1>9, <1>10 DEF IInv

LEMMA AddBlockInv ==
  ASSUME IInv, NEW b \in Blocks, AddBlock(b)
  PROVE  IInv'
<1>0. Kept' = Kept
  BY AddBlockKept
<1> USE DEF AddBlock, heap, Filled, IInv, TypeOK
<1>1. TypeOK'
  BY DEF BlockStates, CellsOf
<1>2. PhasesOK'
  BY DEF Space, PhasesOK, BlocksAccountedFor, BlocksOK
<1>3. BlocksOK'
  BY DEF PhasesOK, BlocksOK, BlocksAccountedFor, Space
<1>4. BlocksAccountedFor'
  BY DEF PhasesOK, BlocksOK, BlocksAccountedFor, Space
<1>5. MarksOK'
  BY <1>0 DEF PhasesOK, MarksOK
<1>6. CellsOK'
  BY <1>0 DEF BlocksOK, BlocksAccountedFor, Space, CellsOK, PhasesOK, CellsOf
<1>7. NoDanglingReferences'
  BY <1>0, KeptInSpace DEF NoDanglingReferences, CellsOK, CellsOf, Space
<1>8. RememberedSetComplete'
  BY DEF PhasesOK, MarksOK, RememberedSetComplete
<1>9. DestructorsOnObjects'
  BY <1>0 DEF PhasesOK, BlocksOK, BlocksAccountedFor, Space, CellsOK, DestructorsOnObjects,
       CellsOf
<1>10. WeakHandlesValid'
  BY <1>0, KeptInSpace DEF WeakHandlesValid, CellsOK, CellsOf, Space
<1> QED
  BY <1>1, <1>2, <1>3, <1>4, <1>5, <1>6, <1>7, <1>8, <1>9, <1>10 DEF IInv

(***************************************************************************)
(* What either barrier does: some black cells R are remembered, none is    *)
(* lost from the buffer unless it is on the mark stack now, and the cell   *)
(* that was stored to is in one of the two if it has to be.                *)
(***************************************************************************)
LEMMA StoreBarrier ==
  ASSUME IInv, NEW from \in Cells, NEW to \in Cells \cup {NoCell}, Store(from, to)
  PROVE  \E R \in SUBSET marks :
           /\ Remember(R)
           /\ writeBarrierBuffer' \in Seq(Cells) /\ Len(writeBarrierBuffer') <= BufferCapacity
           /\ ToSet(writeBarrierBuffer') \subseteq marks
           /\ ToSet(writeBarrierBuffer) \subseteq ToSet(writeBarrierBuffer') \cup R \cup markStack
           /\ from \in marks /\ to \notin marks \cup {NoCell} =>
                from \in R \cup markStack \cup ToSet(writeBarrierBuffer')
<1> DEFINE buffered == ToSet(writeBarrierBuffer)
<1>1. buffered \subseteq marks /\ markStack \subseteq marks /\ marks \subseteq Cells
  BY DEF IInv, TypeOK, MarksOK, Store
<1>2. \A c \in marks : cellState[c] # "OldBlack" => cellState[c] = "OldGrey" /\ c \in markStack
  BY DEF IInv, TypeOK, MarksOK, RememberedSetComplete, PhasesOK, Store
<1>3. \A c \in Cells : c \in marks <=> cellState[c] # "NewWhite"
  BY DEF IInv, MarksOK
<1>4. writeBarrierBuffer \in Seq(Cells) /\ Len(writeBarrierBuffer) <= BufferCapacity
  BY DEF IInv, TypeOK
<1>5. CASE WriteBarrier(from, to)
  <2> DEFINE R == IF to # NoCell /\ cellState[to] = "NewWhite" THEN Black({from}) ELSE {}
  <2>1. R \in SUBSET marks
    BY <1>3 DEF Black
  <2>2. Remember(R) /\ writeBarrierBuffer' = writeBarrierBuffer
    BY <1>5 DEF WriteBarrier
  <2>3. from \in marks /\ to \notin marks \cup {NoCell} => from \in R \cup markStack
    BY <1>2, <1>3 DEF Black
  <2> HIDE DEF R
  <2> QED
    BY <1>1, <1>4, <2>1, <2>2, <2>3
<1>6. CASE StoreToWriteBarrierBuffer(from)
  <2>1. CASE cellState[from] # "OldBlack"
    <3>1. UNCHANGED <<cellState, markStack, writeBarrierBuffer>>
      BY <1>6, <2>1 DEF StoreToWriteBarrierBuffer
    <3>2. Remember({})
      BY <3>1 DEF Remember, IInv, TypeOK
    <3> QED
      BY <3>1, <3>2, <2>1, <1>1, <1>2, <1>4
  <2>2. CASE cellState[from] = "OldBlack" /\ Len(writeBarrierBuffer) < BufferCapacity
    <3>1. /\ writeBarrierBuffer' = Append(writeBarrierBuffer, from)
          /\ UNCHANGED <<cellState, markStack>>
      BY <1>6, <2>2 DEF StoreToWriteBarrierBuffer
    <3>2. Remember({})
      BY <3>1 DEF Remember, IInv, TypeOK
    <3>3. ToSet(writeBarrierBuffer') = buffered \cup {from}
      BY <3>1, <1>4, ToSetAppend
    <3>4. writeBarrierBuffer' \in Seq(Cells) /\ Len(writeBarrierBuffer') <= BufferCapacity
      BY <3>1, <2>2, <1>4
    <3> QED
      BY <3>2, <3>3, <3>4, <2>2, <1>1, <1>3
  <2>3. CASE cellState[from] = "OldBlack" /\ ~(Len(writeBarrierBuffer) < BufferCapacity)
    <3>1. Remember(Black(buffered)) /\ writeBarrierBuffer' = <<from>>
      BY <1>6, <2>3 DEF StoreToWriteBarrierBuffer
    <3>2. ToSet(writeBarrierBuffer') = {from}
      BY <3>1, ToSetOne
    <3>3. writeBarrierBuffer' \in Seq(Cells) /\ Len(writeBarrierBuffer') <= BufferCapacity
      BY <3>1
    <3>4. Black(buffered) \in SUBSET marks /\ buffered \subseteq Black(buffered) \cup markStack
      BY <1>1, <1>2 DEF Black
    <3> QED
      BY <3>1, <3>2, <3>3, <3>4, <2>3, <1>3
  <2> QED
    BY <2>1, <2>2, <2>3
<1> QED
  BY <1>5, <1>6 DEF Store

LEMMA StoreInv ==
  ASSUME IInv, NEW from \in Cells, NEW to \in Cells \cup {NoCell}, Store(from, to)
  PROVE  IInv'
<1>0. Kept' = Kept
  BY KeptSame DEF Store, bits, allocator
<1> USE DEF Store, allocator, bits, control, IInv, TypeOK
<1>a. PICK R \in SUBSET marks :
           /\ Remember(R)
           /\ writeBarrierBuffer' \in Seq(Cells) /\ Len(writeBarrierBuffer') <= BufferCapacity
           /\ ToSet(writeBarrierBuffer') \subseteq marks
           /\ ToSet(writeBarrierBuffer) \subseteq ToSet(writeBarrierBuffer') \cup R \cup markStack
           /\ from \in marks /\ to \notin marks \cup {NoCell} =>
                from \in R \cup markStack \cup ToSet(writeBarrierBuffer')
  BY StoreBarrier
<1>1. TypeOK'
  BY <1>a DEF Remember
<1>2. PhasesOK'
  BY DEF Space, PhasesOK, BlocksAccountedFor, BlocksOK
<1>3. BlocksOK'
  BY DEF PhasesOK, BlocksOK, BlocksAccountedFor, Space
<1>4. BlocksAccountedFor'
  BY DEF PhasesOK, BlocksOK, BlocksAccountedFor, Space
<1>5. MarksOK'
  BY <1>0, <1>a DEF Remember, MarksOK
<1>6. CellsOK'
  BY <1>0 DEF BlocksOK, BlocksAccountedFor, Space, CellsOK, PhasesOK, NoDanglingReferences
<1>7. NoDanglingReferences'
  BY <1>0 DEF NoDanglingReferences, CellsOK
<1>8. RememberedSetComplete'
  BY <1>a DEF Remember, MarksOK, PhasesOK, RememberedSetComplete
<1>9. DestructorsOnObjects'
  BY <1>0 DEF PhasesOK, BlocksOK, BlocksAccountedFor, Space, CellsOK, DestructorsOnObjects
<1>10. WeakHandlesValid'
  BY <1>0 DEF WeakHandlesValid, CellsOK
<1> QED
  BY <1>1, <1>2, <1>3, <1>4, <1>5, <1>6, <1>7, <1>8, <1>9, <1>10 DEF IInv

LEMMA HoldInv ==
  ASSUME IInv, NEW c \in Kept, Hold(c)
  PROVE  IInv'
<1>0. Kept' = Kept
  BY KeptSame DEF Hold, bits, allocator
<1> USE DEF Hold, allocator, bits, cells, heap, control, IInv, TypeOK
<1>1. TypeOK'
  BY KeptTypes DEF BlockStates
<1>2. PhasesOK'
  BY DEF Space, PhasesOK, BlocksAccountedFor, BlocksOK
<1>3. BlocksOK'
  BY DEF PhasesOK, BlocksOK, BlocksAccountedFor, Space
<1>4. BlocksAccountedFor'
  BY DEF PhasesOK, BlocksOK, BlocksAccountedFor, Space
<1>5. MarksOK'
  BY <1>0 DEF PhasesOK, MarksOK
<1>6. CellsOK'
  BY <1>0 DEF BlocksOK, BlocksAccountedFor, Space, CellsOK, PhasesOK
<1>7. NoDanglingReferences'
  BY <1>0 DEF NoDanglingReferences, CellsOK
<1>8. RememberedSetComplete'
  BY DEF PhasesOK, MarksOK, RememberedSetComplete
<1>9. DestructorsOnObjects'
  BY <1>0 DEF PhasesOK, BlocksOK, BlocksAccountedFor, Space, CellsOK, DestructorsOnObjects
<1>10. WeakHandlesValid'
  BY <1>0 DEF WeakHandlesValid, CellsOK
<1> QED
  BY <1>1, <1>2, <1>3, <1>4, <1>5, <1>6, <1>7, <1>8, <1>9, <1>10 DEF IInv

LEMMA DropInv ==
  ASSUME IInv, NEW c \in Cells, Drop(c)
  PROVE  IInv'
<1>0. Kept' = Kept
  BY KeptSame DEF Drop, bits, allocator
<1> USE DEF Drop, allocator, bits, cells, heap, control, IInv, TypeOK
<1>1. TypeOK'
  BY DEF BlockStates
<1>2. PhasesOK'
  BY DEF Space, PhasesOK, BlocksAccountedFor, BlocksOK
<1>3. BlocksOK'
  BY DEF PhasesOK, BlocksOK, BlocksAccountedFor, Space
<1>4. BlocksAccountedFor'
  BY DEF PhasesOK, BlocksOK, BlocksAccountedFor, Space
<1>5. MarksOK'
  BY <1>0 DEF PhasesOK, MarksOK
<1>6. CellsOK'
  BY <1>0 DEF BlocksOK, BlocksAccountedFor, Space, CellsOK, PhasesOK
<1>7. NoDanglingReferences'
  BY <1>0 DEF NoDanglingReferences, CellsOK
<1>8. RememberedSetComplete'
  BY DEF PhasesOK, MarksOK, RememberedSetComplete
<1>9. DestructorsOnObjects'
  BY <1>0 DEF PhasesOK, BlocksOK, BlocksAccountedFor, Space, CellsOK, DestructorsOnObjects
<1>10. WeakHandlesValid'
  BY <1>0 DEF WeakHandlesValid, CellsOK
<1> QED
  BY <1>1, <1>2, <1>3, <1>4, <1>5, <1>6, <1>7, <1>8, <1>9, <1>10 DEF IInv

LEMMA MakeWeakInv ==
  ASSUME IInv, NEW c \in Cells, MakeWeak(c)
  PROVE  IInv'
<1>0. Kept' = Kept
  BY KeptSame DEF MakeWeak, bits, allocator
<1> USE DEF MakeWeak, allocator, bits, cells, heap, control, IInv, TypeOK
<1>1. TypeOK'
  BY DEF BlockStates
<1>2. PhasesOK'
  BY DEF Space, PhasesOK, BlocksAccountedFor, BlocksOK
<1>3. BlocksOK'
  BY DEF PhasesOK, BlocksOK, BlocksAccountedFor, Space
<1>4. BlocksAccountedFor'
  BY DEF PhasesOK, BlocksOK, BlocksAccountedFor, Space
<1>5. MarksOK'
  BY <1>0 DEF PhasesOK, MarksOK
<1>6. CellsOK'
  BY <1>0 DEF BlocksOK, BlocksAccountedFor, Space, CellsOK, PhasesOK
<1>7. NoDanglingReferences'
  BY <1>0 DEF NoDanglingReferences, CellsOK
<1>8. RememberedSetComplete'
  BY DEF PhasesOK, MarksOK, RememberedSetComplete
<1>9. DestructorsOnObjects'
  BY <1>0 DEF PhasesOK, BlocksOK, BlocksAccountedFor, Space, CellsOK, DestructorsOnObjects
<1>10. WeakHandlesValid'
  BY <1>0 DEF WeakHandlesValid, CellsOK, NoDanglingReferences
<1> QED
  BY <1>1, <1>2, <1>3, <1>4, <1>5, <1>6, <1>7, <1>8, <1>9, <1>10 DEF IInv

LEMMA ClearWeakInv ==
  ASSUME IInv, NEW c \in Cells, ClearWeak(c)
  PROVE  IInv'
<1>0. Kept' = Kept
  BY KeptSame DEF ClearWeak, bits, allocator
<1> USE DEF ClearWeak, allocator, bits, cells, heap, control, IInv, TypeOK
<1>1. TypeOK'
  BY DEF BlockStates
<1>2. PhasesOK'
  BY DEF Space, PhasesOK, BlocksAccountedFor, BlocksOK
<1>3. BlocksOK'
  BY DEF PhasesOK, BlocksOK, BlocksAccountedFor, Space
<1>4. BlocksAccountedFor'
  BY DEF PhasesOK, BlocksOK, BlocksAccountedFor, Space
<1>5. MarksOK'
  BY <1>0 DEF PhasesOK, MarksOK
<1>6. CellsOK'
  BY <1>0 DEF BlocksOK, BlocksAccountedFor, Space, CellsOK, PhasesOK
<1>7. NoDanglingReferences'
  BY <1>0 DEF NoDanglingReferences, CellsOK
<1>8. RememberedSetComplete'
  BY DEF PhasesOK, MarksOK, RememberedSetComplete
<1>9. DestructorsOnObjects'
  BY <1>0 DEF PhasesOK, BlocksOK, BlocksAccountedFor, Space, CellsOK, DestructorsOnObjects
<1>10. WeakHandlesValid'
  BY <1>0 DEF WeakHandlesValid, CellsOK
<1> QED
  BY <1>1, <1>2, <1>3, <1>4, <1>5, <1>6, <1>7, <1>8, <1>9, <1>10 DEF IInv

LEMMA FinishSweepingInv ==
  ASSUME IInv, FinishSweeping
  PROVE  IInv'
<1>0. Kept' = Kept
  BY KeptSame DEF FinishSweeping, bits, allocator
<1> USE DEF FinishSweeping, allocator, bits, cells, heap, control, IInv, TypeOK
<1>1. TypeOK'
  BY DEF BlockStates
<1>2. PhasesOK'
  BY DEF Space, PhasesOK, BlocksAccountedFor, BlocksOK
<1>3. BlocksOK'
  BY DEF PhasesOK, BlocksOK, BlocksAccountedFor, Space
<1>4. BlocksAccountedFor'
  BY DEF PhasesOK, BlocksOK, BlocksAccountedFor, Space
<1>5. MarksOK'
  BY <1>0 DEF PhasesOK, MarksOK
<1>6. CellsOK'
  BY <1>0 DEF BlocksOK, BlocksAccountedFor, Space, CellsOK, PhasesOK
<1>7. NoDanglingReferences'
  BY <1>0 DEF NoDanglingReferences, CellsOK
<1>8. RememberedSetComplete'
  BY DEF PhasesOK, MarksOK, RememberedSetComplete
<1>9. DestructorsOnObjects'
  BY <1>0 DEF PhasesOK, BlocksOK, BlocksAccountedFor, Space, CellsOK, DestructorsOnObjects
<1>10. WeakHandlesValid'
  BY <1>0 DEF WeakHandlesValid, CellsOK
<1> QED
  BY <1>1, <1>2, <1>3, <1>4, <1>5, <1>6, <1>7, <1>8, <1>9, <1>10 DEF IInv

LEMMA WillStartIteratingInv ==
  ASSUME IInv, WillStartIterating
  PROVE  IInv'
<1>0. Kept' = Kept
  BY StopAllocatingKept DEF WillStartIterating
<1> USE DEF WillStartIterating, StopAllocating, heap, IInv, TypeOK
<1>1. TypeOK'
  BY DEF BlockStates, CellsOf, Filled
<1>2. PhasesOK'
  BY DEF Space, PhasesOK, BlocksAccountedFor, BlocksOK
<1>3. BlocksOK'
  BY DEF PhasesOK, BlocksOK, BlocksAccountedFor, Space
<1>4. BlocksAccountedFor'
  BY DEF PhasesOK, BlocksOK, BlocksAccountedFor, Space
<1>5. MarksOK'
  BY <1>0 DEF PhasesOK, MarksOK
<1>6. CellsOK'
  BY <1>0 DEF BlocksOK, BlocksAccountedFor, Space, CellsOK, PhasesOK, Filled, Kept
<1>7. NoDanglingReferences'
  BY <1>0, KeptTypes DEF NoDanglingReferences, CellsOK, Filled, Kept, IsLive, BlocksOK,
       BlocksAccountedFor, Space
<1>8. RememberedSetComplete'
  BY DEF PhasesOK, MarksOK, RememberedSetComplete
<1>9. DestructorsOnObjects'
  BY <1>0, KeptTypes DEF PhasesOK, BlocksOK, BlocksAccountedFor, Space, CellsOK,
       DestructorsOnObjects, Filled, Kept, NoDanglingReferences
<1>10. WeakHandlesValid'
  BY <1>0 DEF WeakHandlesValid, CellsOK, Filled
<1> QED
  BY <1>1, <1>2, <1>3, <1>4, <1>5, <1>6, <1>7, <1>8, <1>9, <1>10 DEF IInv

LEMMA StartCollectionInv ==
  ASSUME IInv, NEW type \in {"EdenCollection", "FullCollection"}, StartCollection(type)
  PROVE  IInv'
<1>0. Kept' = Kept
  BY StopAllocatingKept DEF StartCollection
<1> USE DEF StartCollection, StopAllocating, Remember, Black, IInv, TypeOK
<1>1. TypeOK'
  BY ToSetType, ToSetEmpty DEF BlockStates, CellsOf, Filled, MarksOK
<1>2. PhasesOK'
  BY DEF Space, PhasesOK, BlocksAccountedFor, BlocksOK
<1>3. BlocksOK'
  BY DEF PhasesOK, BlocksOK, BlocksAccountedFor, Space
<1>4. BlocksAccountedFor'
  BY DEF PhasesOK, BlocksOK, BlocksAccountedFor, Space
<1>5. MarksOK'
  BY <1>0, ToSetEmpty DEF PhasesOK, MarksOK
<1>6. CellsOK'
  BY <1>0 DEF BlocksOK, BlocksAccountedFor, Space, CellsOK, PhasesOK, Filled, Kept
<1>7. NoDanglingReferences'
  BY <1>0, KeptTypes DEF NoDanglingReferences, CellsOK, Filled, Kept, IsLive, BlocksOK,
       BlocksAccountedFor, Space
<1>8. RememberedSetComplete'
  BY DEF PhasesOK, MarksOK, RememberedSetComplete
<1>9. DestructorsOnObjects'
  BY <1>0, KeptTypes DEF PhasesOK, BlocksOK, BlocksAccountedFor, Space, CellsOK,
       DestructorsOnObjects, Filled, Kept, NoDanglingReferences
<1>10. WeakHandlesValid'
  BY <1>0 DEF WeakHandlesValid, CellsOK, Filled
<1> QED
  BY <1>1, <1>2, <1>3, <1>4, <1>5, <1>6, <1>7, <1>8, <1>9, <1>10 DEF IInv

LEMMA DidFinishIteratingInv ==
  ASSUME IInv, DidFinishIterating
  PROVE  IInv'
<1>0. /\ Kept' = Kept
      /\ lastActiveBlock # NoBlock => DeadIn(lastActiveBlock) = CellsOf(lastActiveBlock) \ Kept
  BY DidFinishIteratingKept, DeadAreNotKept DEF IInv, TypeOK, BlocksOK
<1> USE DEF DidFinishIterating, SweepToFreeList, bits, cells, heap, IInv, TypeOK
<1>1. TypeOK'
  BY DEF BlockStates, DeadIn, CellsOf, SweptWeak, Filled, NoBitmap
<1>2. PhasesOK'
  BY DEF Space, PhasesOK, BlocksAccountedFor, BlocksOK
<1>3. BlocksOK'
  BY DEF PhasesOK, BlocksOK, BlocksAccountedFor, Space, DeadIn, CellsOf, NoBitmap
<1>4. BlocksAccountedFor'
  BY DEF PhasesOK, BlocksOK, BlocksAccountedFor, Space, BlockStates
<1>5. MarksOK'
  BY <1>0 DEF PhasesOK, MarksOK
<1>6. CellsOK'
  BY <1>0 DEF BlocksOK, BlocksAccountedFor, Space, CellsOK, PhasesOK, CellsOf, Filled
<1>7. NoDanglingReferences'
  BY <1>0, KeptTypes DEF NoDanglingReferences, CellsOK, CellsOf, Filled
<1>8. RememberedSetComplete'
  BY DEF PhasesOK, MarksOK, RememberedSetComplete
<1>9. DestructorsOnObjects'
  BY <1>0 DEF PhasesOK, BlocksOK, BlocksAccountedFor, Space, CellsOK, DestructorsOnObjects,
       CellsOf, Filled, NoDanglingReferences
<1>10. WeakHandlesValid'
  BY <1>0 DEF WeakHandlesValid, CellsOK, CellsOf, Filled, SweptWeak
<1> QED
  BY <1>1, <1>2, <1>3, <1>4, <1>5, <1>6, <1>7, <1>8, <1>9, <1>10 DEF IInv

LEMMA FinishCollectionInv ==
  ASSUME IInv, NEW words \in SUBSET Cells, roots \subseteq words, NEW executing \in SUBSET roots,
         FinishCollection(words, executing)
  PROVE  IInv'
<1>0. /\ Kept' = marks' /\ marks' \subseteq Kept /\ roots \subseteq marks'
      /\ \A c \in marks' : slot[c] \in marks' \cup {NoCell}
      /\ \A c \in marks' : cellState'[c] = "OldGrey" => c \in executing
  BY FinishCollectionKept
<1> USE DEF FinishCollection, IInv, TypeOK
<1>1. TypeOK'
  <2>1. marks' \subseteq Cells /\ executing \subseteq Cells
    BY <1>0, KeptTypes
  <2>2. cellState' \in [Cells -> {"NewWhite", "OldBlack", "OldGrey"}]
    BY DEF MarkRoots
  <2>3. slot' \in [Cells -> Cells \cup {NoCell}]
    BY DEF MarkRoots
  <2>4. weak' \in [Cells -> {"none", "Live", "Dead"}]
    BY DEF ReapWeakSets
  <2>5. markStack' \subseteq Cells
    BY <2>1 DEF MarkRoots
  <2>6. state' \in [Blocks -> BlockStates \cup {"absent"}]
    BY DEF ClearLivenessData, BlockStates
  <2>7. newlyAllocated' \in [Blocks -> (SUBSET Cells) \cup {NoBitmap}]
    BY DEF ClearLivenessData
  <2> QED
    BY <2>1, <2>2, <2>3, <2>4, <2>5, <2>6, <2>7 DEF SnapshotMarkedSpace, ResetAllocators, Space
<1>2. PhasesOK'
  BY DEF Space, PhasesOK, BlocksAccountedFor, BlocksOK, ResetAllocators, Full
<1>3. BlocksOK'
  BY DEF PhasesOK, BlocksOK, BlocksAccountedFor, Space, ResetAllocators, ClearLivenessData,
       BlockStates
<1>4. BlocksAccountedFor'
  BY DEF PhasesOK, BlocksOK, BlocksAccountedFor, Space, ResetAllocators, ClearLivenessData,
       SnapshotMarkedSpace, BlockStates
<1>5. MarksOK'
  BY <1>0, ToSetEmpty, KeptTypes DEF PhasesOK, MarksOK, MarkRoots
<1>6. CellsOK'
  BY <1>0 DEF BlocksOK, BlocksAccountedFor, Space, CellsOK, PhasesOK, MarkRoots,
       ResetAllocators, ClearLivenessData
<1>7. NoDanglingReferences'
  BY <1>0, KeptTypes DEF NoDanglingReferences, CellsOK, MarkRoots
<1>8. RememberedSetComplete'
  BY <1>0, KeptTypes DEF PhasesOK, MarksOK, RememberedSetComplete, MarkRoots
<1>9. DestructorsOnObjects'
  BY <1>0 DEF PhasesOK, BlocksOK, BlocksAccountedFor, Space, CellsOK, DestructorsOnObjects,
       ClearLivenessData, BlockStates
<1>10. WeakHandlesValid'
  <2>1. ~Full => marks \subseteq marks'
    BY DEF MarkRoots
  <2>2. \A c \in Kept : BlockOf[c] \notin blocksWithNewObjects => c \in marks
    BY DEF PhasesOK, BlocksOK, BlocksAccountedFor, Space, Kept, IsLive, MarkedOrNewlyAllocated,
         NoBitmap
  <2> QED
    BY <2>1, <2>2, <1>0, KeptTypes DEF ReapWeakSets, WeakHandlesValid, NoDanglingReferences
<1> QED
  BY <1>1, <1>2, <1>3, <1>4, <1>5, <1>6, <1>7, <1>8, <1>9, <1>10 DEF IInv

\* What SweepAll and SweepNextBlock have in common.
LEMMA SweepAndShrinkInv ==
  ASSUME IInv, NEW B \in SUBSET Blocks, \A b \in B : state[b] = "Marked", SweepAndShrink(B),
         phase \in {"mutator", "sweeping"}, phase' = "mutator",
         blockSnapshot' \subseteq blockSnapshot \ B
  PROVE  IInv'
<1>0. /\ Kept' = Kept
      /\ \A c \in Kept : /\ BlockOf[c] \notin Emptied(B)
                         /\ BlockOf[c] \in B => c \notin DeadIn(BlockOf[c])
  BY SweepAndShrinkKept
<1> USE DEF SweepAndShrink, FreeBlocks, IInv, TypeOK
<1>1. TypeOK'
  BY DEF BlockStates, SweptWeak
<1>2. PhasesOK'
  BY DEF Space, PhasesOK, BlocksAccountedFor, BlocksOK
<1>3. BlocksOK'
  BY DEF PhasesOK, BlocksOK, BlocksAccountedFor, Space, Emptied
<1>4. BlocksAccountedFor'
  BY DEF PhasesOK, BlocksOK, BlocksAccountedFor, Space, Emptied
<1>5. MarksOK'
  BY <1>0 DEF PhasesOK, MarksOK
<1>6. CellsOK'
  BY <1>0 DEF BlocksOK, BlocksAccountedFor, Space, CellsOK, PhasesOK, Emptied
<1>7. NoDanglingReferences'
  <2>1. ASSUME NEW c \in Kept PROVE content'[c] = content[c]
    <3>1. c \in Cells
      BY KeptTypes
    <3>2. BlockOf[c] \notin Emptied(B) /\ ~(BlockOf[c] \in B /\ c \in DeadIn(BlockOf[c]))
      BY <1>0
    <3>3. content' = [d \in Cells |->
            IF BlockOf[d] \in Emptied(B) THEN "garbage"
            ELSE IF NeedsDestruction /\ BlockOf[d] \in B /\ d \in DeadIn(BlockOf[d]) THEN "zapped"
            ELSE content[d]]
      OBVIOUS 
    <3> QED
      BY <3>1, <3>2, <3>3
  <2> QED
    BY <2>1, <1>0, KeptTypes DEF NoDanglingReferences
<1>8. RememberedSetComplete'
  BY DEF PhasesOK, MarksOK, RememberedSetComplete
<1>9. DestructorsOnObjects'
  BY <1>0 DEF PhasesOK, BlocksOK, BlocksAccountedFor, Space, CellsOK, DestructorsOnObjects,
       Emptied, DeadIn
<1>10. WeakHandlesValid'
  BY <1>0 DEF WeakHandlesValid, CellsOK, SweptWeak, Emptied, IsEmptyBlock
<1> QED
  BY <1>1, <1>2, <1>3, <1>4, <1>5, <1>6, <1>7, <1>8, <1>9, <1>10 DEF IInv

LEMMA LastChanceToFinalizeInv ==
  ASSUME IInv, LastChanceToFinalize
  PROVE  IInv'
<1>0. Kept' = {}
  BY LastChanceToFinalizeKept
<1> USE DEF LastChanceToFinalize, heap, IInv, TypeOK
<1>1. TypeOK'
  BY DEF BlockStates, Space, Filled
<1>2. PhasesOK'
  BY DEF Space, PhasesOK, BlocksAccountedFor, BlocksOK
<1>3. BlocksOK'
  BY DEF PhasesOK, BlocksOK, BlocksAccountedFor, Space
<1>4. BlocksAccountedFor'
  BY DEF PhasesOK, BlocksOK, BlocksAccountedFor, Space
<1>5. MarksOK'
  BY <1>0 DEF PhasesOK, MarksOK
<1>6. CellsOK'
  BY <1>0 DEF BlocksOK, BlocksAccountedFor, Space, CellsOK, PhasesOK, Filled
<1>7. NoDanglingReferences'
  BY <1>0 DEF NoDanglingReferences, CellsOK
<1>8. RememberedSetComplete'
  BY DEF PhasesOK, MarksOK, RememberedSetComplete
<1>9. DestructorsOnObjects'
  <2>1. \A c \in Cells : BlockOf[c] \in Space /\ c \notin freeList => content[c] # "garbage"
    BY DEF BlocksOK, DestructorsOnObjects, NoDanglingReferences, Space, Kept, BlockStates
  <2> QED
    BY <2>1 DEF DestructorsOnObjects, Filled, Space
<1>10. WeakHandlesValid'
  BY <1>0 DEF WeakHandlesValid, CellsOK
<1> QED
  BY <1>1, <1>2, <1>3, <1>4, <1>5, <1>6, <1>7, <1>8, <1>9, <1>10 DEF IInv

LEMMA InitIInv == Init => IInv
  BY ToSetEmpty DEF Init, IInv, TypeOK, PhasesOK, BlocksOK, BlocksAccountedFor, MarksOK, CellsOK,
     NoDanglingReferences, RememberedSetComplete, DestructorsOnObjects, WeakHandlesValid, Kept, IsLive,
     Space, NoBitmap, BlockStates

LEMMA StutteringIInv == IInv /\ UNCHANGED vars => IInv'
<1> SUFFICES ASSUME IInv, UNCHANGED vars PROVE IInv'
  OBVIOUS
<1> USE DEF vars, allocator, bits, cells, heap, control
<1>1. Kept' = Kept
  BY KeptSame
<1>2. Space' = Space
  BY DEF Space
<1>3. (TypeOK /\ PhasesOK /\ BlocksOK /\ BlocksAccountedFor)'
  BY <1>2 DEF IInv, TypeOK, PhasesOK, BlocksOK, BlocksAccountedFor
<1>4. (MarksOK /\ CellsOK /\ NoDanglingReferences /\ WeakHandlesValid)'
  BY <1>1 DEF IInv, MarksOK, CellsOK, NoDanglingReferences, WeakHandlesValid
<1>5. (RememberedSetComplete /\ DestructorsOnObjects)'
  BY DEF IInv, RememberedSetComplete, DestructorsOnObjects
<1> QED
  BY <1>3, <1>4, <1>5 DEF IInv

\* What the program finds by following a reference, a weak handle or an iteration is kept.
LEMMA FoundIsKept ==
  ASSUME IInv, NEW c \in Cells
  PROVE  /\ Load(c) => slot[c] \in Kept /\ Hold(slot[c])
         /\ GetWeak(c) \/ ForEachLiveCell(c) => c \in Kept /\ Hold(c)
<1>1. Load(c) => slot[c] \in Kept /\ Hold(slot[c])
  BY DEF Load, IInv, NoDanglingReferences
<1>2. GetWeak(c) => c \in Kept /\ Hold(c)
  BY DEF GetWeak, IInv, WeakHandlesValid
<1>3. ForEachLiveCell(c) => c \in Kept /\ Hold(c)
  BY DEF ForEachLiveCell, Kept
<1> QED
  BY <1>1, <1>2, <1>3

\* The blocks that a sweep goes through are marked.
LEMMA SweptAreMarked ==
  ASSUME IInv
  PROVE  /\ SweepAll => \A b \in Space : state[b] = "Marked"
         /\ \A b \in blockSnapshot, skipped \in SUBSET blockSnapshot :
              SweepNextBlock(b, skipped) => b \in Blocks /\ state[b] = "Marked"
  BY DEF SweepAll, SweepNextBlock, IInv, TypeOK, PhasesOK, BlocksOK, BlocksAccountedFor, Space, BlockStates

LEMMA NextIInv == IInv /\ [Next]_vars => IInv'
<1> SUFFICES ASSUME IInv, [Next]_vars PROVE IInv'
  OBVIOUS
<1>1. CASE Allocation
  BY <1>1, AllocateInv, AllocateInBlockInv, AllocateSlowCaseInv, UseBlockInv, RetireBlockInv, AddBlockInv
     DEF Allocation
<1>2. CASE Program
  BY <1>2, StoreInv, HoldInv, FoundIsKept, DropInv, MakeWeakInv, ClearWeakInv DEF Program
<1>3. CASE Iteration
  BY <1>3, WillStartIteratingInv, DidFinishIteratingInv, HoldInv, FoundIsKept DEF Iteration
<1>4. CASE Collection
  <2>1. CASE \E type \in {"EdenCollection", "FullCollection"} : StartCollection(type)
    BY <2>1, StartCollectionInv
  <2>2. ASSUME NEW junk \in SUBSET (LiveCells \ roots), NEW executing \in SUBSET roots,
               FinishCollection(roots \cup junk, executing)
        PROVE  IInv'
    <3>1. roots \cup junk \in SUBSET Cells
      BY DEF LiveCells, IInv, TypeOK
    <3> QED
      BY <2>2, <3>1, FinishCollectionInv
  <2>3. CASE LastChanceToFinalize
    BY <2>3, LastChanceToFinalizeInv
  <2> QED
    BY <1>4, <2>1, <2>2, <2>3 DEF Collection
<1>5. CASE Sweeping
  <2>1. CASE SweepAll
    <3>1. SweepAndShrink(Space) /\ phase = "sweeping" /\ phase' = "mutator" /\ blockSnapshot' = {}
      BY <2>1 DEF SweepAll
    <3>2. Space \in SUBSET Blocks /\ \A b \in Space : state[b] = "Marked"
      BY <2>1, SweptAreMarked DEF Space
    <3> QED
      BY <3>1, <3>2, SweepAndShrinkInv
  <2>2. ASSUME NEW b \in blockSnapshot, NEW skipped \in SUBSET (blockSnapshot \ {b}),
               SweepNextBlock(b, skipped)
        PROVE  IInv'
    <3>1. b \in Blocks /\ state[b] = "Marked"
      BY <2>2, SweptAreMarked
    <3>2. /\ SweepAndShrink({b}) /\ phase = "mutator" /\ phase' = "mutator"
          /\ blockSnapshot' = blockSnapshot \ (skipped \cup {b})
      BY <2>2 DEF SweepNextBlock
    <3> QED
      BY <3>1, <3>2, SweepAndShrinkInv
  <2>3. CASE FinishSweeping
    BY <2>3, FinishSweepingInv
  <2> QED
    BY <1>5, <2>1, <2>2, <2>3 DEF Sweeping
<1>6. CASE UNCHANGED vars
  BY <1>6, StutteringIInv
<1> QED
  BY <1>1, <1>2, <1>3, <1>4, <1>5, <1>6 DEF Next

\* The inductive invariant, of which the properties below are parts.
THEOREM IInvHolds == Spec => []IInv
  BY InitIInv, NextIInv, PTL DEF Spec

(***************************************************************************)
(* Memory safety of the collector: whatever collections, sweeps and        *)
(* iterations come in between, what the program holds and what a kept      *)
(* object refers to is an object that is kept.                             *)
(***************************************************************************)
THEOREM NoReferenceDangles == Spec => []NoDanglingReferences
  BY IInvHolds, PTL DEF IInv

(***************************************************************************)
(* The write barriers, buffered or not, miss no reference from an old      *)
(* object to a new one.                                                    *)
(***************************************************************************)
THEOREM RememberedSetIsComplete == Spec => []RememberedSetComplete
  BY IInvHolds, PTL DEF IInv

(***************************************************************************)
(* MarkedBlock::callDestructor() never sees the links of a free list.      *)
(***************************************************************************)
THEOREM DestructorsRunOnObjects == Spec => []DestructorsOnObjects
  BY IInvHolds, PTL DEF IInv

(***************************************************************************)
(* No block is lost by MarkedAllocator, in two of its lists, or pointed to *)
(* after MarkedSpace::freeBlock().                                         *)
(***************************************************************************)
THEOREM BlocksAreAccountedFor == Spec => []BlocksAccountedFor
  BY IInvHolds, PTL DEF IInv

(***************************************************************************)
(* Weak::get() returns objects that are kept only, and a finalizer runs    *)
(* for a handle whose object is lost and still there.                      *)
(***************************************************************************)
THEOREM WeakHandlesAreValid == Spec => []WeakHandlesValid
  BY IInvHolds, PTL DEF IInv

-----------------------------------------------------------------------------
(* The heap implements ManagedHeap.                                        *)

Objects == {c \in Cells : content[c] = "object"}

LEMMA KeptAreObjects == IInv => Kept \subseteq Objects /\ Objects \ (Objects \ Kept) = Kept
  BY KeptTypes DEF IInv, NoDanglingReferences, Objects

LEMMA AllocateRefines ==
  ASSUME IInv, NEW c \in Cells, PopFreeList(c)
  PROVE  Abstract!Allocate(c)
<1>1. c \notin Kept /\ Kept' = Kept \cup {c}
  BY PopFreeListKept
<1>2. content[c] = "garbage" /\ content' = [content EXCEPT ![c] = "object"]
  BY DEF PopFreeList, IInv, CellsOK
<1>3. Objects' = Objects \cup {c} /\ c \notin Objects
  BY <1>2 DEF Objects, IInv, TypeOK
<1>4. (Objects \ Kept)' = Objects \ Kept
  BY <1>1, <1>3
<1> QED
  BY <1>3, <1>4 DEF Abstract!Allocate, PopFreeList, Objects

LEMMA StoreRefines ==
  ASSUME IInv, NEW from \in Cells, NEW to \in Cells \cup {NoCell}, Store(from, to)
  PROVE  Abstract!Store(from, to)
<1>1. Kept' = Kept
  BY KeptSame DEF Store, bits, allocator
<1>2. Objects' = Objects
  BY DEF Store, Objects
<1> QED
  BY <1>1, <1>2 DEF Abstract!Store, Store, Objects

LEMMA HoldRefines == ASSUME IInv, NEW c \in Kept, Hold(c) PROVE Abstract!Find(c)
<1>1. Kept' = Kept
  BY KeptSame DEF Hold, bits, allocator
<1>2. Objects' = Objects
  BY DEF Hold, Objects, cells
<1> QED
  BY <1>1, <1>2, KeptAreObjects DEF Abstract!Find, Hold, Objects, cells

LEMMA DropRefines == ASSUME IInv, NEW c \in Cells, Drop(c) PROVE Abstract!Forget(c)
<1>1. Kept' = Kept
  BY KeptSame DEF Drop, bits, allocator
<1>2. Objects' = Objects
  BY DEF Drop, Objects, cells
<1> QED
  BY <1>1, <1>2 DEF Abstract!Forget, Drop, Objects, cells

(***************************************************************************)
(* Every other step gives up objects that are not kept, and nothing else:  *)
(* no new object appears, what stops being kept was not held, and nothing  *)
(* that is kept referred to it.                                            *)
(***************************************************************************)
LEMMA ReclaimRefines ==
  ASSUME IInv, IInv', roots' = roots, Objects' \subseteq Objects, Kept' \subseteq Kept,
         \A c \in Kept' : slot[c] \in Kept' \cup {NoCell},
         slot' = [c \in Cells |-> IF c \in Kept' THEN slot[c] ELSE NoCell]
  PROVE  Abstract!Reclaim
<1>0. (Kept \subseteq Objects)'
  BY DEF Objects, Kept, IInv, NoDanglingReferences
<1>1. Objects \ (Objects \ Kept) = Kept /\ Objects' \ (Objects' \ Kept') = Kept'
  BY <1>0, KeptAreObjects
<1>2. Kept \subseteq Objects /\ Kept' \subseteq Objects' /\ Kept \subseteq Cells
  BY <1>0, KeptAreObjects, KeptTypes
<1>3. roots \subseteq Kept'
  BY DEF IInv, NoDanglingReferences
<1>4. slot' = [c \in Cells |-> IF c \in Kept \ Kept' THEN NoCell ELSE slot[c]]
  BY DEF IInv, CellsOK, TypeOK
<1>5. \A c \in Kept' : slot[c] \notin Kept \ Kept'
  BY <1>2
<1>6. (Kept \ Kept') \cap roots = {}
  BY <1>3
<1>7. (Objects \ Kept) \cap Objects' \subseteq Objects' \ Kept'
  OBVIOUS
<1>8. Objects = {c \in Cells : content[c] = "object"}
  BY DEF Objects
<1>9. Objects' = {c \in Cells : content'[c] = "object"}
  BY DEF Objects
<1> HIDE DEF Objects
<1> QED
  BY <1>1, <1>2, <1>4, <1>5, <1>6, <1>7, <1>8, <1>9 DEF Abstract!Reclaim

\* The steps that change neither what is kept nor a reference.
LEMMA QuietRefines ==
  ASSUME IInv, IInv', UNCHANGED <<roots, slot>>, Kept' = Kept, Objects' \subseteq Objects
  PROVE  Abstract!Reclaim
<1>1. \A c \in Kept' : slot[c] \in Kept' \cup {NoCell}
  BY DEF IInv, NoDanglingReferences
<1>2. slot' = [c \in Cells |-> IF c \in Kept' THEN slot[c] ELSE NoCell]
  BY DEF IInv, CellsOK, TypeOK
<1> QED
  BY <1>1, <1>2, ReclaimRefines

LEMMA InitRefines == Init => Abstract!Init
  BY DEF Init, Abstract!Init, Kept

LEMMA StepRefines ==
  IInv /\ [Next]_vars => Abstract!Next \/ UNCHANGED <<Objects, Objects \ Kept, slot, roots>>
<1> SUFFICES ASSUME IInv, [Next]_vars
             PROVE  Abstract!Next \/ UNCHANGED <<Objects, Objects \ Kept, slot, roots>>
  OBVIOUS
<1>0. IInv'
  BY NextIInv
<1>1. CASE Allocation
  <2>1. CASE AllocateSlowCase
    <3>1. Objects' = Objects /\ UNCHANGED <<roots, slot>>
      BY <2>1 DEF AllocateSlowCase, Objects, cells
    <3> QED
      BY <1>0, <2>1, <3>1, AllocateSlowCaseKept, QuietRefines DEF Abstract!Next
  <2>2. ASSUME NEW c \in Cells, Allocate(c) \/ AllocateInBlock(c) PROVE Abstract!Next
    BY <2>2, AllocateRefines DEF Allocate, AllocateInBlock, Abstract!Next
  <2>3. ASSUME NEW b \in Blocks, UseBlock(b) \/ RetireBlock(b) \/ AddBlock(b) PROVE Abstract!Next
    <3>1. Objects' \subseteq Objects
      BY <2>3 DEF UseBlock, RetireBlock, AddBlock, Filled, Objects, IInv, TypeOK
    <3>2. UNCHANGED <<roots, slot>>
      BY <2>3 DEF UseBlock, RetireBlock, AddBlock, SweepToFreeList
    <3>3. Kept' = Kept
      BY <2>3, UseBlockKept, RetireBlockKept, AddBlockKept
    <3> QED
      BY <1>0, <3>1, <3>2, <3>3, QuietRefines DEF Abstract!Next
  <2> QED
    BY <1>1, <2>1, <2>2, <2>3 DEF Allocation
<1>2. CASE Program
  <2>1. ASSUME NEW from \in Cells, NEW to \in Cells \cup {NoCell}, Store(from, to)
        PROVE  Abstract!Next
    BY <2>1, StoreRefines DEF Abstract!Next
  <2>2. ASSUME NEW c \in Cells, Load(c) \/ GetWeak(c) PROVE Abstract!Next
    BY <2>2, FoundIsKept, HoldRefines, KeptTypes DEF Abstract!Next
  <2>3. ASSUME NEW c \in Cells, Drop(c) PROVE Abstract!Next
    BY <2>3, DropRefines DEF Abstract!Next
  <2>4. ASSUME NEW c \in Cells, MakeWeak(c) \/ ClearWeak(c) PROVE Abstract!Next
    <3>1. Objects' = Objects /\ UNCHANGED <<roots, slot>>
      BY <2>4 DEF MakeWeak, ClearWeak, Objects
    <3>2. Kept' = Kept
      BY <2>4, KeptSame DEF MakeWeak, ClearWeak, allocator, bits
    <3> QED
      BY <1>0, <3>1, <3>2, QuietRefines DEF Abstract!Next
  <2> QED
    BY <1>2, <2>1, <2>2, <2>3, <2>4 DEF Program
<1>3. CASE Iteration
  <2>1. ASSUME NEW c \in Cells, ForEachLiveCell(c) PROVE Abstract!Next
    BY <2>1, FoundIsKept, HoldRefines DEF Abstract!Next
  <2>2. CASE WillStartIterating \/ DidFinishIterating
    <3>1. Objects' \subseteq Objects
      BY <2>2 DEF WillStartIterating, DidFinishIterating, StopAllocating, Filled, Objects, IInv, TypeOK, cells
    <3>2. UNCHANGED <<roots, slot>>
      BY <2>2 DEF WillStartIterating, DidFinishIterating, SweepToFreeList, cells
    <3>3. Kept' = Kept
      BY <2>2, StopAllocatingKept, DidFinishIteratingKept DEF WillStartIterating
    <3> QED
      BY <1>0, <3>1, <3>2, <3>3, QuietRefines DEF Abstract!Next
  <2> QED
    BY <1>3, <2>1, <2>2 DEF Iteration
<1>4. CASE Collection
  <2>1. ASSUME NEW type \in {"EdenCollection", "FullCollection"}, StartCollection(type)
        PROVE  Abstract!Next
    <3>1. Objects' \subseteq Objects /\ UNCHANGED <<roots, slot>>
      BY <2>1 DEF StartCollection, StopAllocating, Filled, Objects, IInv, TypeOK
    <3>2. Kept' = Kept
      BY <2>1, StopAllocatingKept DEF StartCollection
    <3> QED
      BY <1>0, <3>1, <3>2, QuietRefines DEF Abstract!Next
  <2>2. ASSUME NEW junk \in SUBSET (LiveCells \ roots), NEW executing \in SUBSET roots,
               FinishCollection(roots \cup junk, executing)
        PROVE  Abstract!Next
    <3>1. roots \cup junk \in SUBSET Cells
      BY DEF LiveCells, IInv, TypeOK
    <3>2. /\ Kept' = marks' /\ Kept' \subseteq Kept
          /\ \A c \in Kept' : slot[c] \in Kept' \cup {NoCell}
      BY <2>2, <3>1, FinishCollectionKept
    <3>3. Objects' = Objects /\ roots' = roots
      BY <2>2 DEF FinishCollection, Objects
    <3>4. slot' = [c \in Cells |-> IF c \in Kept' THEN slot[c] ELSE NoCell]
      BY <2>2, <3>2 DEF FinishCollection, MarkRoots
    <3> QED
      BY <1>0, <3>2, <3>3, <3>4, ReclaimRefines DEF Abstract!Next
  <2>3. CASE LastChanceToFinalize
    <3>1. Kept' = {}
      BY <2>3, LastChanceToFinalizeKept
    <3>2. Objects' \subseteq Objects /\ roots' = roots
      BY <2>3 DEF LastChanceToFinalize, Filled, Objects, IInv, TypeOK
    <3>3. slot' = [c \in Cells |-> IF c \in Kept' THEN slot[c] ELSE NoCell]
      BY <2>3, <3>1 DEF LastChanceToFinalize
    <3> QED
      BY <1>0, <3>1, <3>2, <3>3, ReclaimRefines DEF Abstract!Next
  <2> QED
    BY <1>4, <2>1, <2>2, <2>3 DEF Collection
<1>5. CASE Sweeping
  <2>1. ASSUME NEW B \in SUBSET Blocks, \A b \in B : state[b] = "Marked", SweepAndShrink(B)
        PROVE  Abstract!Next
    <3>1. Objects' \subseteq Objects /\ UNCHANGED <<roots, slot>>
      BY <2>1 DEF SweepAndShrink, Objects, IInv, TypeOK
    <3>2. Kept' = Kept
      BY <2>1, SweepAndShrinkKept
    <3> QED
      BY <1>0, <3>1, <3>2, QuietRefines DEF Abstract!Next
  <2>2. CASE SweepAll
    BY <2>1, <2>2, SweptAreMarked DEF SweepAll, Space
  <2>3. ASSUME NEW b \in blockSnapshot, NEW skipped \in SUBSET (blockSnapshot \ {b}),
               SweepNextBlock(b, skipped)
        PROVE  Abstract!Next
    <3>1. b \in Blocks /\ state[b] = "Marked"
      BY <2>3, SweptAreMarked
    <3>2. SweepAndShrink({b})
      BY <2>3 DEF SweepNextBlock
    <3> QED
      BY <3>1, <3>2, <2>1
  <2>4. CASE FinishSweeping
    <3>1. Kept' = Kept
      BY <2>4, KeptSame DEF FinishSweeping, allocator, bits
    <3> QED
      BY <2>4, <3>1 DEF FinishSweeping, cells, Objects
  <2> QED
    BY <1>5, <2>2, <2>3, <2>4 DEF Sweeping
<1>6. CASE UNCHANGED vars
  <2>1. Kept' = Kept
    BY <1>6, KeptSame DEF vars, allocator, bits
  <2> QED
    BY <1>6, <2>1 DEF vars, cells, Objects
<1> QED
  BY <1>1, <1>2, <1>3, <1>4, <1>5, <1>6 DEF Next

(***************************************************************************)
(* The heap implements ManagedHeap: allocation never hands out a cell that *)
(* holds an object, only objects the program has lost are condemned, and   *)
(* only condemned objects are destroyed.                                   *)
(***************************************************************************)
THEOREM HeapImplementsManagedHeap == Spec => ImplementsManagedHeap
<1>1. IInv /\ [Next]_vars => [Abstract!Next]_(Abstract!vars)
  BY StepRefines DEF Abstract!vars, Objects
<1> QED
  BY <1>1, InitRefines, IInvHolds, PTL DEF Spec, ImplementsManagedHeap, Abstract!Spec
=============================================================================
