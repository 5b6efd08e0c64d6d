-------------------------- MODULE GenerationalHeap --------------------------
(***************************************************************************)
(* Allocation and sweeping in marked blocks (MarkedAllocator, MarkedBlock, *)
(* MarkedSpace), generational collection with sticky mark bits, the write  *)
(* barrier and the remembered set (Heap, WriteBarrierBuffer), weak handles *)
(* (WeakSet, WeakBlock) and the IncrementalSweeper.                        *)
(*                                                                         *)
(* All of it runs on the thread that holds the VM's lock; what makes it    *)
(* hard is the number of half-finished states a block can be in when the   *)
(* next operation arrives.  Each call is cut into the steps between which  *)
(* the heap takes the next decision, and `phase' says which step is next.  *)
(*                                                                         *)
(* One allocator with cells of one size stands for all of them.  Each cell *)
(* has one slot for a reference and at most one weak handle.  How parallel *)
(* marking computes the set of marked cells is the subject of              *)
(* ParallelMarking; here it is one step.                                   *)
(***************************************************************************)
EXTENDS Naturals, FiniteSets, Sequences, SequencesExt

CONSTANTS Blocks,            \* the blocks that memory has room for
          Cells,             \* the cells of all of them
          BlockOf,           \* MarkedBlock::blockFor()
          NoBlock,           \* the null pointer to a block
          NoCell,            \* the null pointer to a cell
          MaxFreeToRetire,   \* at most so many free cells in a block that is retired
          NeedsDestruction,  \* whether the cells have destructors
          BufferCapacity,    \* of the write barrier buffer
          Leaves,            \* bound: cells whose objects refer to nothing
          MaxRoots,          \* bound: references the program holds at a time
          MaxWeak            \* bound: weak handles at a time

CellsOf(b) == {c \in Cells : BlockOf[c] = b}

ASSUME GenerationalHeapAssumption ==
  /\ IsFiniteSet(Cells)
  /\ BlockOf \in [Cells -> Blocks]
  /\ NoBlock \notin Blocks /\ NoCell \notin Cells
  /\ MaxFreeToRetire \in Nat
  /\ NeedsDestruction \in BOOLEAN
  /\ BufferCapacity \in Nat \ {0}
  /\ Leaves \in SUBSET Cells
  /\ MaxRoots \in Nat /\ MaxWeak \in Nat

VARIABLES
  \* MarkedAllocator: its two lists, the blocks it allocates in and stopped to, what
  \* m_nextBlockToSweep has still to go through (in an order left open), the free list
  blockList, retiredBlocks, currentBlock, lastActiveBlock, blocksToSweep, freeList,
  \* MarkedBlock: m_state ("absent" when there is no such block), m_marks of all
  \* blocks, and m_newlyAllocated, which is NoBitmap when there is none
  state, marks, newlyAllocated,
  \* the cells: what their memory holds, their CellState, their slot, their weak handle
  content, cellState, slot, weak,
  \* MarkedSpace and Heap
  blocksWithNewObjects, blockSnapshot, markStack, writeBarrierBuffer, operationInProgress,
  \* the program: the cells its stack refers to
  roots,
  \* control: the step that is next, and the number of tryAllocate() calls of the
  \* allocation in progress
  phase, attempt

allocator == <<blockList, retiredBlocks, currentBlock, lastActiveBlock, blocksToSweep, freeList>>
bits      == <<state, marks, newlyAllocated>>
cells     == <<content, cellState, slot, weak>>
heap      == <<blocksWithNewObjects, blockSnapshot, markStack, writeBarrierBuffer,
               operationInProgress>>
control   == <<phase, attempt>>
vars      == <<allocator, bits, cells, heap, roots, control>>

BlockStates == {"New", "FreeListed", "Allocated", "Marked", "Retired"}
NoBitmap    == {NoCell}

\* The blocks that exist.
Space == {b \in Blocks : state[b] # "absent"}

MarkedOrNewlyAllocated(c) == c \in marks \/ c \in newlyAllocated[BlockOf[c]]

\* MarkedBlock::isLive(); the states New and FreeListed are not expected there.
IsLive(c) ==
  \/ state[BlockOf[c]] = "Allocated"
  \/ state[BlockOf[c]] \in {"Marked", "Retired"} /\ MarkedOrNewlyAllocated(c)

LiveCells == {c \in Cells : IsLive(c)}

Init ==
  /\ blockList = {} /\ retiredBlocks = {} /\ blocksToSweep = {}
  /\ currentBlock = NoBlock /\ lastActiveBlock = NoBlock
  /\ freeList = {}
  /\ state = [b \in Blocks |-> "absent"]
  /\ marks = {}
  /\ newlyAllocated = [b \in Blocks |-> NoBitmap]
  /\ content = [c \in Cells |-> "garbage"]
  /\ cellState = [c \in Cells |-> "NewWhite"]
  /\ slot = [c \in Cells |-> NoCell]
  /\ weak = [c \in Cells |-> "none"]
  /\ blocksWithNewObjects = {} /\ blockSnapshot = {}
  /\ markStack = {} /\ writeBarrierBuffer = <<>>
  /\ operationInProgress = "NoOperation"
  /\ roots = {}
  /\ phase = "mutator" /\ attempt = 0
-----------------------------------------------------------------------------
(* Sweeping a block.                                                       *)

\* Fault: the sweep looks at the mark bits only.
DeadInUnmarked(b) == {c \in CellsOf(b) : state[b] = "Marked" => c \notin marks}

\* The cells that a sweep of block b finds dead: all of a new block.
DeadIn(b) ==
  {c \in CellsOf(b) : state[b] = "Marked" => ~MarkedOrNewlyAllocated(c)}

\* WeakSet::sweep() of the blocks B: the finalizers of dead handles run.
SweptWeak(B) ==
  [c \in Cells |-> IF BlockOf[c] \in B /\ weak[c] = "Dead" THEN "none" ELSE weak[c]]

Filled(S, value) == [c \in Cells |-> IF c \in S THEN value ELSE content[c]]

(***************************************************************************)
(* sweep(SweepToFreeList): the dead cells are destroyed and linked into a  *)
(* free list, which overwrites their first word.                           *)
(***************************************************************************)
SweepToFreeList(b) ==
  /\ weak' = SweptWeak({b})
  /\ newlyAllocated' = [newlyAllocated EXCEPT ![b] = NoBitmap]
  /\ UNCHANGED <<marks, cellState, slot>>

\* MarkedBlock::isEmpty(), for a block whose weak set was just swept.
IsEmptyBlock(b) ==
  \A c \in CellsOf(b) : weak[c] # "Live" /\ ~MarkedOrNewlyAllocated(c)

\* MarkedSpace::freeBlock() and MarkedAllocator::removeBlock(), for the blocks B.
FreeBlocks(B) ==
  /\ blockList' = blockList \ B
  /\ blocksToSweep' = blocksToSweep \ B
  /\ state' = [b \in Blocks |-> IF b \in B THEN "absent" ELSE state[b]]
  /\ newlyAllocated' = [b \in Blocks |-> IF b \in B THEN NoBitmap ELSE newlyAllocated[b]]
  /\ UNCHANGED <<retiredBlocks, currentBlock, lastActiveBlock, freeList, marks>>
-----------------------------------------------------------------------------
(* Allocation.                                                             *)

\* The head of the free list becomes an object, which the program refers to.
PopFreeList(c) ==
  /\ c \in freeList /\ Cardinality(roots) < MaxRoots
  /\ freeList' = freeList \ {c}
  /\ content' = [content EXCEPT ![c] = "object"]
  /\ roots' = roots \cup {c}
  /\ UNCHANGED <<blockList, retiredBlocks, currentBlock, lastActiveBlock, blocksToSweep,
                 cellState, slot, weak, bits>>

\* MarkedAllocator::allocate(), the fast path, which the JITs inline.
Allocate(c) ==
  /\ phase = "mutator"
  /\ PopFreeList(c)
  /\ UNCHANGED <<heap, control>>

\* allocateSlowCase() up to the loop of its first tryAllocate(): the block is used up.
AllocateSlowCase ==
  /\ phase = "mutator" /\ freeList = {} /\ Cardinality(roots) < MaxRoots
  /\ phase' = "trying" /\ attempt' = 1
  /\ IF currentBlock # NoBlock
     THEN /\ state' = [state EXCEPT ![currentBlock] = "Allocated"]
          /\ blocksToSweep' = blocksToSweep \ {currentBlock}
          /\ currentBlock' = NoBlock
     ELSE UNCHANGED <<state, blocksToSweep, currentBlock>>
  /\ UNCHANGED <<blockList, retiredBlocks, lastActiveBlock, freeList, marks,
                 newlyAllocated, cells, heap, roots>>

\* tryAllocateHelper() finds a block with free cells.
UseBlock(b) ==
  /\ phase = "trying" /\ b \in blocksToSweep /\ DeadIn(b) # {}
  /\ SweepToFreeList(b)
  /\ content' = Filled(DeadIn(b), "garbage")
  /\ state' = [state EXCEPT ![b] = "FreeListed"]
  /\ currentBlock' = b /\ freeList' = DeadIn(b)
  /\ phase' = "found"
  /\ UNCHANGED <<blockList, retiredBlocks, lastActiveBlock, blocksToSweep,
                 heap, roots, attempt>>

\* Fault: the free cells of a retired block are not zapped.
RetireBlockUnzapped(b) ==
  /\ phase = "trying" /\ b \in blocksToSweep
  /\ Cardinality(DeadIn(b)) <= MaxFreeToRetire /\ DeadIn(b) # CellsOf(b)
  /\ SweepToFreeList(b)
  /\ content' = Filled(DeadIn(b), "garbage")
  /\ state' = [state EXCEPT ![b] = "Retired"]
  /\ blocksToSweep' = blocksToSweep \ {b}
  /\ blockList' = blockList \ {b}
  /\ retiredBlocks' = retiredBlocks \cup {b}
  /\ UNCHANGED <<currentBlock, lastActiveBlock, freeList, heap, roots, control>>

(***************************************************************************)
(* tryAllocateHelper() retires a block that is nearly full.  Its free      *)
(* cells are zapped.  Utilization is a ratio of bytes: here, a block with  *)
(* few free cells may count as full, one with none does, and one that has  *)
(* only free cells does not.                                               *)
(***************************************************************************)
RetireBlock(b) ==
  /\ phase = "trying" /\ b \in blocksToSweep
  /\ Cardinality(DeadIn(b)) <= MaxFreeToRetire /\ DeadIn(b) # CellsOf(b)
  /\ SweepToFreeList(b)
  /\ content' = Filled(DeadIn(b), "zapped")
  /\ state' = [state EXCEPT ![b] = "Retired"]
  /\ blocksToSweep' = blocksToSweep \ {b}
  /\ blockList' = blockList \ {b}
  /\ retiredBlocks' = retiredBlocks \cup {b}
  /\ UNCHANGED <<currentBlock, lastActiveBlock, freeList, heap, roots, control>>

\* tryAllocateHelper() takes the first cell of the block it found.
AllocateInBlock(c) ==
  /\ phase = "found"
  /\ PopFreeList(c)
  /\ blocksWithNewObjects' = blocksWithNewObjects \cup {currentBlock}
  /\ phase' = "mutator" /\ attempt' = 0
  /\ UNCHANGED <<blockSnapshot, markStack, writeBarrierBuffer,
                 operationInProgress>>

\* allocateSlowCase() when tryAllocate() found nothing: a new block is added.
AddBlock(b) ==
  /\ phase = "trying" /\ blocksToSweep = {} /\ attempt < 3
  /\ b \notin Space
  /\ state' = [state EXCEPT ![b] = "New"]
  /\ content' = Filled(CellsOf(b), "garbage")
  /\ blockList' = blockList \cup {b}
  /\ blocksToSweep' = {b}
  /\ attempt' = 3
  /\ UNCHANGED <<retiredBlocks, currentBlock, lastActiveBlock, freeList, marks,
                 newlyAllocated, cellState, slot, weak, heap, roots, phase>>
-----------------------------------------------------------------------------
(* The program: references, the write barrier, weak handles.               *)

\* Heap::addToRememberedSet() for the cells S.
Remember(S) ==
  /\ cellState' = [c \in Cells |-> IF c \in S THEN "OldGrey" ELSE cellState[c]]
  /\ markStack' = markStack \cup S

Black(S) == {c \in S : cellState[c] = "OldBlack"}

\* Heap::writeBarrier(from, to), of the runtime's C++ code.
WriteBarrier(from, to) ==
  /\ Remember(IF to # NoCell /\ cellState[to] = "NewWhite" THEN Black({from}) ELSE {})
  /\ UNCHANGED writeBarrierBuffer

\* Fault: a full buffer is reused without being flushed.
StoreToWriteBarrierBufferOverwrites(from) ==
  /\ writeBarrierBuffer' = IF cellState[from] = "OldBlack" THEN <<from>> ELSE writeBarrierBuffer
  /\ UNCHANGED <<cellState, markStack>>

\* The barrier of compiled code: the cell goes to the buffer, which is flushed when full.
StoreToWriteBarrierBuffer(from) ==
  IF cellState[from] # "OldBlack" THEN UNCHANGED <<cellState, markStack, writeBarrierBuffer>>
  ELSE IF Len(writeBarrierBuffer) < BufferCapacity
  THEN /\ writeBarrierBuffer' = Append(writeBarrierBuffer, from)
       /\ UNCHANGED <<cellState, markStack>>
  ELSE /\ Remember(Black(ToSet(writeBarrierBuffer)))
       /\ writeBarrierBuffer' = <<from>>

Store(from, to) ==
  /\ phase = "mutator"
  /\ from \in roots \ Leaves /\ to \in (roots \ {from}) \cup {NoCell}
  /\ slot' = [slot EXCEPT ![from] = to]
  /\ WriteBarrier(from, to) \/ StoreToWriteBarrierBuffer(from)
  /\ UNCHANGED <<allocator, bits, content, weak, blocksWithNewObjects,
                 blockSnapshot, operationInProgress, roots, control>>

Hold(c) ==
  /\ Cardinality(roots) < MaxRoots
  /\ roots' = roots \cup {c}
  /\ UNCHANGED <<allocator, bits, cells, heap, control>>

Load(from) ==
  /\ phase = "mutator"
  /\ from \in roots /\ slot[from] \notin roots \cup {NoCell}
  /\ Hold(slot[from])

Drop(c) ==
  /\ phase = "mutator"
  /\ c \in roots
  /\ roots' = roots \ {c}
  /\ UNCHANGED <<allocator, bits, cells, heap, control>>

\* WeakSet::allocate().
MakeWeak(c) ==
  /\ phase = "mutator"
  /\ c \in roots /\ weak[c] = "none"
  /\ Cardinality({d \in Cells : weak[d] # "none"}) < MaxWeak
  /\ weak' = [weak EXCEPT ![c] = "Live"]
  /\ UNCHANGED <<allocator, bits, content, cellState, slot, heap, roots, control>>

\* Weak::get(): null unless the handle is live.
GetWeak(c) ==
  /\ phase = "mutator"
  /\ weak[c] = "Live" /\ c \notin roots
  /\ Hold(c)

\* WeakSet::deallocate(), by the owner of the handle.
ClearWeak(c) ==
  /\ phase = "mutator"
  /\ weak[c] # "none"
  /\ weak' = [weak EXCEPT ![c] = "none"]
  /\ UNCHANGED <<allocator, bits, content, cellState, slot, heap, roots, control>>
-----------------------------------------------------------------------------
(* Stopping and resuming allocation; iterating over the heap.              *)

\* Fault: the cells that were handed out are not recorded.
StopAllocatingWithoutBitmap ==
  /\ IF currentBlock # NoBlock
     THEN /\ content' = Filled(freeList, "zapped")
          /\ state' = [state EXCEPT ![currentBlock] = "Marked"]
          /\ lastActiveBlock' = currentBlock
     ELSE UNCHANGED <<content, state, lastActiveBlock>>
  /\ currentBlock' = NoBlock /\ freeList' = {}
  /\ UNCHANGED <<blockList, retiredBlocks, blocksToSweep, marks, newlyAllocated>>

(***************************************************************************)
(* MarkedAllocator::stopAllocating(): the cells that were handed out since *)
(* the sweep are not marked, so a bitmap tells them from the free ones,    *)
(* which are zapped.                                                       *)
(***************************************************************************)
StopAllocating ==
  /\ IF currentBlock # NoBlock
     THEN /\ newlyAllocated' = [newlyAllocated EXCEPT ![currentBlock] =
                                  CellsOf(currentBlock) \ freeList]
          /\ content' = Filled(freeList, "zapped")
          /\ state' = [state EXCEPT ![currentBlock] = "Marked"]
          /\ lastActiveBlock' = currentBlock
     ELSE UNCHANGED <<newlyAllocated, content, state, lastActiveBlock>>
  /\ currentBlock' = NoBlock /\ freeList' = {}
  /\ UNCHANGED <<blockList, retiredBlocks, blocksToSweep, marks>>

WillStartIterating ==
  /\ phase = "mutator"
  /\ StopAllocating
  /\ phase' = "iterating"
  /\ UNCHANGED <<cellState, slot, weak, heap, roots, attempt>>

\* forEachLiveCell(): the visitor keeps a cell that it is shown.
ForEachLiveCell(c) ==
  /\ phase = "iterating"
  /\ IsLive(c) /\ c \notin roots
  /\ Hold(c)

\* MarkedAllocator::resumeAllocating(): the free list is built again.
DidFinishIterating ==
  /\ phase = "iterating"
  /\ phase' = "mutator"
  /\ IF lastActiveBlock # NoBlock
     THEN /\ SweepToFreeList(lastActiveBlock)
          /\ content' = Filled(DeadIn(lastActiveBlock), "garbage")
          /\ state' = [state EXCEPT ![lastActiveBlock] = "FreeListed"]
          /\ freeList' = DeadIn(lastActiveBlock)
     ELSE UNCHANGED <<bits, cells, freeList>>
  /\ currentBlock' = lastActiveBlock /\ lastActiveBlock' = NoBlock
  /\ UNCHANGED <<blockList, retiredBlocks, blocksToSweep, heap, roots,
                 attempt>>
-----------------------------------------------------------------------------
(* Collection.                                                             *)

(***************************************************************************)
(* collectImpl() up to marking.  It is called by a timer, by               *)
(* collectAllGarbage(), or by an allocation that found no free cell.       *)
(***************************************************************************)
StartCollection(type) ==
  /\ \/ phase = "mutator"
     \/ phase = "trying" /\ blocksToSweep = {} /\ attempt = 1
  /\ operationInProgress' = type
  /\ StopAllocating
  /\ IF type = "EdenCollection"
     THEN Remember(Black(ToSet(writeBarrierBuffer)))
     ELSE UNCHANGED <<cellState, markStack>>
  /\ writeBarrierBuffer' = <<>>
  /\ phase' = "marking"
  /\ UNCHANGED <<slot, weak, blocksWithNewObjects, blockSnapshot, roots, attempt>>

Full == operationInProgress = "FullCollection"

\* The words on the stack that look like references to a live cell.
ConservativeRoots(words) == {c \in words : IsLive(c)}

(***************************************************************************)
(* The cells that marking visits, when it starts with the cells `grey' and *)
(* the cells in `old' are marked already: it does not go through those.    *)
(***************************************************************************)
Visited(grey, old) ==
  LET closed == {S \in SUBSET Cells :
                   grey \subseteq S /\ \A c \in S : slot[c] \in S \cup old \cup {NoCell}}
  IN {c \in Cells : \A S \in closed : c \in S}

(***************************************************************************)
(* markRoots().  The stack is scanned before the mark bits are cleared: a  *)
(* full collection clears all of them, an eden collection none.  `words'   *)
(* are the words on the stack, also those that are no references.  The     *)
(* code blocks that are executing are remembered again at the end.         *)
(***************************************************************************)
MarkRoots(words, executing) ==
  LET old     == IF Full THEN {} ELSE marks
      grey    == (IF Full THEN {} ELSE markStack) \cup (ConservativeRoots(words) \ old)
      visited == Visited(grey, old)
  IN /\ marks' = old \cup visited
     /\ cellState' = [c \in Cells |->
          IF c \in executing THEN "OldGrey" ELSE IF c \in visited THEN "OldBlack"
          ELSE IF c \in old THEN cellState[c] ELSE "NewWhite"]
     /\ markStack' = executing
     /\ slot' = [c \in Cells |-> IF c \in marks' THEN slot[c] ELSE NoCell]

\* clearLivenessData() without the mark bits.
ClearLivenessData ==
  /\ newlyAllocated' = [b \in Blocks |->
       IF b = lastActiveBlock THEN NoBitmap ELSE newlyAllocated[b]]
  /\ state' = [b \in Blocks |-> IF \/ Full /\ b \in Space
                                   \/ b \in blocksWithNewObjects /\ state[b] # "Retired"
                                THEN "Marked" ELSE state[b]]

\* Fault: a full collection reaps as an eden collection does.
ReapWeakSetsOfNewObjects ==
  weak' = [c \in Cells |->
    IF weak[c] = "Live" /\ BlockOf[c] \in blocksWithNewObjects /\ c \notin marks'
    THEN "Dead" ELSE weak[c]]

\* reapWeakHandles(), after marking.
ReapWeakSets ==
  LET reaped == IF Full THEN Blocks ELSE blocksWithNewObjects
  IN weak' = [c \in Cells |-> IF weak[c] = "Live" /\ BlockOf[c] \in reaped /\ c \notin marks'
                              THEN "Dead" ELSE weak[c]]

\* snapshotMarkedSpace(): the sweeper's work.
SnapshotMarkedSpace ==
  blockSnapshot' = IF Full THEN Space ELSE blockSnapshot \cup blocksWithNewObjects

ResetAllocators ==
  /\ IF Full THEN blockList' = blockList \cup retiredBlocks /\ retiredBlocks' = {}
     ELSE UNCHANGED <<blockList, retiredBlocks>>
  /\ blocksToSweep' = blockList'
  /\ currentBlock' = NoBlock /\ lastActiveBlock' = NoBlock /\ freeList' = {}
  /\ blocksWithNewObjects' = {}

(***************************************************************************)
(* The rest of collectImpl().  Allocation then tries again, and            *)
(* collectAllGarbage() goes on to sweep.                                   *)
(***************************************************************************)
FinishCollection(words, executing) ==
  /\ phase = "marking"
  /\ ClearLivenessData
  /\ MarkRoots(words, executing)
  /\ ReapWeakSets
  /\ SnapshotMarkedSpace
  /\ ResetAllocators
  /\ operationInProgress' = "NoOperation"
  /\ IF attempt = 1 THEN phase' = "trying" /\ attempt' = 2
     ELSE /\ phase' \in {"mutator"} \cup (IF Full THEN {"sweeping"} ELSE {})
          /\ UNCHANGED attempt
  /\ UNCHANGED <<content, writeBarrierBuffer, roots>>

Emptied(B) == {b \in B : IsEmptyBlock(b)}

(***************************************************************************)
(* sweep(SweepOnly) and freeOrShrinkBlock() for the blocks B: destructors  *)
(* run and leave the cells zapped, a block whose cells have none only has  *)
(* its weak set swept, and a block without live cells is freed.            *)
(***************************************************************************)
SweepAndShrink(B) ==
  /\ weak' = SweptWeak(B)
  /\ content' = [c \in Cells |->
       IF BlockOf[c] \in Emptied(B) THEN "garbage"
       ELSE IF NeedsDestruction /\ BlockOf[c] \in B /\ c \in DeadIn(BlockOf[c]) THEN "zapped"
       ELSE content[c]]
  /\ FreeBlocks(Emptied(B))
  /\ UNCHANGED <<cellState, slot, blocksWithNewObjects, markStack,
                 writeBarrierBuffer, operationInProgress, roots, attempt>>

\* Fault: IncrementalSweeper::willFinishSweeping() is not called.
SweepAllWithSnapshot ==
  /\ phase = "sweeping"
  /\ SweepAndShrink(Space)
  /\ UNCHANGED blockSnapshot
  /\ phase' = "mutator"

\* The second half of collectAndSweep(); the sweeper has nothing left to do.
SweepAll ==
  /\ phase = "sweeping"
  /\ SweepAndShrink(Space)
  /\ blockSnapshot' = {}
  /\ phase' = "mutator"

(***************************************************************************)
(* IncrementalSweeper::sweepNextBlock(): it takes blocks from the snapshot *)
(* until it has swept one; those that allocation has swept are skipped.    *)
(***************************************************************************)
SweepNextBlock(b, skipped) ==
  /\ phase = "mutator"
  /\ b \in blockSnapshot /\ state[b] = "Marked"
  /\ \A a \in skipped : state[a] # "Marked"
  /\ SweepAndShrink({b})
  /\ blockSnapshot' = blockSnapshot \ (skipped \cup {b})
  /\ UNCHANGED <<phase>>

\* sweepNextBlock() when none of the blocks that are left needs sweeping.
FinishSweeping ==
  /\ phase = "mutator"
  /\ blockSnapshot # {} /\ \A b \in blockSnapshot : state[b] # "Marked"
  /\ blockSnapshot' = {}
  /\ UNCHANGED <<allocator, bits, cells, blocksWithNewObjects, markStack,
                 writeBarrierBuffer, operationInProgress, roots, control>>

(***************************************************************************)
(* lastChanceToFinalize(), when the VM is destroyed and nothing runs in it *)
(* any more: every handle is finalized and every destructor runs.          *)
(***************************************************************************)
LastChanceToFinalize ==
  /\ phase = "mutator" /\ roots = {}
  /\ phase' = "finalized"
  /\ blockList' = blockList \cup retiredBlocks /\ retiredBlocks' = {}
  /\ currentBlock' = NoBlock /\ freeList' = {} /\ lastActiveBlock' = currentBlock
  /\ state' = [b \in Blocks |-> IF b \in Space THEN "Marked" ELSE "absent"]
  /\ marks' = {} /\ newlyAllocated' = [b \in Blocks |-> NoBitmap]
  /\ weak' = [c \in Cells |-> "none"]
  /\ slot' = [c \in Cells |-> NoCell] /\ cellState' = [c \in Cells |-> "NewWhite"]
  /\ content' = IF NeedsDestruction THEN Filled({c \in Cells : BlockOf[c] \in Space}, "zapped")
                ELSE Filled(freeList, "zapped")
  /\ UNCHANGED <<blocksToSweep, heap, roots, attempt>>
-----------------------------------------------------------------------------
Allocation ==
  \/ AllocateSlowCase
  \/ \E c \in Cells : Allocate(c) \/ AllocateInBlock(c)
  \/ \E b \in Blocks : UseBlock(b) \/ RetireBlock(b) \/ AddBlock(b)

Program ==
  \/ \E from \in Cells, to \in Cells \cup {NoCell} : Store(from, to)
  \/ \E c \in Cells : Load(c) \/ Drop(c) \/ MakeWeak(c) \/ GetWeak(c) \/ ClearWeak(c)

Iteration ==
  \/ WillStartIterating \/ DidFinishIterating
  \/ \E c \in Cells : ForEachLiveCell(c)

Collection ==
  \/ \E type \in {"EdenCollection", "FullCollection"} : StartCollection(type)
  \/ \E junk \in SUBSET (LiveCells \ roots), executing \in SUBSET roots :
       FinishCollection(roots \cup junk, executing)
  \/ LastChanceToFinalize

Sweeping ==
  \/ SweepAll \/ FinishSweeping
  \/ \E b \in blockSnapshot : \E skipped \in SUBSET (blockSnapshot \ {b}) :
       SweepNextBlock(b, skipped)

Next == Allocation \/ Program \/ Iteration \/ Collection \/ Sweeping

Spec == Init /\ [][Next]_vars
-----------------------------------------------------------------------------
TypeOK ==
  /\ blockList \in SUBSET Blocks /\ retiredBlocks \in SUBSET Blocks
  /\ blocksToSweep \in SUBSET Blocks
  /\ currentBlock \in Blocks \cup {NoBlock} /\ lastActiveBlock \in Blocks \cup {NoBlock}
  /\ freeList \in SUBSET Cells
  /\ state \in [Blocks -> BlockStates \cup {"absent"}]
  /\ marks \in SUBSET Cells
  /\ newlyAllocated \in [Blocks -> (SUBSET Cells) \cup {NoBitmap}]
  /\ content \in [Cells -> {"object", "garbage", "zapped"}]
  /\ cellState \in [Cells -> {"NewWhite", "OldBlack", "OldGrey"}]
  /\ slot \in [Cells -> Cells \cup {NoCell}]
  /\ weak \in [Cells -> {"none", "Live", "Dead"}]
  /\ blocksWithNewObjects \in SUBSET Blocks /\ blockSnapshot \in SUBSET Blocks
  /\ markStack \in SUBSET Cells
  /\ writeBarrierBuffer \in Seq(Cells) /\ Len(writeBarrierBuffer) <= BufferCapacity
  /\ operationInProgress \in {"NoOperation", "EdenCollection", "FullCollection"}
  /\ roots \in SUBSET Cells
  /\ phase \in {"mutator", "trying", "found", "iterating", "marking", "sweeping", "finalized"}
  /\ attempt \in 0..3

\* The objects that the collector has not found to be garbage.
Kept ==
  {c \in Cells : \/ IsLive(c)
                 \/ state[BlockOf[c]] = "FreeListed" /\ c \notin freeList}

(***************************************************************************)
(* No reference dangles: what the program holds, and what an object that   *)
(* is kept refers to, is an object that is kept, whatever collections,     *)
(* sweeps and iterations came in between.                                  *)
(***************************************************************************)
NoDanglingReferences ==
  LET kept == Kept
  IN /\ roots \subseteq kept
     /\ \A c \in kept : content[c] = "object" /\ slot[c] \in kept \cup {NoCell}

(***************************************************************************)
(* The remembered set is complete: an old object that refers to a new one  *)
(* is on the mark stack or in the barrier's buffer, so that the next eden  *)
(* collection visits it although it is marked; and an object that is grey, *)
(* whose barriers do nothing, is on the mark stack.                        *)
(***************************************************************************)
RememberedSetComplete ==
  operationInProgress # "FullCollection" =>
    \A c \in marks :
      /\ cellState[c] = "OldGrey" => c \in markStack
      /\ slot[c] \notin marks \cup {NoCell} => c \in markStack \cup ToSet(writeBarrierBuffer)

(***************************************************************************)
(* A destructor never runs on the remains of a free list: in a block that  *)
(* may be swept, every dead cell is an object or was zapped; and in a      *)
(* block that is used up every cell is an object.                          *)
(***************************************************************************)
DestructorsOnObjects ==
  \A c \in Cells :
    /\ state[BlockOf[c]] \in {"Marked", "Retired"} => content[c] # "garbage"
    /\ state[BlockOf[c]] = "Allocated" => content[c] = "object"

(***************************************************************************)
(* The blocks are accounted for: each is in one of the two lists, a block  *)
(* that was allocated in since the last collection is among the blocks     *)
(* with new objects, which is what the assertions of clearMarks() rely on, *)
(* the blocks that an allocation has yet to try need sweeping, and no      *)
(* pointer to a block, the sweeper's snapshot included, outlives it.       *)
(***************************************************************************)
BlocksAccountedFor ==
  /\ blockList \cup retiredBlocks = Space /\ blockList \cap retiredBlocks = {}
  /\ \A b \in Space :
       /\ state[b] = "Retired" <=> b \in retiredBlocks
       /\ state[b] = "Allocated" => b \in blocksWithNewObjects
       /\ state[b] = "FreeListed" <=> b = currentBlock
  /\ blocksToSweep \subseteq blockList
  /\ blocksWithNewObjects \cup blockSnapshot
       \cup ({currentBlock, lastActiveBlock} \ {NoBlock}) \subseteq Space
  /\ currentBlock # NoBlock => currentBlock \in blocksToSweep
  /\ phase = "trying" => /\ \A b \in blocksToSweep : state[b] \in {"New", "Marked"}
                         /\ attempt = 3 => blocksToSweep # {}

(***************************************************************************)
(* A weak handle that is live refers to an object that is kept, and one    *)
(* that is dead to an object that is not and that is still there for its   *)
(* finalizer to look at.                                                   *)
(***************************************************************************)
WeakHandlesValid ==
  LET kept == Kept
  IN \A c \in Cells :
       /\ weak[c] = "Live" => c \in kept
       /\ weak[c] = "Dead" => c \notin kept /\ content[c] = "object"

Abstract == INSTANCE ManagedHeap WITH
  objects <- {c \in Cells : content[c] = "object"},
  condemned <- {c \in Cells : content[c] = "object"} \ Kept,
  refers <- slot,
  held <- roots

(***************************************************************************)
(* The heap implements ManagedHeap: only objects that the program has lost *)
(* are destroyed, and a cell is handed out only when it holds none.        *)
(***************************************************************************)
ImplementsManagedHeap == Abstract!Spec
=============================================================================
