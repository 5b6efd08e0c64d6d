SPECIFICATION FairSpec
CONSTANTS
  c1 = c1  c2 = c2  c3 = c3  c4 = c4  c5 = c5  c6 = c6  c7 = c7  c8 = c8  c9 = c9
  r1 = r1  r2 = r2
  Cells <- MCCells
  Children <- MCChildren
  Roots <- MCRoots
  OpaqueRoots <- MCOpaqueRoots
  WeakHandles <- MCWeakHandles
  Harvesters <- MCHarvesters
  Helpers = {h1, h2}
  Master = m
  OpaqueRootMergeThreshold = 1
  MaxCycles = 2
INVARIANTS
  MarkingComplete
  EachCellVisitedOnce
  TerminationIsReal
PROPERTIES
  MarkingTerminates
