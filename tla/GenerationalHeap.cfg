SPECIFICATION Spec
CONSTANTS
  a = a
  b = b
  a1 = a1
  a2 = a2
  b1 = b1
  Blocks = {a, b}
  Cells = {a1, a2, b1}
  BlockOf <- MCBlockOf
  NoBlock = NoBlock
  NoCell = NoCell
  MaxFreeToRetire = 1
  NeedsDestruction = TRUE
  BufferCapacity = 1
  Leaves = {b1}
  MaxRoots = 3
  MaxWeak = 1
SYMMETRY Symmetry
CHECK_DEADLOCK FALSE
INVARIANTS
  NoDanglingReferences
  RememberedSetComplete
  DestructorsOnObjects
  BlocksAccountedFor
  WeakHandlesValid
PROPERTIES
  ImplementsManagedHeap
