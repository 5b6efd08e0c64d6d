SPECIFICATION FairSpec
CONSTANTS
  t1 = t1
  t2 = t2
  t3 = t3
  Threads = {t1, t2, t3}
  NoThread = NoThread
  OwnTable = OwnTable
  NoTable = NoTable
  MaxScopes <- MCMaxScopes
INVARIANTS
  DropsAreOrdered
  LocksMatchScopes
  EntryIsOfThreadInside
PROPERTIES
  EveryScopeEnds
