SPECIFICATION Spec
CONSTANTS
  a1 = a1
  a2 = a2
  t1 = t1
  t2 = t2
  t3 = t3
  Threads = {t1, t2, t3}
  Addresses = {a1, a2}
  NoAddress = NoAddress
  NoThread = NoThread
  Hash <- MCHash
  MaxLoadFactor = 1
  GrowthFactor = 1
  Timed = {t1}
  Unparkers = {t3}
  Walkers = {t3}
  MaxParks <- OneParkOfTwo
  MaxBuckets = 3
INVARIANTS
  NoStrandedThread
  QueuedOnlyWhileParked
  BucketsNotLeaked
  NoWaitCycle
  TimeoutVerdict
PROPERTIES
  ImplementsParkingQueue
CHECK_DEADLOCK FALSE
