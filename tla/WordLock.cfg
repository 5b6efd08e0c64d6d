SPECIFICATION FairSpec
CONSTANTS
  Threads = {t1, t2, t3}
  NoThread = NoThread
  SpinLimit = 1
INVARIANTS
  NoLostUpdate
  QueueIntegrity
PROPERTIES
  NoLostWakeUp
  ImplementsMutex
