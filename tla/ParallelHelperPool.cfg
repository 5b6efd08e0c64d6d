SPECIFICATION FairSpec
CONSTANTS
  Clients = {c1, c2}
  MaxThreads = 3
  MaxTasks = 2
INVARIANTS
  FinishedMeansDone
  RunTaskAssertions
  NoSleepThroughTask
PROPERTIES
  FinishReturns
  ImplementsParallelTask
