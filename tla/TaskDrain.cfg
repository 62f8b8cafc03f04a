SPECIFICATION FairSpec
CONSTANTS
  w = w
  a = a
  b = b
  k1 = k1
  k2 = k2
  Threads <- AllThreads
  Worker = w
  OwnerThreads <- OwnerOrSibling
  Tasks <- TwoTasks
  TaskBudget = 2
  Settings = {"up", "stopped", "buffered"}
  NoThread = NoThread
  NoTask = NoTask
INVARIANTS
  CountersExact
  SerialTasks
  FlagHasHolder
  NoTaskAfterRelease
PROPERTIES
  ImplementsSerialExecutor
  QueuedTasksLeave
  ReleaseReturnsOrStrands
  ReleaseTakesEffect
CHECK_DEADLOCK FALSE
