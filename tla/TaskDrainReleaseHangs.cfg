SPECIFICATION FairSpec
CONSTANTS
  w = w
  a = a
  b = b
  k1 = k1
  k2 = k2
  Threads <- AllThreads
  Worker = w
  OwnerThreads <- OnlyOwner
  Tasks <- TwoTasks
  TaskBudget = 2
  Settings = {"up"}
  NoThread = NoThread
  NoTask = NoTask
PROPERTY
  ReleaseReturns
CHECK_DEADLOCK FALSE
