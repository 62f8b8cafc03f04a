SPECIFICATION FairSpec
CONSTANTS
  t1 = t1
  t2 = t2
  Tasks <- TwoTasks
  Threads <- TwoThenOne
INVARIANTS
  StoppedIsQuiet
PROPERTIES
  PostedLeaves
  StopReturns
CHECK_DEADLOCK FALSE
