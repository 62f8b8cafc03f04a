SPECIFICATION FairSpec
CONSTANTS
  w = w
  a = a
  b = b
  Callers <- TwoCallers
  WorkerThread = w
  MaxAttempts = 2
  MaxDisconnects = 1
  MaxBacklog = 2
  Timeout = TRUE
INVARIANTS
  ConnectedAgrees
  NoOrphanSocket
PROPERTIES
  CallbackOrder
  OnlyItsOwnEvents
  ConnectAnswered
CHECK_DEADLOCK FALSE
