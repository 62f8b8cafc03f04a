SPECIFICATION Spec
CONSTANTS
  w = w
  a = a
  b = b
  Callers <- TwoCallers
  WorkerThread = w
  MaxAttempts = 2
  MaxDisconnects = 1
  MaxBacklog = 2
  Timeout = TRUE
INVARIANT ConnectedToRequested
CHECK_DEADLOCK FALSE
