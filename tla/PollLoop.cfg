SPECIFICATION FairSpec
CONSTANTS
  c1 = c1
  c2 = c2
  Connectors <- TwoConnectors
  Backends <- AllBackends
  PipeSize = 2
  Timeouts <- OneToFour
  kMaxPollTimeoutMs = 2
  MaxLag = 2
  MaxTime = 3
INVARIANTS
  Punctual
PROPERTIES
  StopReturns
CHECK_DEADLOCK FALSE
