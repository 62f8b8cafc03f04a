SPECIFICATION FairSpec
CONSTANTS
  s1 = s1
  Senders <- OneSender
  Backends <- AllBackends
  FrameSize = 2
  kParseMessageBudget = 1
  ReadMax = 4
  WriteMax = 3
  CacheSize = 3
  SendSize = 2
  MaxInput <- InputBound
  MaxSends = 2
  MaxSessions = 2
  MaxBacklog = 2
INVARIANTS
  NoStalledOutput
  NoForgottenInput
  WholeMessages
PROPERTIES
  FramesBeforeClose
  PeerCloseIsNoticed
CHECK_DEADLOCK FALSE
