SPECIFICATION Spec
CONSTANTS
  Codecs <- MCCodecs
  Streams <- MCStreams
  StreamLength = 6
  StreamBytes = {0, 1, 3}
  Base = 4
  INT64_MAX = 13
  SIZE_MAX = 14
  kParseMessageBudget = 2
INVARIANT
  DelimiterLeftOut
CHECK_DEADLOCK FALSE
