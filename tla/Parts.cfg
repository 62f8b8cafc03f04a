SPECIFICATION Spec
CONSTANTS
  k1 = k1
  k2 = k2
  a1 = a1
  a2 = a2
  o1 = o1
  h1 = h1
  c1 = c1
  c2 = c2
  t1 = t1
  x1 = x1
  x2 = x2
  b1 = b1
  b2 = b2
  b3 = b3
  n1 = n1
  n2 = n2
  NULL = NULL
  Codecs <- TwoCodecs
  Addresses <- TwoAddresses
  Options <- OneOptions
  Handlers <- OneHandler
  Clients <- TwoClients
  Letters <- TwoLetters
  MaxHost = 4
  MaxName = 5
  PortsTried <- PortEdges
  LogThreads <- OneLogger
  LogCallbacks <- TwoLogCallbacks
  TRACE = 0
  ERROR = 2
  MaxSets = 3
  Slots <- TwoSlots
  Blocks <- ThreeBlocks
  Contents <- UpToThree
  SLICE_INLINED_SIZE = 1
  MaxSize = 3
  Conns <- TwoConns
  NoConn = NoConn
  Modulus = 4
  MaxRegistered = 5
  MaxEvents = 2
SYMMETRY Symmetry
INVARIANTS
  CodecOwnedOnce
  NothingFreedIsUsed
  ResolvesAsGiven
  LogCallbackGetsItsData
  NoStaleDelivery
  SlotsAccounted
PROPERTY
  ImplementsSliceValues
CHECK_DEADLOCK FALSE
