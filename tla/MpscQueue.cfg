SPECIFICATION FairSpec
CONSTANTS
  p1 = p1
  p2 = p2
  p3 = p3
  n1 = n1
  n2 = n2
  n3 = n3
  Producers <- ThreeProducers
  Nodes <- ThreeNodes
  Stub = Stub
  Null = Null
INVARIANTS
  NoDanglingPointer
PROPERTIES
  ImplementsTaskFifo
  EmptyIsTrue
  PushedIsPopped
