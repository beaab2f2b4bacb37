SPECIFICATION Spec
CONSTANTS
  p1 = p1
  p2 = p2
  p3 = p3
  n1 = n1
  n2 = n2
  n3 = n3
  n4 = n4
  n5 = n5
  v1 = v1
  v2 = v2
  Producers <- MCProducers
  Node <- MCNode
  Value <- MCValue
  NoNode = NoNode
  NoValue = NoValue
SYMMETRY Symmetry
INVARIANTS
  NoDanglingAccess
  NodesAccounted
  ListIntact
PROPERTY RefinesMpscQueue
CHECK_DEADLOCK FALSE
