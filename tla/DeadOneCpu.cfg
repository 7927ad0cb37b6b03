SPECIFICATION Spec
CONSTANTS
  CPUs = {c1}
  Home = c1
  Nodes = {n1, n2, n3}
  Node_head_ch = Node_head_ch
  Poison = Poison
  NoNode = NoNode
  Room = 1
  MaxDeaths = 4
  MaxCalls = 4
SYMMETRY NodeSymmetry
INVARIANTS
  PointersSound
  ReportedOnceInOrder
  NoLossUnlessRaced
CHECK_DEADLOCK FALSE
