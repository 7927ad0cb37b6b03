SPECIFICATION Spec
CONSTANTS
  CPUs = {c1, c2}
  Home = c1
  Nodes = {n1, n2}
  Node_head_ch = Node_head_ch
  Poison = Poison
  NoNode = NoNode
  Room = 2
  MaxDeaths = 2
  MaxCalls = 1
SYMMETRY NodeSymmetry
INVARIANT
  CircularList
CHECK_DEADLOCK FALSE
