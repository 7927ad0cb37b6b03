SPECIFICATION Spec
CONSTANTS
  c1 = c1
  Terminals <- MCTerminals
  Cpus = {c1}
  MaxBacklog = 2
INVARIANTS TypeOK ListsFromDifferences ModuleReads
PROPERTY SenderEnds
CHECK_DEADLOCK FALSE
