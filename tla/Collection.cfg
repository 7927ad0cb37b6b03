SPECIFICATION Spec
CONSTANTS
  Hosts <- TwoHosts
  FirstCount = 1
  MaxResends = 2
  MaxFailures = 1
INVARIANT TypeOK
PROPERTIES RecordOfOneRound RoundEnds
CHECK_DEADLOCK FALSE
