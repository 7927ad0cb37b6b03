SPECIFICATION Spec
CONSTANTS
  CPUs = {c1, c2}
  NumTerminals = 2
  Durations = {1}
  Interval = 1
  WORD = 16
  MaxJiffies = 2
  MaxPackets = 2
INVARIANTS TypeOK AirNeverOvercounted AirtimeConserved IdleTimeExact CleanUnload
PROPERTIES MonotoneUnlessOverlap
SYMMETRY CPUSymmetry
CHECK_DEADLOCK FALSE
