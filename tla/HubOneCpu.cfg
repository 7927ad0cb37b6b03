SPECIFICATION FairSpec
CONSTANTS
  CPUs = {c1}
  NumTerminals = 3
  Durations = {3}
  Interval = 2
  WORD = 4
  MaxJiffies = 3
  MaxPackets = 2
PROPERTIES ImplementsLedger EventuallyPublished
CHECK_DEADLOCK FALSE
