SPECIFICATION Spec
CONSTANTS
  init = init
  sh = sh
  p1 = p1
  p2 = p2
  Tasks = {init, sh, p1, p2}
  FirstTask = init
  SecondTask = sh
  Objects = {1, 2, 3, 4}
  NoObject = 0
  SecondFlagSets <- MCSecondFlagSets
  CloneFlagSets <- MCCloneFlagSets
  UnshareFlagSets <- MCUnshareFlagSets
  MaxThreads = 3
  NprocLimit = 3
  MaxCalls = 2
INVARIANTS Consistent UnwindsExactly SharingRules NoSurvivor LimitsUnlessOverlapped
SYMMETRY TaskSymmetry
CHECK_DEADLOCK FALSE
