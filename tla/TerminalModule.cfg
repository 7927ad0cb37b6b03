SPECIFICATION Spec
CONSTANTS
  Contexts = {h1, h2}
  x1 = x1
  Conns = {x1}
  InitialSeq <- MCInitialSeq
  SEQ = 5
  WORD = 5
  MaxSegments = 3
  MaxResends = 2
INVARIANTS TypeOK CountsEveryResend ConnectedTracksTcp NeverOvercounts CleanUnload
SYMMETRY ContextSymmetry
CHECK_DEADLOCK FALSE
