SPECIFICATION Spec
CONSTANTS
  s1 = s1
  MaxForks = 2
  CacheSlots = 1
  Signallers = {s1}
  MaxSignals = 1
INVARIANTS Consistent VforkSafe StacksExclusive HeldTasksExist
PROPERTY VforkReturns
CHECK_DEADLOCK FALSE
