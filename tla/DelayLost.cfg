SPECIFICATION Spec
CONSTANTS
  c1 = c1
  Terminals <- MCTerminals
  Cpus = {c1}
  MaxBacklog = 2
PROPERTY DelayWritten
CHECK_DEADLOCK FALSE
