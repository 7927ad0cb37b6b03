SPECIFICATION Spec
CONSTANTS
  a = a
  b = b
  c = c
  Tasks = {a, b, c}
  First = {a, b}
  Readers = {r}
  Kthreads = {k}
  Mms = {1, 2, 3}
  Files = {f, g}
  None = None
  MaxForks = 1
  MaxExecs = 1
  MaxMaps = 1
  MaxReads = 2
INVARIANTS Consistent ResourcesExact AccessChecked
SYMMETRY TaskSymmetry
CHECK_DEADLOCK FALSE
