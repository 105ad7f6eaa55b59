CONSTANTS
  Procs = {p1, p2, p3}
  Ranges = {1}
  Batches = 1
SPECIFICATION Spec
INVARIANT InitIsExclusive
CHECK_DEADLOCK FALSE
