CONSTANTS
  Threads = {t1, t2}
  SizeofArray = 3
SPECIFICATION Spec
INVARIANTS AllCalculated
CHECK_DEADLOCK FALSE
