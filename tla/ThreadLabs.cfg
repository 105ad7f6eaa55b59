CONSTANTS
  N = 4
  Printers = {p1, p2}
  Signals = 3
  Threads = {t1, t2}
  Balls = 3
  Bins = 2
  SizeofArray = 3
  Workers = 2
  MaxSize = 5
  MaxParts = 3
SPECIFICATION LabSpec
INVARIANTS PrintsPermutation EveryTaskOnce
PROPERTIES EachEnds
CHECK_DEADLOCK FALSE
