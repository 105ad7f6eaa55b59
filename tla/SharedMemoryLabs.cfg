CONSTANTS
  Procs = {p1, p2, p3}
  Ranges = {1, 2}
  Batches = 1
  Starts = 3
  Turns = 1
  MaxKills = 1
  Clients = {c1, c2}
  Fields = 2
  Players = 3
  Rounds = 2
  Samples = 3
SPECIFICATION LabSpec
INVARIANTS SemHeldOrLost ResultIsComplete SharedOnce
PROPERTY EachEnds
CHECK_DEADLOCK FALSE
