CONSTANTS
  Students = 3
  Stages = 2
  Enough = 2
  Seats = 3
  MaxGames = 2
  Kids = {k1, k2}
  MaxInterrupts = 3
  Senders = 3
  Limit = 3
  Blocks = 2
  Size = 2
  Group = {c1, c2}
  Draws = {1, 10}
SPECIFICATION Spec
INVARIANTS PipesInStep SignalsCounted
PROPERTY EachRests
CHECK_DEADLOCK FALSE
