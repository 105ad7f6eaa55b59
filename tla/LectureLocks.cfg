CONSTANTS
  Readers = {r1, r2, r3}
  Iterations = 2
  N = 4
  Meals = 2
SPECIFICATION EitherSpec
INVARIANTS TypesOK CountIsExact NeighboursApart OnlyCircleIsStuck
PROPERTIES ImplementsRwLock EachEnds
CHECK_DEADLOCK FALSE
