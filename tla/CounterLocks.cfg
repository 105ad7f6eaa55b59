CONSTANT
  Iterations = 2
SPECIFICATION FairSpec
INVARIANTS TypeOK MutualExclusion CounterAtJoin PassedOnce
PROPERTY BothReturn
CHECK_DEADLOCK FALSE
