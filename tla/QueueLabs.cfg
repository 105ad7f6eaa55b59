CONSTANTS
  Capacity = 2
  Blocks = 3
  Burst = 2
  Children = {k1, k2, k3}
  LifeSpan = 2
  Hands = 2
  TasksEach = 2
  MaxMsgs = 2
  Ops = {"s", "m"}
  Clients = {c1, c2}
  Typed = 2
SPECIFICATION LabSpec
INVARIANTS NoneStranded NotifyNotBusy AnsweredOnce
PROPERTY EachRests
CHECK_DEADLOCK FALSE
