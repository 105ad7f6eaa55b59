CONSTANTS
  c1 = c1
  c2 = c2
  Clients <- MCClients
  Parts <- MCParts
  MaxAddr = 2
  MaxTries = 2
  Reliable = TRUE
  EarlyAlarm = FALSE
  SendOutcomes = {"sent"}
SPECIFICATION ReliableSpec
INVARIANT OneSlotPerAddress
PROPERTY AllTransferred
CHECK_DEADLOCK FALSE
