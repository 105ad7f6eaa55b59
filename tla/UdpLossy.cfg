CONSTANTS
  c1 = c1
  c2 = c2
  Clients <- MCClients
  Parts <- MCParts
  MaxAddr = 1
  MaxTries = 1
  Reliable = FALSE
  EarlyAlarm = TRUE
  SendOutcomes = {"sent", "EPIPE", "error"}
SPECIFICATION FairSpec
INVARIANTS TypeOK ConfirmedIsPrinted PrintsInSequence
PROPERTIES ImplementsDelivery ClientsEnd
