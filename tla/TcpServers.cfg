CONSTANTS
  MaxConns = 3
  MaxSends = 4
  MaxClients = 2
SPECIFICATION ServersSpec
INVARIANTS SlotsAgree Relayed
PROPERTY EachServed
CHECK_DEADLOCK FALSE
