SPECIFICATION FairSpec
CONSTANTS
  NumConns = 3
  Slow = {1}
  MinClientId = 1
  MaxClients = 2
INVARIANTS
  TypeOK
  SlotsMatchClients
  InputIsCommand
PROPERTIES
  WorkingIsKept
  SeatsAreGiven
  GoneIsFreed
  ClientsCatchUp
CHECK_DEADLOCK FALSE
