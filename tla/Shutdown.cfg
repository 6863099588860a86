SPECIFICATION FairSpec
CONSTANTS
  Program <- Programs
  MaxEvents = 2
INVARIANTS
  TypeOK
  StopReachesAll
PROPERTIES
  StopIsReached
CHECK_DEADLOCK FALSE
