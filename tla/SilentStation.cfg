SPECIFICATION FairSpec
CONSTANTS
  Station = {1, 2, 3}
  NameOf <- Names
  Prio = "favourite"
  End = 0
  PipeCap = 2
  MaxEvents = 1
PROPERTIES
  SubscriptionCatchesUp
CHECK_DEADLOCK FALSE
