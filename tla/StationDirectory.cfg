SPECIFICATION OnAirSpec
CONSTANTS
  Station = {1, 2, 3}
  NameOf <- Names
  Prio = "favourite"
  End = 0
  PipeCap = 2
  MaxEvents = 1
INVARIANTS
  TypeOK
  CurrentIsListed
  ChangeIsAnnounced
PROPERTIES
  ChoiceIsJustified
  SubscriptionCatchesUp
CHECK_DEADLOCK FALSE
