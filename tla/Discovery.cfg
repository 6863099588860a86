SPECIFICATION FairSpec
CONSTANTS
  Host = {"a", "b"}
  Announced <- Given
  Foreign <- Answers
  Period = 2
  Threshold = 8
  MaxDelay = 1
  MaxLoss = 2
INVARIANTS
  TypeOK
  OnlyStationsListed
PROPERTIES
  HeardIsKept
  UpIsListed
  GoneIsDropped
