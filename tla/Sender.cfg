SPECIFICATION FairSpec
CONSTANTS
  Capacity = 7
  Width = 1000
  Zero = Zero
  PSize = 2
  PipeCap = 2
  Wishes <- WishesMixed
  MaxNum = 4
  MaxJobs = 2
  MaxEvents = 2
INVARIANTS
  TypeOK
  CacheIsLatest
  BatchInQueue
  NoJobForgotten
PROPERTIES
  CacheIsSlidingWindow
  JobsAreServed
CHECK_DEADLOCK FALSE
