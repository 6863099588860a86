SPECIFICATION Spec
CONSTANTS
  Capacity = 6
  Width = 1000
  Zero = Zero
  PSize = 2
  PipeCap = 1
  Wishes <- WishesMixed
  MaxNum = 4
  MaxJobs = 2
  MaxEvents = 2
PROPERTIES
  RequestedIsResent
CHECK_DEADLOCK FALSE
