SPECIFICATION FairSteadySpec
CONSTANTS
  Capacity = 12
  Width = 1000
  Zero = Zero
  NoPacket = NoPacket
  Session = {1, 2, 3}
  PSize <- SizesWide
  MaxNum = 9
  PipeCap = 5
INVARIANTS
  NoFault
  AllAligned
  JobsCovered
  NothingPlayedEarly
PROPERTIES
  WindowForward
  RingIsSlidingWindow
  OwedIsPlayed
CHECK_DEADLOCK FALSE
