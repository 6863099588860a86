SPECIFICATION RexmitSteadySpec
CONSTANTS
  Capacity = 12
  Width = 1000
  Zero = Zero
  NoPacket = NoPacket
  Session = {1}
  PSize <- SizesOne
  MaxNum = 9
  PipeCap = 5
PROPERTY
  AsksForMissing
CHECK_DEADLOCK FALSE
