SPECIFICATION Spec
CONSTANTS
  Capacity = 8
  Width = 1000
  Zero = Zero
  NoPacket = NoPacket
  Session = {1, 2}
  PSize <- SizesFit
  MaxNum = 6
  PipeCap = 3
INVARIANT
  NoFault
CHECK_DEADLOCK FALSE
