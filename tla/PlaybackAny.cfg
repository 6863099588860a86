SPECIFICATION RexmitSpec
CONSTANTS
  Capacity = 8
  Width = 1000
  Zero = Zero
  NoPacket = NoPacket
  Session = {1, 2, 3, 4}
  PSize <- SizesAny
  MaxNum = 6
  PipeCap = 3
INVARIANTS
  TypeOK
  OneSession
  NothingBeforeByte0
  CursorsStayInRing
  OnlyOneSlotHangs
  RequestIsUnderstood
PROPERTIES
  AskedNearWindow
CHECK_DEADLOCK FALSE
