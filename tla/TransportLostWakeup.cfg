SPECIFICATION FairSpec
CONSTANTS
  Frames = 2
  FramePieces = 1
  InCap = 1
  OutCap = 1
  MaxDrops = 0
PROPERTIES
  ReadReturns
CHECK_DEADLOCK FALSE
