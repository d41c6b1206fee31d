SPECIFICATION FairSpec
CONSTANTS
  Frames = 3
  FramePieces = 2
  InCap = 2
  OutCap = 1
  MaxDrops = 1
INVARIANTS
  TypeOK
  NoStaleRegistration
PROPERTIES
  WriteEndsUnlessRobbed
  ReadReturnsUnlessRobbed
CHECK_DEADLOCK FALSE
