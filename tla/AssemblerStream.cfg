SPECIFICATION Spec
CONSTANTS
  MaxXid = 2
  MaxSubxact = 2
  MaxChange = 3
  MaxTables = 2
  MaxDrops = 2
CHECK_DEADLOCK FALSE
INVARIANTS
  TypeOK
  EmitsCommitted
  NoDesync
  NothingLeaks
  BufferFollowsRollbacks
