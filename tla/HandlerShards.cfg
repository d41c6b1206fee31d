SPECIFICATION FairSpec
CONSTANTS
  Inserts <- MCInserts
  ShardCount = 2
  ShardOf <- MCShardOf
  QueueMaxsize = 1
  MaxPending = 2
  Budget <- TwoDrops
CHECK_DEADLOCK FALSE
INVARIANTS
  SavedWasPublished
  EntityOrderUnlessFailed
  OvertakenWasRepeated
  FailuresAreOwn

  
