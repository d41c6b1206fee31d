SPECIFICATION FairSpec
CONSTANTS
  Consumers = {c1, c2}
  Sinks = {c1}
  Nobody = nobody
  MaxLsn = 2
  MaxFailures = 2
  MaxCancels = 2
INVARIANTS
  AppliedMatchesRow
  PositionIsRow
  TableThereUnlessUndone
PROPERTIES
  EventuallySaved
CHECK_DEADLOCK FALSE
