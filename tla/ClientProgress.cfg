SPECIFICATION FairSpec
CONSTANTS
  N = 2
  CommitStart <- MCCommitStart
  EndLsn <- MCEndLsn
  MaxPending = 1
  SaveModes = {"adhoc"}
  SaveLsns <- NoLsn
  MaySkipSave = FALSE
  Budget <- AllFaults
  InitialBackoff = 1
  MaxBackoff = 3
INVARIANTS
  NoLossUnlessStale
  PredecessorsProcessed
  FeedbackWithinUnlessStale
PROPERTIES
  EventuallyProcessed
  FeedbackCatchesUp
  ShutdownEnds
  ImplementsAtLeastOnce
