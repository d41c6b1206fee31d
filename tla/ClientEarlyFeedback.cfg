SPECIFICATION Spec
CONSTANTS
  N = 2
  CommitStart <- MCCommitStart
  EndLsn <- MCEndLsn
  MaxPending = 1
  SaveModes = {"connection"}
  SaveLsns <- NoLsn
  MaySkipSave = FALSE
  Budget <- NoFaults
  InitialBackoff = 1
  MaxBackoff = 3
INVARIANTS
  FeedbackWithinCheckpoint
