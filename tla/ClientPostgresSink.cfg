SPECIFICATION Spec
CONSTANTS
  N = 3
  CommitStart <- MCCommitStart
  EndLsn <- MCEndLsn
  MaxPending = 1
  SaveModes = {"connection"}
  SaveLsns <- NoLsn
  MaySkipSave = FALSE
  Budget <- SinkFaults
  InitialBackoff = 1
  MaxBackoff = 3
INVARIANTS
  AppliedOnceUnlessStale
