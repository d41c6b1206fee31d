SPECIFICATION Spec
CONSTANTS
  N = 2
  CommitStart <- MCCommitStart
  EndLsn <- MCEndLsn
  MaxPending = 1
  SaveModes = {"adhoc"}
  SaveLsns <- NoLsn
  MaySkipSave = FALSE
  Budget <- OneDrop
  InitialBackoff = 1
  MaxBackoff = 3
INVARIANTS
  NoProtocolError
