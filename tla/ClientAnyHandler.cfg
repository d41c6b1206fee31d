SPECIFICATION Spec
CONSTANTS
  N = 2
  CommitStart <- MCCommitStart
  EndLsn <- MCEndLsn
  MaxPending = 1
  SaveModes = {"adhoc", "connection"}
  SaveLsns <- AnyLsn
  MaySkipSave = TRUE
  Budget <- AllFaults
  InitialBackoff = 1
  MaxBackoff = 3
INVARIANTS
  TypeOK
  DispatchedInOrder
  AcknowledgedWasDispatched
PROPERTIES
  BackoffGrowsUntilSuccess
