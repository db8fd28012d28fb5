SPECIFICATION Spec
CONSTANTS
  Tasks = {t1}
  ExitCodes = {0}
  None = None
  Requested <- Requests
  DefaultTimeout = 3
  MaxTimeout = 2
  Retention = 1
  MaxChunks = 1
INVARIANTS Inv SnapshotMatchesHistory OutputComplete KillOnlyOnRequest NoStaleSender
PROPERTIES ResultRetained HistorySpec ImplementsShutdown
