SPECIFICATION ProgramFairSpec
CONSTANTS
  Tasks = {t1}
  ExitCodes = {0}
  None = None
  Requested <- Requests
  DefaultTimeout = 3
  MaxTimeout = 2
  Retention = 1
  MaxChunks = 0
PROPERTY ExecutionBounded
