SPECIFICATION FairSpec
CONSTANTS
  Tasks = {t1}
  ExitCodes = {0}
  None = None
  Requested <- NoTimeoutAsked
  DefaultTimeout = 3
  MaxTimeout = 1
  Retention = 1
  MaxChunks = 0
PROPERTIES WorkCompletes EntriesExpire
