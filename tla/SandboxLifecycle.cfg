SPECIFICATION FairSpec
CONSTANTS
  Procs = {p1, p2}
  None = None
  Configs <- AllConfigs
INVARIANTS Inv OwnSandbox LeftoversExplained
PROPERTY Recovers
