SPECIFICATION FairSpec
CONSTANTS
  Conns = {c1}
  Streams = {"stdout"}
  Buf = 1
  None = None
CHECK_DEADLOCK FALSE
INVARIANT Inv
INVARIANT ExitEndsOutput
INVARIANT KillExplained
INVARIANT NoToolSurvives
PROPERTY ShutdownReturns
PROPERTY LeavingNoticed
PROPERTY ClientFinishes
