SPECIFICATION FairSpec
CONSTANTS
  Tasks = {t1}
  task = t1
  ExitCodes = {0}
  None = None
  Subs = {s1, s2}
  Capacity = 2
  MaxLen = 4
INVARIANTS Inv DeliversPrefix DoneIsComplete LaggedWasBehind
PROPERTY StreamEnds
CHECK_DEADLOCK FALSE
