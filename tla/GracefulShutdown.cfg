SPECIFICATION FairSpec
CONSTANT Tasks = {t1, t2, t3, t4}
INVARIANTS Inv NoTaskAfterStop
PROPERTY ShutdownCompletes
CHECK_DEADLOCK FALSE
