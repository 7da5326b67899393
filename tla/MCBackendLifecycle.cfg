CONSTANT MaxRun = 3
SPECIFICATION FairSpec
INVARIANT BackendIsSafe
PROPERTY BackendSettles
CHECK_DEADLOCK FALSE
