CONSTANTS
  MaxWindow = 2
  MaxRequest = 2
SPECIFICATION CloseFairSpec
INVARIANT CloseIsAgreed
PROPERTY CloseSettles
CHECK_DEADLOCK FALSE
