CONSTANTS
  Id = {1, 2}
  Addr <- MCAddr
  ErrorAddrs <- MCErrorAddrs
  MaxLen = 1
  MaxDelay = 0
  FifoDepth = 1
  MaxReqs = 3

SPECIFICATION Spec

INVARIANT TypeOK
INVARIANT ExclusiveExact
PROPERTY ResponsesExpected
