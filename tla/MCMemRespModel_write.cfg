CONSTANTS
  Id = {1, 2}
  Addr = {0}
  ErrorAddrs = {}
  MaxLen = 0
  MaxDelay = 1
  FifoDepth = 1
  MaxReqs = 3

SPECIFICATION Spec

INVARIANT WritesPerformedAsIssued
PROPERTY EveryRequestAnswered
