CONSTANTS
  v1 = v1
  v2 = v2
  VCpus = {v1}
  Accesses = 2
  AccessKinds <- MCAccessKinds
  Is64Bits = TRUE
  SIZE_BUFFER = 3

SPECIFICATION Spec

INVARIANT ExitComplete
