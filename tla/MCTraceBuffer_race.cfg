CONSTANTS
  v1 = v1
  v2 = v2
  VCpus = {v1, v2}
  Accesses = 1
  AccessKinds <- MCLoadOnly
  Is64Bits = FALSE
  SIZE_BUFFER = 3

SPECIFICATION Spec

INVARIANT RecordsContiguous
