CONSTANTS
  Stream <- MCStream
  RecordSpans <- MCRecordSpans
  MAX_SIZE_BUFFER = 1
  MaxRefill = 4
  EndMarker = "with_data"
  MaxTransactions <- MCMaxTransactions
  ReqOpWidth = 5

SPECIFICATION Spec

INVARIANT TypeOK
INVARIANT FinishExact
PROPERTY NoUseAfterFree
PROPERTY ReplayRefinement
