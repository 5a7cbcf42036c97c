CONSTANTS
  Stream <- MCStream
  RecordSpans <- MCRecordSpans
  MAX_SIZE_BUFFER = 1
  MaxRefill = 4
  EndMarker = "split"
  MaxTransactions <- MCMaxTransactions
  ReqOpWidth = 5

SPECIFICATION Spec

INVARIANT FinishExact
