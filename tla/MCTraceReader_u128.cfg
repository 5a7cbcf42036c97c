CONSTANTS
  Stream <- MCStreamU128
  RecordSpans <- MCRecordSpansU128
  MAX_SIZE_BUFFER = 1
  MaxRefill = 4
  EndMarker = "with_data"
  MaxTransactions <- MCMaxTransactions
  ReqOpWidth = 5

SPECIFICATION Spec

INVARIANT ReplayFaithful
