CONSTANTS
  Stream <- MCStreamValued
  RecordSpans <- MCRecordSpansValued
  FileGestion = "hpd_cache_file_gestion"
  MAX_SIZE_BUFFER = 1
  MaxRefill = 4
  EndMarker = "with_data"
  WordWidth = 64
  ReqWords = 1
  ReqOpWidth = 5

SPECIFICATION Spec

INVARIANT TypeOK
PROPERTY ReplayRefinement
PROPERTY ReplayEnds
PROPERTY NoUseAfterFree
