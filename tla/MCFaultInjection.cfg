CONSTANTS
  WordWidths = {32, 64}
  WaysPerRamWord = {1, 2, 4}
  AccessWordsSet = {1, 2}
  TagWidths = {21, 37, 53}
  Ways = 4
  ClWords = 4
  Sets = {0, 1}

SPECIFICATION Spec

INVARIANT TypeOK
INVARIANT MaskPlaced
PROPERTY FaultTargetsDistinct
