CONSTANTS
  PageNum = 2
  Slots = 2
  MaxLength = 5
  WordSize = 2
  RecordSize = 4
  Values = {1, 2}
  Matching = {1}
  None = None
SPECIFICATION LoopSpec
INVARIANTS
  TypeOK
  BitmapsExact
  ScanComplete
  ScanGoesForward
PROPERTIES
  ImplementsRecordStore
  ScanEnds
