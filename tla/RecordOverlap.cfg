CONSTANTS
  PageNum = 1
  Slots = 2
  MaxLength = 5
  WordSize = 2
  RecordSize = 5
  Values = {1, 2}
  Matching = {1}
  None = None
SPECIFICATION RoomySpec
INVARIANTS
  RecordsWhole
