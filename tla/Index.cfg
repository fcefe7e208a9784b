CONSTANTS
  Capacity = 2
  Keys = {0, 1, 2, 3}
  Leftover = {2}
  Rids = {1}
  MaxPage = 6
  Unset = {2}
  None = None
  Values = {1, 2}
SPECIFICATION Spec
CHECK_DEADLOCK FALSE
INVARIANTS
  TypeOK
  ChainIsLevel
  PagesAccounted
  EntriesKept
  NoEmptyNode
  ScanReturnsMatching
