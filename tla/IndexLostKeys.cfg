CONSTANTS
  Capacity = 2
  Keys = {1, 2, 3}
  Leftover = {0}
  Rids = {1}
  MaxPage = 8
  Unset = {}
  None = None
  Values = {1, 2}
SPECIFICATION Spec
CHECK_DEADLOCK FALSE
INVARIANTS
  AllDeletedIsNew
