CONSTANTS
  Root = Root
  d1 = d1
  t = t
  u = u
  Dbs = {d1}
  Tables = {t}
  Attrs = {0, 1}
  MaxCons = 1
  None = None
  MaxDatabases = 1
  MaxTables = 1
  TooLong = {}
  MayDie = FALSE
  Declarations <- MCPlain
  KeyLists <- MCKeyLists
SPECIFICATION Spec
INVARIANTS
  IndexedHaveIndex
