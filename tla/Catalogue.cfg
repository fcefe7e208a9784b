CONSTANTS
  Root = Root
  d1 = d1
  t = t
  u = u
  Dbs = {d1}
  Tables = {t, u}
  Attrs = {0}
  MaxCons = 1
  None = None
  MaxDatabases = 1
  MaxTables = 2
  TooLong = {}
  MayDie = TRUE
  Declarations <- MCDeclarations
  KeyLists <- MCKeyLists
SPECIFICATION OrderlySpec
INVARIANTS
  TypeOK
  ListedTablesHaveFiles
  MetaAsDeclared
  SeenIsOnDisk
  RefusedWritesNothing
