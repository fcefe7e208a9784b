CONSTANTS
  Names = {A, B}
  Pages = {0, 1}
  Contents = {zero, x}
  Zero = zero
  MaxFileNum = 2
  MaxDesc = 2
  None = None
  Cap = 1
  Mod = 2
SPECIFICATION DisciplinedSpec
INVARIANTS
  DirtyPageHasItsFile
  PageFoundIsFilePage
  IdReachesNamedFile
  IdsDistinguishOpenFiles
PROPERTIES
  ImplementsPageStore
