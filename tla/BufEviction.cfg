CONSTANTS
  Names = {A}
  Pages = {0, 1, 2}
  Contents = {zero, x}
  Zero = zero
  MaxFileNum = 1
  MaxDesc = 1
  None = None
  Cap = 2
  Mod = 2
SPECIFICATION DisciplinedSpec
INVARIANTS
  OneFramePerPage
PROPERTIES
  PinnedStays
  ImplementsPageStore
  OnlyCallersChangePages
