CONSTANTS
  Names = {A, B}
  Pages = {0, 1, 2}
  Contents = {zero}
  Zero = zero
  MaxFileNum = 1
  MaxDesc = 1
  None = None
  Cap = 2
  Mod = 2
SPECIFICATION Spec
INVARIANTS
  TypeOK
  PageTableCoherent
  EveryFrameReplaceable
