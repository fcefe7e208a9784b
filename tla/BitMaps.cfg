CONSTANTS
  LeafBit = 2
  Bits = 16
  HashMod = 3
  Width = 2
  Length = 11
SPECIFICATION Spec
INVARIANTS
  InnerSummarizes
  LeftOneIsLowest
  WordsMeanOnes
