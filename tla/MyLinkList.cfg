CONSTANTS
  Cap = 4
  ListNum = 3
SPECIFICATION Spec
INVARIANTS
  TypeOK
  MutuallyInverse
PROPERTY
  ImplementsLists
