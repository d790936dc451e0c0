SPECIFICATION Spec
CONSTANTS
  ByteMod = 2
  PageSize = 4
  MemorySize = 6
  Addresses <- MCAddresses
  Data <- MCData
  Additions <- MCAdditions
INVARIANTS
  TypeOK
  ReadBack
PROPERTIES
  WritesStayInside
  TornOnlyAtBoundary
