SPECIFICATION Spec
CONSTANTS
  ByteMod = 2
  PageSize = 4
  MemorySize = 10
  NReg = 3
  Fields <- MCFields
  Add <- MCAdd
  Sub <- MCSub
  ImmOp <- MCImmOp
  SetUps <- MCSetUps
  Additions <- MCAdditions
  Addresses <- MCAddresses
  Data <- MCData
  MaxCalls = 2
  Garbage <- TwoGarbage
INVARIANTS
  TypeOK
  LatchesAgree
  X0Zero
  StoreReadsBack
PROPERTIES
  CyclesStayInside
  TornStoreAtBoundary
  Implements
