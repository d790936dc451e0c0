SPECIFICATION FairSpec
CONSTANTS
  ByteMod = 4
  PageSize = 16
  MemorySize = 18
  NReg = 3
  Fields <- MCFields
  Add <- MCAdd
  Sub <- MCSub
  ImmOp <- MCImmOp
  Files <- Programs
  MaxLoads = 2
  Garbage <- OneGarbage
INVARIANTS
  TypeOK
  LatchesAgree
  PcInPage
  EndedAtJumpToSelf
  OnlyIllegalRefused
  StoreAcknowledged
  OutsidePageUntouched
  LoadedWhole
PROPERTIES
  RunTerminates
  RunShrinks
  Implements
