SPECIFICATION Spec
CONSTANTS
  ByteMod = 4
  PageSize = 16
  MemorySize = 18
  NReg = 3
  Fields <- MCFields
  Add <- MCAdd
  Sub <- MCSub
  ImmOp <- MCImmOp
  Files <- Programs
  MaxLoads = 1
  Garbage <- TwoGarbage
PROPERTY LoadExecutes
