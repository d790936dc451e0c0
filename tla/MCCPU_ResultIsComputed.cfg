SPECIFICATION Spec
CONSTANTS
  ByteMod = 4
  PageSize = 16
  MemorySize = 18
  NReg = 3
  Fields <- MCFields
  Add <- MCAdd
  Sub <- MCSub
  ImmOp <- MCImmOp
  Files <- SomePrograms
  MaxLoads = 3
  Garbage <- TwoGarbage
PROPERTY ResultIsComputed
