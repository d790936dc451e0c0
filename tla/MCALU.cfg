SPECIFICATION Spec
CONSTANTS
  Width = 12
  Immediates <- MCImmediates
INVARIANTS
  TypeOK
  NumbersAgree
  LogicSplitsSum
  SignedOrder
  ShiftsKeepInside
