SPECIFICATION Spec
CONSTANTS
  Width = 12
  Immediates <- MCImmediates
INVARIANT RightShiftByFunct7
