SPECIFICATION Spec
CONSTANTS
  Words <- MCWords
  Settable <- MCSettable
  Values <- MCValues
INVARIANTS
  TypeOK
  ImmediateIsFields
  EndsAtZeroFields
