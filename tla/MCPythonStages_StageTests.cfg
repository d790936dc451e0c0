SPECIFICATION Spec
CONSTANTS
  Words <- MCWords
  Settable <- MCSettable
  Values <- MCValues
PROPERTY StagesTakeInstructions
