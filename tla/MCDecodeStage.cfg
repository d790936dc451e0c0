SPECIFICATION Spec
CONSTANT Words <- MCWords
INVARIANTS
  TypeOK
  DecodedWhole
  ZeroOffsetExact
  SingleRangesFaithful
  OffsetsStayLow
  FieldsTile
