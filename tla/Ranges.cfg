SPECIFICATION Spec
CONSTANTS
  Kinds <- Plain
  Commands <- AllRanges
  Lines = 5
INVARIANTS
  TypeOK
  LatchHasOpener
  SelectedInsideRange
  SelectsMatchEndedRanges
