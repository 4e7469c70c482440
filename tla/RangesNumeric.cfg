SPECIFICATION Spec
CONSTANTS
  Kinds <- Plain
  Commands <- NumericEndRanges
  Lines = 5
INVARIANT SelectsItsRanges
