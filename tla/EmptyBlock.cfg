SPECIFICATION Spec
CONSTANTS
  x = x
  y = y
  NoLabel = NoLabel
  LabelName = {x, y}
  Sources <- Nested
INVARIANT EveryBlockGoesOn
