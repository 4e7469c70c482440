SPECIFICATION FairSpec
CONSTANTS
  x = x
  y = y
  NoLabel = NoLabel
  LabelName = {x, y}
  Sources <- Small
INVARIANTS
  TypeOK
  ClosesInside
  RangesCollected
  LinksFollowText
  BranchesFollowText
  RefusesMalformed
PROPERTY Terminates
