SPECIFICATION Spec
CONSTANTS
  Byte = {0, 1, 2, 3, 4, 5, 7, 8, 9}
  Newline = 0
  Inputs <- FourLines
  Texts <- SmallTexts
  ReadFiles <- TwoFiles
  MinDirect = 2
  MaxPending = 3
  Block = 2
  Capacity = 3
  Faults = {}
  MaxCalls = 5
INVARIANTS
  TypeOK
  OutputInOrder
  DiskIsPrefix
  AllWritten
  WaitingBounded
