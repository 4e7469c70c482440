SPECIFICATION MCSpec
CONSTANTS
  e = e
  a = a
  b = b
  Seg = {e, a, b}
  Empty = e
  Scripts <- AllScripts
  Inputs <- AllInputs
  Options <- Both
  Transl <- Swap
  Shell <- UpToTwoLines
INVARIANTS
  TypeOK
  LatchNotAhead
  LineNumberCountsStream
  AppendsFlushedBeforeRead
  OutputOrder
  NoLineLost
  FreshStreamUnlessQuiet
  PairsPrintOnce
PROPERTIES
  NothingReadAfterQuit
  LastAddressAtEnd
  LoopsEnd
