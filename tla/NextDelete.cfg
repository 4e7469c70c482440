SPECIFICATION Spec
CONSTANTS
  e = e
  a = a
  b = b
  Seg = {e, a, b}
  Empty = e
  Transl <- Swap
  Shell <- OneLine
  Scripts <- NextDeleteScripts
  Inputs <- ThreeLines
  Options <- Printing
INVARIANT NextThenDelete
