SPECIFICATION ViewSpec
CONSTANTS
  Handles = {h1, h2}
  Names = {a, b}
  MaxDepth = 2
  MaxId = 4
  MaxLen = 2
  MaxTotal = 5
  Bytes = {1}
SYMMETRY Symmetry
CHECK_DEADLOCK FALSE
INVARIANTS TreeShape
PROPERTIES ImplementsPaths
