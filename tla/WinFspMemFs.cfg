SPECIFICATION MemSpec
CONSTANTS
  Handles = {h1, h2}
  Names = {n1, n2}
  MaxId = 4
INVARIANTS NamesMatchParents UnwrapsSucceed ReplacedFilesGo
