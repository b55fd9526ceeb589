SPECIFICATION Spec
CONSTANTS
  Names = {"a", "b"}
  Wanted = {"A", "b"}
  Rank <- NameRank
  Fold <- CaseFold
  Sizes = {1}
  Counts = {1}
  MaxRecords = 4
  MaxDepth = 3
CHECK_DEADLOCK FALSE
INVARIANTS CsvGivesListing QDirStatComplete CursorConsistent GoToPathFindsEntry
