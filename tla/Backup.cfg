SPECIFICATION MCSpec
CONSTANTS
  Names = {"a", "b", "c"}
  Rank <- NameRank
  Sizes = {0}
  Counts = {0}
  MaxRecords = 3
  MaxDepth = 2
  Total = 4
  Root = 1
  Retries = 2
  MaxTree = 3
  Blank = "b"
  Split <- NameSplit
  Sector = 2
  Size = 8
  MaxRead = 3
  MaxCached = 2
INVARIANTS SuccessListsEverything NothingListedTwice PanicsOnlyThere
PROPERTIES ImplementsStream
