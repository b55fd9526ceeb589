SPECIFICATION Spec
CONSTANTS
  Names = {"a", "b"}
  Rank <- NameRank
  Fold <- SameCase
  Sizes = {1, 3}
  Counts = {1}
  OneByte = 2
  MaxRecords = 3
  MaxOld = 2
  RootSize = 3
  MaxDepth = 2
CHECK_DEADLOCK FALSE
CONSTRAINT OldFoldersSmall
INVARIANTS DiffNeverPanics FilesDiffer FoldersAddUp
