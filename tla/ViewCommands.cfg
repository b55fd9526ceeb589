SPECIFICATION MCSpec
CONSTANTS
  Requests = {r1, r2, r3}
  MaxBuilt = 3
CHECK_DEADLOCK FALSE
INVARIANTS ViewersSeeAll OnlyTheseAreLeft OneIndexInMemory
PROPERTIES ViewEnds
