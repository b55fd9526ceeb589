SPECIFICATION CleanupFairSpec
CONSTANTS
  t1 = t1
  t2 = t2
  p1 = p1
  d1 = d1
  Threads = {t1, t2}
  Files = {p1}
  Dirs = {d1}
  Nobody = Nobody
  NoPath = NoPath
  MaxPipe = 2
CHECK_DEADLOCK FALSE
INVARIANTS MessagesFramed HoldersGuarded
PROPERTIES ImplementsPromise GuardedFilesRemoved ChildDeathCancels WritersLeave
