SPECIFICATION FairSpec
CONSTANTS
  MaxCandidates = 3
CHECK_DEADLOCK FALSE
INVARIANTS SuccessIsComplete GuardedWhilePresent QuitMeansClean
PROPERTIES CancelEndsRun WizTreeEndsRun CrashCleansUp
