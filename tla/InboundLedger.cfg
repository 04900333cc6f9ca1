SPECIFICATION FairSpec
CONSTANTS
  MaxUpdates = 3
  MaxBatch = 2
  Kinds = {"photo", "end", "cancel", "unknown"}
  MaxErrors = 1
  MaxRepeats = 1
  MaxCrashes = 1
INVARIANTS
  NothingLost
  OnceAndTold
PROPERTY
  EveryUpdateSettles
CHECK_DEADLOCK FALSE
