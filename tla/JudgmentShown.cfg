SPECIFICATION Spec
CONSTANTS
  MaxItems = 2
  MaxSources = 1
  MaxLinks = 1
  MaxBatch = 2
  MaxAttempts = 2
  MaxCrashes = 0
  ListLimit = 50
  ReadsDatabase = FALSE
INVARIANTS
  ShownIdsResolve
CHECK_DEADLOCK FALSE
