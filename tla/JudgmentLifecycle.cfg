SPECIFICATION Spec
CONSTANTS
  MaxItems = 2
  MaxSources = 1
  MaxLinks = 3
  MaxBatch = 2
  MaxAttempts = 2
  MaxCrashes = 1
  ListLimit = 50
  ReadsDatabase = TRUE
INVARIANTS
  EligibleIsBacked LogIsTrue ReplacementsAreSound
PROPERTY
  RetiredForGood
CHECK_DEADLOCK FALSE
