SPECIFICATION FairSpec
CONSTANTS
  MaxObjects = 1
  MaxAsks = 2
  MaxTries = 2
  Levels = {"ok"}
  Batch = 1
  MaxCrashes = 0
PROPERTIES
  FailedIsRetried
CHECK_DEADLOCK FALSE
