SPECIFICATION FairSpec
CONSTANTS
  MaxObjects = 2
  MaxAsks = 2
  MaxTries = 2
  Levels = {"ok", "critical"}
  Batch = 1
  MaxCrashes = 1
INVARIANTS
  TypeOK
  BytesAsRecorded
  BudgetsHold
PROPERTIES
  RefinesLedger
  EveryObjectSettles
CHECK_DEADLOCK FALSE
