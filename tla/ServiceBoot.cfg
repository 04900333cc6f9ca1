SPECIFICATION FairSpec
CONSTANTS
  Jobs = {m1, m2}
  OldFile = 5
  StartSchemas <- NewOrOld
  MaxAttempts = 2
  MaxCrashes = 2
  MaxErrors = 2
INVARIANTS
  GateRowsAreSound
PROPERTIES
  ServedUnlessLoopIsDead UpgradeEnds
CHECK_DEADLOCK FALSE
