SPECIFICATION FairSpec
CONSTANTS
  MaxWork = 1
  Chunks = 2
  MaxAttempts = 2
  MaxClaims = 2
  MaxCrashes = 1
INVARIANTS
  DeliveryIsRecorded StrandedByCrash
PROPERTIES
  NeverResent
  EveryNotificationSettles
