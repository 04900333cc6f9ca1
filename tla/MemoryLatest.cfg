SPECIFICATION Spec
CONSTANTS
  Budget = 10
  IdentityTokens = 1
  SchemaTokens = 2
  JudgmentTokens = 3
  SummaryTokens = 2
  TurnTokens = 1
  ItemTokens = 2
  MaxSessions = 2
  MaxItems = 3
  MaxMessages = 3
  MaxCommands = 2
  MaxSent = 5
  MaxQueue = 1
  MaxAged = 1
  MaxAttempts = 2
  MaxCrashes = 0
  InitialItems <- OlderItems
  MessageTokens = {1, 10}
  TurnTrigger = 4
  TokenTrigger = 6
  UserThrottle = 2
  TurnLimit = 4
  ItemLimit = 3
INVARIANT
  LatestCorrectionWins
CHECK_DEADLOCK FALSE
