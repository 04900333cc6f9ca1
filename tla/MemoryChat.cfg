SPECIFICATION Spec
CONSTANTS
  Budget = 10
  IdentityTokens = 1
  SchemaTokens = 2
  JudgmentTokens = 3
  SummaryTokens = 2
  TurnTokens = 1
  ItemTokens = 2
  MaxSessions = 2
  MaxItems = 3
  MaxMessages = 3
  MaxCommands = 3
  MaxSent = 4
  MaxQueue = 1
  MaxAged = 1
  MaxAttempts = 2
  MaxCrashes = 1
  InitialItems <- OlderItems
  MessageTokens = {1, 7, 10}
  TurnTrigger = 4
  TokenTrigger = 6
  UserThrottle = 2
  TurnLimit = 4
  ItemLimit = 3
INVARIANTS
  CorrectionsAreSound PromptIsSound SummariesThrottled RerunsAreBounded
PROPERTY
  NothingComesBack
CHECK_DEADLOCK FALSE
