SPECIFICATION FairSpec
CONSTANTS
  Helpers = {"helper"}
  MaxLines = 2
  MaxOutput = 1
  Limits = {"runtime", "stall", "output"}
INVARIANTS
  AnswerIsWhole NotAbandoned
PROPERTY
  RefinesRun EveryRunReturns
CHECK_DEADLOCK FALSE
