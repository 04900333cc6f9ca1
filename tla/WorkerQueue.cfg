SPECIFICATION FairSpec
CONSTANTS
  MaxJobs = 2
  MaxSessions = 2
  MaxAttempts = 2
  UserKinds <- AllKinds
  MaxCrashes = 2
  MaxStops = 1
INVARIANTS
  SucceededExactlyOnce ChatAnsweredOnce NoResumeAfterFailedResume
  FirstComeFirstServed CancelsHold OneProviderProcess EndClosesSession
PROPERTIES
  RefinesLedger
  EveryJobSettles
