\* Three attempts; the server closes at any moment.
SPECIFICATION FairSpec
CONSTANTS
  boot = boot
  login = login
  Managers <- OneManager
  AttemptLimit = 3
INVARIANTS CommanderFollows OneLink ConnectedIsAvailable OfflineIsUnavailable
PROPERTIES FailedAttemptEnds LoopStops
CHECK_DEADLOCK FALSE
