SPECIFICATION FairSpec
CONSTANTS
  Runtimes = {r1, r2, r3}
  MaxRetries = 1
  InitialDelay = 1
  Backoff = 2
  MaxDelay = 2
  MaxJitter = 1
  Lease = 2
  MaxTime = 8
  MaxReplays = 1
  LastFault = 6
  PromptClaims = TRUE
  None = None
INVARIANTS
  FinishedIsEarned
  OneLiveLease
PROPERTIES
  OnlyHolderFinishes
  EventuallySettled
CHECK_DEADLOCK FALSE
