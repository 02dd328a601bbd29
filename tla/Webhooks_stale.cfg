SPECIFICATION Spec
CONSTANTS
  Runtimes = {r1, r2}
  MaxRetries = 1
  InitialDelay = 1
  Backoff = 2
  MaxDelay = 2
  MaxJitter = 0
  Lease = 2
  MaxTime = 4
  MaxReplays = 1
  LastFault <- MCNever
  PromptClaims = FALSE
  None = None
PROPERTY OnlyHolderFinishes
CHECK_DEADLOCK FALSE
