SPECIFICATION ProtocolSpec
CONSTANTS
  Holders = {"h1"}
  Claimants = {"h1"}
  Providers = {"p1"}
  MaxTime = 2
  Day = 1
  I128Max = 500
  U32Max = 3
  MaxPolicies = 1
  MaxClaims = 1
  Coverages <- MCCoverages
  Premiums <- MCZero
  Durations <- MCOne
  ClaimAmounts <- MCClaimAmounts
  Supply = 2
  MinStake = 0
  Amounts <- MCAmounts
  MaxPaid = 0
  MaxSlashed = 0
  Keep = Keep
  Patches <- MCPatches
  PoolExports <- AdaptedPool
  ClaimsExports <- AdaptedClaims
  PauseTimelock = 1
  ResumeTimelock = 1
  U64Max = 8
  None = None
  Targets = {"p1"}
  SlashRoles = {"provider"}
  MaxHistory = 1
  Cooldowns = {}
  SlashAmounts <- MCOne
  PauseLengths <- MCOne
  MaxViolations = 2
  Governor = governor
  Voters = {"v1"}
  Weights <- MCOne
  Thresholds <- MCThresholds
  VotingPeriod = 0
  Actions <- MCActions
  MaxProposals = 2
INVARIANTS
  SlashPipelineAtomic
  DecidedOnce
PROPERTY PauseHoldsSlashing
CHECK_DEADLOCK FALSE
