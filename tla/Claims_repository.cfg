SPECIFICATION InsuranceSpec
CONSTANTS
  Holders = {h1}
  Claimants = {h1}
  Providers = {p1}
  MaxTime = 1
  Day = 1
  I128Max = 7
  U32Max = 1
  MaxPolicies = 1
  MaxClaims = 1
  Coverages <- MCCoverages
  Premiums <- MCPremiums
  Durations <- MCDurations
  ClaimAmounts <- MCClaimAmounts
  Supply = 3
  MinStake = 0
  Amounts <- MCAmounts
  MaxPaid = 0
  MaxSlashed = 0
  Keep = Keep
  Patches <- MCPatches
  PoolExports <- RepositoryPool
INVARIANT ApprovedCanBeSettled
CHECK_DEADLOCK FALSE
