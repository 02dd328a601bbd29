SPECIFICATION InsuranceSpec
CONSTANTS
  Holders = {h1}
  Claimants = {h1}
  Providers = {p1}
  MaxTime = 1
  Day = 1
  I128Max = 8
  U32Max = 1
  MaxPolicies = 2
  MaxClaims = 2
  Coverages <- MCCoverages
  Premiums <- MCPremiums
  Durations <- MCDurations
  ClaimAmounts <- MCClaimAmounts
  Supply = 4
  MinStake = 0
  Amounts <- MCAmounts
  MaxPaid = 0
  MaxSlashed = 0
  Keep = Keep
  Patches <- MCPatches
  PoolExports <- AdaptedPool
INVARIANTS
  ClaimedWithinCoverage
  LockIsTheOpenClaim
  SettledExplainsPaid
PROPERTIES
  NeverRevived
  ImplementsIndemnity
CHECK_DEADLOCK FALSE
