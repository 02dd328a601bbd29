SPECIFICATION MCSpec
CONSTANTS
  MaxTime = 3
  I128Max = 7
  PauseTimelock = 1
  ResumeTimelock = 1
  U64Max = 9
  None = None
  Users = {alice, bob}
  Assessors = {alice}
  Sellers = {alice}
  Stakes = {200}
  Coverages = {100}
  Payments = {10}
  Scores = {90}
  ClaimAmounts = {60}
  EvidenceTypes = {"photo", "report"}
  TreatyTerms <- MCTreaties
  Prices = {10}
  PauseLengths = {1}
  CoverageRatio = 10000
  Threshold = 50
  FeeRate = 1000
  MinPremium = 5
  PremiumScale = 12000000
  DeductibleScale = 10000000
  CooldownPeriod = 1
  Term = 1
  Second = 2
  MaxPolicies = 1
  MaxClaims = 2
  MaxTreaties = 1
  MaxMoney = 210
  Providers = {carol, dave}
  Deposits = {3}
  Withdrawals = {2}
  VestingTerms <- MCTerms
  Premiums = {3}
  Payouts = {2}
  Precision = 10
  MaxSyncs = 3
  MaxReserve = 12
SYMMETRY Symmetry
INVARIANTS
  PolicyBooksAgree
  ReserveBooksBalance
PROPERTIES
  PayoutsAreAwards
CHECK_DEADLOCK FALSE
