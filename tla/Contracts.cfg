SPECIFICATION MCSpec
CONSTANTS
  Providers = {p1, p2}
  Claimants = {c1}
  Supply = 3
  MinStake = 0
  Amounts <- MCAmounts
  MaxPaid = 3
  MaxSlashed = 3
  MaxTime = 6
  I128Max = 1000
  PauseTimelock = 1
  ResumeTimelock = 1
  U64Max = 7
  None = None
  Targets = {t1}
  SlashRoles = {"provider"}
  MaxHistory = 2
  Cooldowns <- MCCooldowns
  SlashAmounts = {1}
  PauseLengths = {1}
  MaxViolations = 4
  Governor = gov
  Voters = {v1, v2}
  Weights <- MCWeights
  Thresholds = {0, 60}
  VotingPeriod = 1
  Actions <- MCActions
  MaxProposals = 2
  a = a
  b = b
  People = {a, b}
  Committees <- MCCommittees
  MaxParticipants = 2
  ApprovalsOffered = {"Release", "Refund"}
  EscrowAmounts <- MCEscrowAmounts
  DepositAmounts <- MCDeposits
  RequiredOffered <- MCRequired
  LocksOffered <- MCLocks
  EscrowPauses = {1}
  MaxEscrows = 2
  EscrowGovernor = gov
INVARIANTS
  RootedBooks
  StakesExplainTotal
  HistoryIsSound
  TallyIsHonest
  DecisionsStand
  EscrowIsHonest
PROPERTY FrozenWhilePaused
CHECK_DEADLOCK FALSE
