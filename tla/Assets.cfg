SPECIFICATION MCSpec
CONSTANTS
  MaxTime = 2
  I128Max = 7
  PauseTimelock = 1
  ResumeTimelock = 1
  U64Max = 9
  None = None
  Owners = {alice, bob}
  Spenders = {bob}
  Guards = {g1, g2}
  TokenAdmin = g1
  Chains = {c2}
  Zero = Zero
  MinSigs = 1
  MaxSigs = 2
  RequestTimeouts = {0}
  UpgradeDelay = 1
  MaxTokens = 2
  MaxProperties = 1
  MaxTokenRequests = 2
  Holders = {alice, bob}
  Issuer = alice
  NoAsk = NoAsk
  Amounts = {1}
  Dividends = {2}
  AskPrices = {1}
  Scaling = 2
  MaxShares = 2
  MaxDividends = 2
  Senders = {s1}
  Signers = {o1, o2, o3}
  BridgeAdmin = o1
  MinSignatures = 1
  MaxSignatures = 2
  MaxOperators = 3
  Timeouts = {None, 1}
  MaxHistoryItems = 1
  MaxBridgeRequests = 1
  MaxTransactions = 3
  Collectors = {carol, dave}
  Nobody = Nobody
  FeeAmounts = {3}
  Bids = {2, 3}
  MinBid = 2
  BidTime = 1
  BaseFee = 2
  MinFee = 1
  MaxFee = 4
  OpConfigs <- MCOpConfigs
  Rates = {10000}
  CongestionWindow = 2
  Window = 0
  MaxCollected = 8
  MaxAuctions = 1
  Customers = {alice}
  NoFile = NoFile
  Officers = {carol, dave}
  RegistryOwner = carol
  Rules <- MCRules
  DefaultRules <- MCDefaultRules
  Documents <- MCDocuments
  RiskLevels = {"Low"}
  Factors <- MCFactors
  Validity = 1
  MaxAudit = 5
  MaxKycRequests = 1
  NotSubmitted = NotSubmitted
  Provers = {alice}
  Reviewers = {carol}
  ProofTypes = {age, income}
  ProofValidity = 1
  PrivacyLevels = {6, 3}
  MaxProofs = 2
  MaxKeys = 2
  Sources = {f1, f2, f3}
  SourceConfigs <- MCSourceConfigs
  Oracles = g1
  FeedPrices = {6}
  GivenPrices = {6}
  Fallback = 3
  ManualPrice = 3
  Confidences = {101}
  MinSources = 2
  OutlierThreshold = 1
  Staleness = 1
  HistoryCap = 1
  RepStart = 1
  RepUp = 1
  RepDown = 1
  RepMin = 1
  RepMax = 1
  FreezeLengths = {1}
  MaxRequests = 1
  Models = {"linear", "forest"}
  Ensemble = {"linear", "forest"}
  ModelConfigs <- MCModelConfigs
  Homes = {1, 420}
  ProvedValues = {100}
  Engineer = g1
  MinConfidence = 7000
  BiasThreshold = 2000
  MaxPredictions = 1
  MaxCommitments = 1
  Estates = {1, 2}
  Clerks = {carol}
  MetadataAdmin = g1
  Cids = {cid1, cid2}
  Sizes = {1, 2}
  Limits <- MCLimits
  FirstLimits <- MCFirstLimits
  MaxDocuments = 3
  Partners = {alice, bob}
  FractionAdmin = g1
  ShareAmounts = {1, 2}
  Payments = {2}
  U128Max = 3
INVARIANTS
  PendingSlotIsOpen
  
  EachExecutionIsSigned
  
  CompliantIsAudited
  
  
  DocumentsAreIndexed
PROPERTIES
  OnlyOperatorsLock
  VerdictsStand
CHECK_DEADLOCK FALSE
