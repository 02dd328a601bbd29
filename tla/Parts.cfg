SPECIFICATION MCSpec
CONSTANTS
  AccessLife = 1
  RefreshLife = 2
  Users = {alice, bob}
  MaxAttempts = 2
  Lockout = 1
  MaxPairs = 3
  MaxClock = 2
  Never = Never
  People = {alice, bob}
  SessionIds = {1}
  RecoveryLife = 1
  MaxRecoveries = 3
  MaxIssues = 8
  MaxHours = 2
  Readers <- MCReaders
  Scope <- MCScope
  WordBytes = 1
  DefaultPageSize = 2
  MaxPageSize = 2
  PageSizes = {0, 1}
  MaxItems = 4
  MaxStamp = 2
  Decimals = 2
  MaxStroops = 299
  Texts <- MCTexts
  BasisPoints = {0, 1, 250, 10000, 10001}
  Percents = {0, 1, 50, 100, 101}
  FirstAmount = 40
  PauseTimelock = 2
  ResumeTimelock = 2
  U64Max = 9
  MaxDuration = 3
  None = None
  Governors = {gov}
  Admins = {admin}
  Accounts = {ann, ben}
  Requests = {r1, r2}
  LockAfter = 2
  LockWindow = 1
  LockFor = 1
  MaxEntries = 1
  RowLife = 1
  LinkLife = 2
  KeyLife = 1
  MaxMinutes = 3
  MaxRows = 5
  MaxLinks = 2
  Absent = Absent
INVARIANTS
  RecordIsAudited
  AccessIsEarned
  
  PagesMissNothing
  AmountsAreExact
  RequestsKeepPromises
PROPERTIES
  TimelocksBind
  ActivePauseOnlyExtends
SYMMETRY Symmetry
CHECK_DEADLOCK FALSE
