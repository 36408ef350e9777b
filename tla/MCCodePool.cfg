SPECIFICATION Spec
CONSTANTS
  Callers = {p1, p2}
  Models = {"AGS_CAMPAIGN", "STEAM_KEYS"}
  Files <- MCFiles
  Malformed = {0}
  MaxQuantity = 2
  BatchSize = 1
  PageSize = 1
  MaxAttempts = 2
  MaxMinted = 3
  MaxCalls = 3
  None = None
INVARIANTS
  TypeOK
  DedupIsExact
  LearnedIsStored
  PoolIsWholeFiles
  AuditNeverOverstates
CHECK_DEADLOCK FALSE
