SPECIFICATION FairSpec
CONSTANTS
  Users = {u1, u2}
  Codes = {c1, c2}
  Handlers = {h1, h2}
  Limits = {1}
  Pooled = TRUE
  UrlOutcomes = {}
  None = None
INVARIANTS
  TypeOK
  FenceNeverMisses
  GrantsMatch
  AutoApproveCapHolds
PROPERTIES
  RequestsTerminate
  ImplementsLedger
