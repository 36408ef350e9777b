SPECIFICATION FairSpec
CONSTANTS
  Replicas = {r1, r2}
  LeaseTTL = 2
  SweepInterval = 1
  Playtests = {p1}
  Admins = {}
  Horizon = 0
  None = None
PROPERTIES
  DueIsAdvanced
