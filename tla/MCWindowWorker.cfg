SPECIFICATION Spec
CONSTANTS
  Replicas = {r1, r2}
  LeaseTTL = 2
  SweepInterval = 1
  Playtests = {p1}
  Admins = {a1}
  Horizon = 1
  None = None
INVARIANTS
  TypeOK
  SweepsOverlapOnlyLate
PROPERTIES
  ImplementsLifecycle
