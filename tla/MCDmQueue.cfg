SPECIFICATION FairSpec
CONSTANTS
  Users = {u1, u2}
  Reachable = {u1}
  Replicas = {r1}
  Handlers = {h1}
  MaxDepth = 1
  TripCount = 2
  TripWindow = 1
  OpenDuration = 1
  MaxAsks = 4
  MaxCrashes = 1
  None = None
INVARIANTS
  TypeOK
  BreakerMatchesWindow
  SendsAreHonest
  NobodyForgotten
PROPERTIES
  EveryApprovalIsReported
