SPECIFICATION FairSpec
CONSTANTS
  c1 = c1
  c2 = c2
  k1 = k1
  Creates = {c1, c2, k1}
  AgsCreates = {c1, c2}
  Slug <- MCSlug
  MaxRows = 1
  Quantity = 3
  BatchSize = 2
  Prepared = {}
  MaxCrashes = 1
  None = None
INVARIANTS
  TypeOK
  LiveIsRedeemable
  LeftoversAreAccountedFor
  OvershootNeedsOverlap
PROPERTIES
  EveryCreateEnds
CHECK_DEADLOCK FALSE
