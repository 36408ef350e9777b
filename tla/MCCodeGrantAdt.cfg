SPECIFICATION Spec
CONSTANTS
  Users = {u1, u2}
  Codes = {c1}
  Handlers = {h1, h2}
  Limits = {1}
  Pooled = FALSE
  UrlOutcomes = {"url", "error"}
  None = None
SYMMETRY MCSymmetry
INVARIANTS
  AuditMatchesDecision
  WelcomeFollowsGrant
