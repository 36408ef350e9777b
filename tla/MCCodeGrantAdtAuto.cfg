SPECIFICATION Spec
CONSTANTS
  Users = {u1, u2}
  Codes = {c1}
  Handlers = {h1, h2}
  Limits = {1}
  Pooled = FALSE
  UrlOutcomes = {"error"}
  None = None
INVARIANTS
  UnresolvedStaysPending
