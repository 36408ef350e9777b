SPECIFICATION Spec
CONSTANTS
  Completes = {l1, l2}
  Unlinks = {u1, u2}
  Recovers = {r1}
  Changes = {c1}
  Probes = {p1}
  States = {s1, s2}
  Builds = {b1, b2}
  Loads <- MCLoads
  FirstBuild = b1
  None = None
SYMMETRY MCSymmetry
INVARIANTS
  TypeOK
  StateLinksOnce
  LostFlagNeedsOverlap
  OrphanNeedsFailedDelete
  UnavailableMeansGone
CHECK_DEADLOCK FALSE
