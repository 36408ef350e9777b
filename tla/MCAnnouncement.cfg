SPECIFICATION Spec
CONSTANTS
  Announcements = {k1}
  Applicants = {a1, a2, a3, a4}
  Unreachable = {a4}
  Wirings = {TRUE, FALSE}
  MaxCrashes = 1
SYMMETRY MCSymmetry
INVARIANTS
  TypeOK
  RecipientsSentIsHonest
  VerdictIsTrue
CHECK_DEADLOCK FALSE
