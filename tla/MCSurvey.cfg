SPECIFICATION FairSpec
CONSTANTS
  Users = {u1}
  Handlers = {h1, h2}
  t1 = t1
  t2 = t2
  Texts = {t1, t2}
  Forms <- MCForms
  Loads <- MCLoads
  MaxVersions = 3
  MaxEdits = 2
  MaxBoots = 1
  Boot = Boot
  None = None
INVARIANTS
  TypeOK
  ResponsesAreCovered
  PublishedOncePerBoot
  StampedWasTold
PROPERTIES
  AcceptingUnblocks
CHECK_DEADLOCK FALSE
