SPECIFICATION Spec
CONSTANTS
  Users = {u1}
  Handlers = {h1}
  t1 = t1
  t2 = t2
  Texts = {t1, t2}
  Forms <- MCForms
  Loads <- EditsAndRestart
  MaxVersions = 3
  MaxEdits = 2
  MaxBoots = 1
  Boot = Boot
  None = None
INVARIANT EditsNeverRebroadcast
CHECK_DEADLOCK FALSE
