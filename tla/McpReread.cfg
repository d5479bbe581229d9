\* One driver at a time resumes a run that is over.
SPECIFICATION Spec
CONSTANTS
  Drivers = {d1}
  Tools = {r, w}
  Allowed = None
  ReadOnly = {r}
  None = None
  MaxConfig = 1
INVARIANTS
  NeverReread
CHECK_DEADLOCK FALSE
