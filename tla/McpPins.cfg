\* Two drivers of one run, an administrator and a server that changes its mind.
SPECIFICATION Spec
CONSTANTS
  Drivers = {d1, d2}
  Tools = {r, w}
  Allowed = None
  ReadOnly = {r}
  None = None
  MaxConfig = 2
INVARIANTS
  TypeOK
  ListIsKept
PROPERTIES
  RetryMeansNotSent
SYMMETRY Symmetry
CHECK_DEADLOCK FALSE
