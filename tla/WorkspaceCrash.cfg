\* A crash between the rename and the provenance record.
SPECIFICATION Spec
CONSTANTS
  Procs = {p1, p2}
  None = None
  MaxHead = 2
  MaxCommits = 1
INVARIANT ExistsIffProvisioned
CHECK_DEADLOCK FALSE
