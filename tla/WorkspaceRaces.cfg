\* Two processes, one workspace, one patch set.
SPECIFICATION Spec
CONSTANTS
  Procs = {p1, p2}
  None = None
  MaxHead = 2
  MaxCommits = 1
INVARIANTS TypeOK RecordMatchesWorkspace
PROPERTIES WorkIsKept DeliveredOnce
SYMMETRY Symmetry
CHECK_DEADLOCK FALSE
