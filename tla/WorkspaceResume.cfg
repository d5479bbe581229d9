\* A resume after a commit to the source repository.
SPECIFICATION Spec
CONSTANTS
  Procs = {p1, p2}
  None = None
  MaxHead = 2
  MaxCommits = 1
INVARIANT ResumeKeepsWorkspace
CHECK_DEADLOCK FALSE
