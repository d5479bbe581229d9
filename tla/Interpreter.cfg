\* Two calls on one workspace, and the handler's close.
SPECIFICATION FairSpec
CONSTANTS
  Calls = {c1, c2}
  None = None
INVARIANTS
  TypeOK
  WorkspaceOwned
  RetrySafeLeavesNothing
  ClosedIsQuiet
PROPERTIES
  CallsEnd
CHECK_DEADLOCK FALSE
