\* One run of the sandbox, against any daemon and any caller.
SPECIFICATION FairSpec
INVARIANTS
  TypeOK
  LeakIsReported
PROPERTIES
  KeepsContract
  RunEnds
CHECK_DEADLOCK FALSE
