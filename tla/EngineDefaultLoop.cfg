\* A loop closed by a default edge, with a cap of one iteration.
SPECIFICATION Spec
CONSTANTS
    Nodes <- ReviewNodes
    Entry = "w"
    End = "end"
    Conditional <- ReviewConditional
    Default <- ReviewDefault
    JoinOrder <- NoJoins
    HitlNodes = {}
    EnterNodes = {}
    RaisingNodes = {}
    MaxTotalSteps = 8
    MaxRetries = 0
    LoopCap <- ReviewOnce
    MaxTokens = 9
    TurnTokens = {1}
    HasDod = TRUE
    Drivers = {d1}
    Cancelling = FALSE
    MaxCrashes = 0
    DbFaults = FALSE
INVARIANTS
    EdgesCapped
CHECK_DEADLOCK FALSE
