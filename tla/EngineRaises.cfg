\* A routing condition that raises.
SPECIFICATION Spec
CONSTANTS
    Nodes <- ForkNodes
    Entry = "a"
    End = "end"
    Conditional <- ForkConditional
    Default <- ForkDefault
    JoinOrder <- ForkJoins
    HitlNodes = {"b", "c"}
    EnterNodes = {}
    RaisingNodes = {"b"}
    MaxTotalSteps = 5
    MaxRetries = 0
    LoopCap <- NoCaps
    MaxTokens = 9
    TurnTokens = {1}
    HasDod = TRUE
    Drivers = {d1}
    Cancelling = FALSE
    MaxCrashes = 0
    DbFaults = FALSE
INVARIANTS
    AtRestResolved
CHECK_DEADLOCK FALSE
