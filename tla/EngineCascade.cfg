\* A partial join that feeds another.
SPECIFICATION Spec
CONSTANTS
    Nodes <- CascadeNodes
    Entry = "a"
    End = "end"
    Conditional <- CascadeConditional
    Default <- CascadeDefault
    JoinOrder <- CascadeJoins
    HitlNodes = {}
    EnterNodes = {}
    RaisingNodes = {}
    MaxTotalSteps = 8
    MaxRetries = 0
    LoopCap <- NoCaps
    MaxTokens = 9
    TurnTokens = {1}
    HasDod = TRUE
    Drivers = {d1}
    Cancelling = FALSE
    MaxCrashes = 0
    DbFaults = FALSE
INVARIANTS
    PartialJoinIsLast
CHECK_DEADLOCK FALSE
