\* One driver and a cancel_previous trigger.
SPECIFICATION Spec
CONSTANTS
    Nodes <- ForkNodes
    Entry = "a"
    End = "end"
    Conditional <- ForkConditional
    Default <- ForkDefault
    JoinOrder <- ForkJoins
    HitlNodes = {"b", "c"}
    EnterNodes = {}
    RaisingNodes = {}
    MaxTotalSteps = 5
    MaxRetries = 0
    LoopCap <- NoCaps
    MaxTokens = 9
    TurnTokens = {1}
    HasDod = TRUE
    Drivers = {d1}
    Cancelling = TRUE
    MaxCrashes = 0
    DbFaults = FALSE
PROPERTIES
    TerminalFinal
CHECK_DEADLOCK FALSE
