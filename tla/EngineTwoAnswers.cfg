\* Two humans answer one request at the same time.
SPECIFICATION Spec
CONSTANTS
    Nodes <- ForkNodes
    Entry = "a"
    End = "end"
    Conditional <- ForkConditional
    Default <- ForkDefault
    JoinOrder <- ForkJoins
    HitlNodes = {"b", "c"}
    EnterNodes = {}
    RaisingNodes = {}
    MaxTotalSteps = 6
    MaxRetries = 0
    LoopCap <- NoCaps
    MaxTokens = 9
    TurnTokens = {1}
    HasDod = TRUE
    Drivers = {d1, d2}
    Cancelling = FALSE
    MaxCrashes = 0
    DbFaults = FALSE
INVARIANTS
    AnsweredOnce
CHECK_DEADLOCK FALSE
