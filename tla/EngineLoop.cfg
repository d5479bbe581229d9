\* One driver at a time: pauses, resumes, retries, the join, the loop, the budgets and the end.
SPECIFICATION FairSpec
CONSTANTS
    Nodes <- LoopNodes
    Entry = "a"
    End = "end"
    Conditional <- LoopConditional
    Default <- LoopDefault
    JoinOrder <- LoopJoins
    HitlNodes = {"b", "c"}
    EnterNodes = {"j"}
    RaisingNodes = {}
    MaxTotalSteps = 8
    MaxRetries = 1
    LoopCap <- LoopOnce
    MaxTokens = 7
    TurnTokens = {1, 2}
    HasDod = TRUE
    Drivers = {d1}
    Cancelling = FALSE
    MaxCrashes = 0
    DbFaults = FALSE
INVARIANTS
    TypeOK
    VisitIdentity
    Budgets
    AtRestResolved
    NothingLeft
PROPERTIES
    RunEnds
    PartialJoinOnlyAtQuiescence
CHECK_DEADLOCK FALSE
