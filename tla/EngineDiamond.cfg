\* Two graph entries into a node that asks a human.
SPECIFICATION Spec
CONSTANTS
    Nodes <- DiamondNodes
    Entry = "a"
    End = "end"
    Conditional <- DiamondConditional
    Default <- DiamondDefault
    JoinOrder <- NoJoins
    HitlNodes = {"w"}
    EnterNodes = {}
    RaisingNodes = {}
    MaxTotalSteps = 7
    MaxRetries = 0
    LoopCap <- NoCaps
    MaxTokens = 9
    TurnTokens = {1}
    HasDod = TRUE
    Drivers = {d1}
    Cancelling = FALSE
    MaxCrashes = 0
    DbFaults = FALSE
INVARIANTS
    EntryOpensVisit
CHECK_DEADLOCK FALSE
