\* Two concurrent drivers, a cancellation, a crash and failing writes; j has an on_enter that may raise.
SPECIFICATION Spec
CONSTANTS
    Nodes <- ForkNodes
    Entry = "a"
    End = "end"
    Conditional <- ForkConditional
    Default <- ForkDefault
    JoinOrder <- ForkJoins
    HitlNodes = {"b", "c"}
    EnterNodes = {"j"}
    RaisingNodes = {"j"}
    MaxTotalSteps = 5
    MaxRetries = 0
    LoopCap <- NoCaps
    MaxTokens = 9
    TurnTokens = {1}
    HasDod = TRUE
    Drivers = {d1, d2}
    Cancelling = TRUE
    MaxCrashes = 1
    DbFaults = TRUE
SYMMETRY DriverSymmetry
INVARIANTS
    StepBudget
    GateEvidence
    HandOffEarned
PROPERTIES
    TerminalStays
    CancelBeatsGate
CHECK_DEADLOCK FALSE
