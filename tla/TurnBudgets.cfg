\* One turn over its whole fallback chain: a primary that honours a forced submit and a fallback that ignores it.
SPECIFICATION FairSpec
CONSTANTS
    c1 = c1
    x = x
    r = r
    w = w
    Callers = {c1}
    Effects = {w}
    Reads = {r}
    Foreign = {x}
    Timeouts = {w}
    MaxToolCalls = 2
    MaxRepairs = 2
    Chain = 2
    EntryRetries = 1
    Compliant = {1}
    Crashing = FALSE
    MaxBatch = 2
    MaxTurns = 1
INVARIANTS
    TurnBudgetsFit
PROPERTIES
    TurnEnds
CHECK_DEADLOCK FALSE
