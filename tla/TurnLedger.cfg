\* Two callers of one visit: overlapping and successive turns share the ledger.
SPECIFICATION Spec
CONSTANTS
    c2 = c2
    c1 = c1
    x = x
    r = r
    w = w
    Callers = {c1, c2}
    Effects = {w}
    Reads = {}
    Foreign = {x}
    Timeouts = {}
    MaxToolCalls = 2
    MaxRepairs = 0
    Chain = 2
    EntryRetries = 1
    Compliant = {1, 2}
    Crashing = TRUE
    MaxBatch = 2
    MaxTurns = 3
SYMMETRY CallerSymmetry
INVARIANTS
    TypeOK
    EffectAtMostOnce
    LedgerTruth
    ClaimHeld
PROPERTIES
    UnresolvedStays
CHECK_DEADLOCK FALSE
