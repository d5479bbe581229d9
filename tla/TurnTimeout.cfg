\* A connector that reports a lost answer as an ordinary error.
SPECIFICATION Spec
CONSTANTS
    c1 = c1
    x = x
    r = r
    w = w
    Callers = {c1}
    Effects = {w}
    Reads = {r}
    Foreign = {x}
    Timeouts = {w}
    MaxToolCalls = 2
    MaxRepairs = 0
    Chain = 1
    EntryRetries = 1
    Compliant = {1}
    Crashing = FALSE
    MaxBatch = 2
    MaxTurns = 2
INVARIANTS
    NeverTwice
CHECK_DEADLOCK FALSE
