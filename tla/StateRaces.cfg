\* Three attempts commit at once, two of them after an on_enter.
SPECIFICATION Spec
CONSTANTS
    a = a
    b = b
    c = c
    Writers = {a, b, c}
    Keys <- MCKeys
    Schema <- MCSchema
    InitialState <- MCInitial
    OnEnter <- MCOnEnter
    TurnDeltas <- MCTurnDeltas
INVARIANTS
    TypeOK
    LogVerifies
    NothingClobbered
    GivesUpOnlyContended
PROPERTIES
    Implements
CHECK_DEADLOCK FALSE
