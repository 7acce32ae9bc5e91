SPECIFICATION Spec
CONSTANTS
    k1 = k1
    k2 = k2
    v1 = v1
    v2 = v2
    None = None
    Garbage = Garbage
    Key <- MCKey
    Value <- MCValue
    Command <- Rivals
    MaxCommands = 3
    MaxPending = 2
    MaxCheckpoints = 1
    MaxCrashes = 1
CONSTRAINT Bounded
INVARIANTS
    MemoryIsCurrent
    NothingForgotten
CHECK_DEADLOCK FALSE
