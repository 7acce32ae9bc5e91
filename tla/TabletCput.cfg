SPECIFICATION Spec
CONSTANTS
    k1 = k1
    k2 = k2
    v1 = v1
    v2 = v2
    None = None
    Garbage = Garbage
    Key <- MCKey
    Value <- MCValue
    Command <- Swaps
    MaxCommands = 2
    MaxPending = 1
    MaxCheckpoints = 1
    MaxCrashes = 1
INVARIANTS
    ReplayIsValid
CHECK_DEADLOCK FALSE
