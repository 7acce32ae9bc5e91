SPECIFICATION Spec
CONSTANTS
    k1 = k1
    k2 = k2
    v1 = v1
    v2 = v2
    None = None
    Garbage = Garbage
    Key <- MCKey
    Value <- MCValue
    Command <- Writes
    MaxCommands = 3
    MaxPending = 1
    MaxCheckpoints = 2
    MaxCrashes = 1
CONSTRAINT Bounded
INVARIANTS
    RestartKeepsFlushed
    MemoryIsCurrent
    NothingForgotten
    FlushedIsFound
CHECK_DEADLOCK FALSE
