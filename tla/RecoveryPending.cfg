SPECIFICATION Spec
CONSTANTS
    Replica = {r1, r2}
    Cmd = {c1, c2}
    MaxOld = 2
    MaxCrashes = 1
    Load = 3
CONSTRAINT Bounded
INVARIANT PendingIsAborted
CHECK_DEADLOCK FALSE
