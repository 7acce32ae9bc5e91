SPECIFICATION FairSpec
CONSTANTS
    Replica = {r1, r2}
    Cmd = {c1, c2}
    MaxOld = 2
    MaxCrashes = 1
    Load = 3
CONSTRAINT Bounded
INVARIANTS
    NumberedOnce
    WaitIsAnswered
    ScanIsLoop
PROPERTIES
    Recovers
    WaitingBegins
CHECK_DEADLOCK FALSE
