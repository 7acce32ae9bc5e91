SPECIFICATION FairSpec
CONSTANTS
    MaxSeq = 3
    MaxCheckpoints = 1
    MaxCrashes = 1
CONSTRAINT Bounded
INVARIANTS
    TypeOK
    CaughtUp
    SameNumbers
PROPERTIES
    CatchesUp
CHECK_DEADLOCK FALSE
