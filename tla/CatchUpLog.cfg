SPECIFICATION FairSpec
CONSTANTS
    MaxSeq = 3
    MaxCheckpoints = 1
    MaxCrashes = 1
CONSTRAINT BoundedBetween
INVARIANT LogIsUpToDate
CHECK_DEADLOCK FALSE
