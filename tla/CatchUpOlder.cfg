SPECIFICATION FairSpec
CONSTANTS
    MaxSeq = 3
    MaxCheckpoints = 1
    MaxCrashes = 1
CONSTRAINT BoundedOwn
INVARIANT NeverOlder
CHECK_DEADLOCK FALSE
