SPECIFICATION FairSpec
CONSTANTS
  Server = {s1, s2}
  Empty = empty
  NoEntry = noentry
  MaxIncarnation = 2
  MaxTrouble = 2
PROPERTY FailureIsNoticed
CHECK_DEADLOCK FALSE
