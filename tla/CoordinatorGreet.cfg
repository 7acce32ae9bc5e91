SPECIFICATION Spec
CONSTANTS
  Server = {s1, s2}
  Empty = empty
  NoEntry = noentry
  MaxIncarnation = 2
  MaxTrouble = 2
INVARIANT NoPrimaryIsReported
CHECK_DEADLOCK FALSE
