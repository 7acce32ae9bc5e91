SPECIFICATION Spec
CONSTANTS
  Server = {s1, s2, s3}
  Empty = empty
  NoEntry = noentry
  MaxIncarnation = 2
  MaxTrouble = 2
SYMMETRY Symm
INVARIANTS AliveIsWatched ElectedIsAlive BelieverIsRecorded
PROPERTY PrimaryIsStable
CHECK_DEADLOCK FALSE
