SPECIFICATION Spec
CONSTANTS
  Primary = P
  r1 = r1
  r2 = r2
  r3 = r3
  q1 = q1
  q2 = q2
  q3 = q3
  k1 = k1
  k2 = k2
  Replica = {r1, r2, r3}
  Req = {q1}
  Key = {k1}
  KeyOf <- MCKeyOf
  Home <- MCHome
  Deletes = {}
  Present = {}
  Timer = timer
  None = none
  MaxInFlight = 1
  MaxSeq = 1
  MaxExpired = 0
  MaxCrashes = 1
SYMMETRY Symm
INVARIANT CommitIsUnanimous
CHECK_DEADLOCK FALSE
