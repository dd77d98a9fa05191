SPECIFICATION LiveSpec
CONSTANTS
  None = None
  p1 = p1
  p2 = p2
  q1 = q1
  e1 = e1
  e2 = e2
  Edges = {e1, e2}
  Tasks = {p1, p2, q1}
  EdgeOf <- HomeOf
  TTL = 3
  MaxLocks = 2
  MaxFails = 1
  MaxStops = 1
INVARIANT TypeOK
INVARIANT MutualExclusion
PROPERTY ReleasesOwn
PROPERTY DeadHolderReplaced
PROPERTY OrphanKeyExpires
CHECK_DEADLOCK FALSE
