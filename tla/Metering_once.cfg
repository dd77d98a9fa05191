SPECIFICATION Spec
CONSTANTS
  Orgs = {o1}
  Metrics = {bandwidth, requests}
  Loops = {l1, l2}
  Wired = {bandwidth}
  Linked = {}
  Limit = 1
  DedupPeriod = 2
  TicksPerMonth = 2
  MaxTime = 1
  MaxUsage = 1
  MaxFaults = 2
INVARIANT TypeOK
INVARIANT ChargedOnce
INVARIANT ReportedMeansCharged
PROPERTY PendingReported
