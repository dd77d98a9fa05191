SPECIFICATION Spec
CONSTANTS
  Orgs = {o1}
  Metrics = {bandwidth}
  Loops = {l1}
  Wired = {bandwidth}
  Linked = {o1}
  Limit = 500
  DedupPeriod = 3
  TicksPerMonth = 2
  MaxTime = 2
  MaxUsage = 2
  MaxFaults = 0
INVARIANT RoundCharged
