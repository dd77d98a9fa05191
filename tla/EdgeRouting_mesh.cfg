SPECIFICATION FairSpec
CONSTANTS
  Edges = {e1, e2}
  Sessions = {s1}
  Tunnels = {t1}
  Subdomains = {h1}
  CustomDomains = {}
  Ports = {}
  RedisMayFail = FALSE
  Stopping = {e1, e2}
  ClockRuns = TRUE
  None = None
INVARIANT LiveEdgeAdvertised
PROPERTY OrphanRouteExpires
PROPERTY StoppedEdgeForgotten
