SPECIFICATION Spec
CONSTANTS
  Edges = {e1}
  Sessions = {s1, s2}
  Tunnels = {t1, t2, t3}
  Subdomains = {h1}
  CustomDomains = {c1}
  Ports = {p1}
  RedisMayFail = TRUE
  Stopping = {}
  ClockRuns = TRUE
  None = None
SYMMETRY Symmetry
INVARIANT TypeOK
INVARIANT HubRouteOwned
INVARIANT LiveTunnelRouted
INVARIANT PortPoolExact
INVARIANT BindPortNeverConflicts
INVARIANT RoutedPortListens
