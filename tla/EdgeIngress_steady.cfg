SPECIFICATION IngressSpec
CONSTANTS
  Edges = {e1, e2}
  Sessions = {s1, s2}
  Tunnels = {t1, t2}
  Subdomains = {h1}
  CustomDomains = {}
  Ports = {}
  RedisMayFail = FALSE
  Stopping = {}
  ClockRuns = TRUE
  None = None
  Conns = {c1}
  Kinds = {"h1", "h2/h3"}
  MaxBasicAuthFailures = 2
SYMMETRY Symmetry
INVARIANT SteadyHostServed
INVARIANT RegistryEntryOwned
PROPERTY ServedRouteNeverExpires
