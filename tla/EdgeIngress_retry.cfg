SPECIFICATION IngressSpec
CONSTANTS
  Edges = {e1, e2, e3}
  Sessions = {s1, s2}
  Tunnels = {t1, t2}
  Subdomains = {h1}
  CustomDomains = {}
  Ports = {}
  RedisMayFail = FALSE
  Stopping = {e1}
  ClockRuns = FALSE
  None = None
  Conns = {c1}
  Kinds = {"h1"}
  MaxBasicAuthFailures = 1
SYMMETRY Symmetry
INVARIANT IngressTypeOK
INVARIANT ForwardOnce
