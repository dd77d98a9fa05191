SPECIFICATION Spec
CONSTANTS
  Tunnels = {k1, k2}
  MaxBinds = 2
  MaxOpens = 3
  MaxConns = 2
  MaxLost = 1
SYMMETRY Symmetry
INVARIANT TypeOK
INVARIANT HistoryKeyed
INVARIANT UsageConserved
INVARIANT ActiveIsLive
INVARIANT ClosedRowsOwn
CHECK_DEADLOCK FALSE
