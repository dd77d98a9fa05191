SPECIFICATION Spec
CONSTANTS
  Orgs = {o1}
  Customers = {c1, c2}
  Subs = {s1, s2}
  Checkouts = {k1, k2}
  Handlers = {w1}
  Tagged = {s1, s2}
  PricePlans = {"pro", "team"}
  MaxEvents = 7
  MaxTrouble = 1
  MayFail = FALSE
  InOrder = TRUE
  SingleSub = TRUE
  None = None
SYMMETRY Symmetry
INVARIANT MirrorsStripe
CHECK_DEADLOCK FALSE
