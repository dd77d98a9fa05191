SPECIFICATION Spec
CONSTANTS
  Orgs = {o1, o2}
  Customers = {c1, c2}
  Subs = {s1, s2}
  Checkouts = {k1, k2}
  Handlers = {w1, w2}
  Tagged = {s1}
  PricePlans = {"pro", None}
  MaxEvents = 4
  MaxTrouble = 1
  MayFail = TRUE
  InOrder = FALSE
  SingleSub = FALSE
  None = None
SYMMETRY Symmetry
INVARIANT TypeOK
INVARIANT PlanBought
INVARIANT AnsweredAccounted
CHECK_DEADLOCK FALSE
