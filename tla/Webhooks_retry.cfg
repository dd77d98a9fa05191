SPECIFICATION Spec
CONSTANTS
  Orgs = {o1}
  Customers = {c1}
  Subs = {s1}
  Checkouts = {k1}
  Handlers = {w1, w2}
  Tagged = {}
  PricePlans = {"pro", None}
  MaxEvents = 3
  MaxTrouble = 1
  MayFail = TRUE
  InOrder = FALSE
  SingleSub = FALSE
  None = None
INVARIANT AnsweredMeansApplied
CHECK_DEADLOCK FALSE
