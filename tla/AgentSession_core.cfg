SPECIFICATION LiveSpec
CONSTANTS
  None = None
  Specs = {t1, t2}
  Reserved = {t1}
  Callers = {c1}
  Sess = {x1, x2}
  MaxIds = 2
  MaxTrouble = 2
INVARIANT TypeOK
INVARIANT LiveSessionKept
INVARIANT RebindAccounted
INVARIANT EdgeMatchesList
PROPERTY Reconnects
CHECK_DEADLOCK FALSE
