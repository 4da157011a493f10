SPECIFICATION FairSpec
CONSTANTS
  Callers = {u1}
  Conns = {c1}
  Dials = {d1, d2}
  PreferOutbound = FALSE
  Nil = Nil
  Manager = Manager
PROPERTY WaitReadyReturns
CHECK_DEADLOCK FALSE
