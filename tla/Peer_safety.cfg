SPECIFICATION FairSpec
CONSTANTS
  Callers = {u1}
  Conns = {c1, c2}
  Dials = {d1, d2}
  PreferOutbound = FALSE
  Nil = Nil
  Manager = Manager
INVARIANTS
  ReadyMatches
  OneDial
  NoLeakedClient
  RedundantDialCancelled
  ServedIsActive
  OutboundHasLease
PROPERTIES
  EstablishedWins
  CloseStopsEverything
CHECK_DEADLOCK FALSE
