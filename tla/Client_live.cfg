SPECIFICATION FairSpec
CONSTANTS
  Conns = {k1}
  Connectors = {t1}
  Loop = loop
  Calls = {a1}
  Async = {a1}
  MaxPending = 1
  Nil = nil
PROPERTIES
  KeepsReconnecting
  LossEndsCalls
  CloseEndsAll
