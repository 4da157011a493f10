SPECIFICATION Spec
CONSTANTS
  Conns = {k1, k2}
  Connectors = {t1}
  Loop = loop
  Calls = {a1, a2}
  Async = {a2}
  MaxPending = 1
  Nil = nil
SYMMETRY Symmetry
INVARIANTS
  SetConnSafe
  NoStaleWaiter
  DeliveryNeverBlocks
  LossIsLocal
  NoForgottenCall
  NoLostReconnect
