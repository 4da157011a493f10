\* A client and the accepted ends of its connections.
SPECIFICATION Spec
CONSTANTS
  o1 = o1
  o2 = o2
  o3 = o3
  Nil = Nil
  Ops = {o1, o2, o3}
  Clients <- Configs
  Servers <- Configs
  Conns <- MCConns
  ConnOf <- MCConnOf
  IdOf <- MCIdOf
  Loads <- MCLoads
  MaxPending = 1
  MaxStreams = 1
INVARIANTS HandshakeAgrees RefusedWithReason FlowAgrees CleanupIsLocal LossReaches
           NoOrphan ResponseKept NoStrandedCaller
CHECK_DEADLOCK FALSE
