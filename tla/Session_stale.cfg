\* The check whether a connection is current, and the frame after it.
SPECIFICATION Spec
CONSTANTS
  o1 = o1
  o2 = o2
  o3 = o3
  Nil = Nil
  Ops = {o1, o2, o3}
  Clients <- Configs
  Servers <- Configs
  Conns <- MCConns
  ConnOf <- MCConnOf
  IdOf <- MCIdOf
  Loads <- MCStaleLoads
  MaxPending = 1
  MaxStreams = 1
CHECK_DEADLOCK FALSE
PROPERTY FramesStayOnTheirConnection
