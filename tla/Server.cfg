SPECIFICATION FairSpec
CONSTANTS
  Nil = Nil
  c1 = c1
  c2 = c2
  c3 = c3
  Listeners = {l1}
  Conns = {c1, c2, c3}
  Handlers = {h1}
  ConnOf <- MCConnOf
  Mixes <- MCMixes
  Kinds = {"unary", "notify", "serverStream", "clientStream", "bidiStream"}
  Limited = TRUE
INVARIANTS
  
  ShutdownComplete
  CloseLeavesNothing
  DisconnectIsLast
  
PROPERTY
  ShutdownDrains
CHECK_DEADLOCK FALSE
