SPECIFICATION Spec
CONSTANTS
  RecvBuffer = 3
  RecvBytes = 4
  Sizes = {1, 3, 5}
  NumReceivers = 2
  FlowControl = TRUE
  BidiHandler = FALSE
  MaxSends = 4
INVARIANTS
  CreditConserved
  NoFlowFault
  NoLostWakeup
  NoStrandedCredit
PROPERTY
  ImplementsPipe
