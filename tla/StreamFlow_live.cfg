SPECIFICATION FairSpec
CONSTANTS
  RecvBuffer = 3
  RecvBytes = 3
  Sizes = {1, 3, 4}
  NumReceivers = 1
  FlowControl = TRUE
  BidiHandler = FALSE
  MaxSends = 3
PROPERTIES
  SendReturns
  ItemsReceived
