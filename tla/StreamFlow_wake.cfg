SPECIFICATION FairSpec
CONSTANTS
  RecvBuffer = 2
  RecvBytes = 2
  Sizes = {1}
  NumReceivers = 1
  FlowControl = TRUE
  BidiHandler = TRUE
  MaxSends = 3
PROPERTY RemoteEndWakesSender
CHECK_DEADLOCK FALSE
