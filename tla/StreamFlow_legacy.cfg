SPECIFICATION Spec
CONSTANTS
  RecvBuffer = 2
  RecvBytes = 3
  Sizes = {1, 2}
  NumReceivers = 2
  FlowControl = FALSE
  BidiHandler = TRUE
  MaxSends = 4
INVARIANTS
  BufferBounded
  EOFMeansComplete
