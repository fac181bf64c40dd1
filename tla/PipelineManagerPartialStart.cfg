SPECIFICATION Spec
CONSTANTS
  Node <- Chain
  Upstream <- ChainUpstream
  Depth = 1
  MaxInstances = 3
  StartMayFail = TRUE
PROPERTY StopAllReturns
CHECK_DEADLOCK FALSE
