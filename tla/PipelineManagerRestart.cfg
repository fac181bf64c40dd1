SPECIFICATION Spec
CONSTANTS
  Node <- Pair
  Upstream <- PairUpstream
  Depth = 1
  MaxInstances = 2
  StartMayFail = FALSE
INVARIANT WorkIsHeard
CHECK_DEADLOCK FALSE
