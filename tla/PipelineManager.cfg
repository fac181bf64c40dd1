SPECIFICATION Spec
CONSTANTS
  Node <- Pair
  Upstream <- PairUpstream
  Depth = 1
  MaxInstances = 3
  StartMayFail = TRUE
INVARIANTS
  OneSenderPerList
  RestartKeepsListOpen
  NoForgottenSubscriber
PROPERTIES
  CallReturns
  EndPropagates
CHECK_DEADLOCK FALSE
