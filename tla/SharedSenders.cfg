SPECIFICATION Spec
CONSTANTS
  MaxSubscriptions = 3
  MaxValues = 3
  MaxBatch = 2
  Policy <- OneOfEach
  Capacity <- DepthOne
  Sticky = TRUE
INVARIANTS
  Lossless
  LossyKeepsNewest
  NaturalEndIsComplete
  ClearSendNeverWaits
PROPERTIES
  SendCompletes
  EndIsSeen
CHECK_DEADLOCK FALSE
