SPECIFICATION Spec
CONSTANTS
  Node <- Diamond
  Inputs <- DiamondInputs
  Multiplexing <- DiamondMultiplexing
  CompleteInputs <- SinkComplete
  EndsEarly <- DiamondMultiplexing
  Depth = 1
  MaxItems = 1
  MaxEdits = 2
  Budget = 2
  RestartMayFail = TRUE
INVARIANTS
  NeverBlocks
PROPERTY RunFinishes
CHECK_DEADLOCK FALSE
