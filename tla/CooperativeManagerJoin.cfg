SPECIFICATION Spec
CONSTANTS
  Node <- Join
  Inputs <- JoinInputs
  Multiplexing <- Nothing
  CompleteInputs <- Nothing
  EndsEarly <- FirstEndsEarly
  Depth = 1
  MaxItems = 2
  MaxEdits = 0
  Budget = 2
  RestartMayFail = FALSE
PROPERTIES
  SkippedIsRetried
CHECK_DEADLOCK FALSE
