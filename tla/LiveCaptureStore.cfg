SPECIFICATION Spec
CONSTANTS
  MaxChunks = 3
  MaxFaults = 2
INVARIANTS
  CommittedPrefixStored
  ReaderGetsEveryChunk
  CompleteMeansWhole
PROPERTIES
  ImplementsLog
  InterruptedIsSealed
  ReaderReachesEnd
CHECK_DEADLOCK FALSE
