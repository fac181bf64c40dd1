SPECIFICATION Spec
CONSTANTS
  MaxWords = 6
  BlockWords = 2
  MaxOutstanding = 2
  SegmentBlocks = 2
  HotTailWords = 1
  MaxStores = 2
  MaxFaults = 2
  MaxCleanups = 1
INVARIANTS
  ReaderFindsBlocks
  EncodersNeverBlock
  EntryIsWhole
  FinishedHasAll
  UnfinishedLeavesNothing
PROPERTIES
  VisibleGrows
  WriterReturns
CHECK_DEADLOCK FALSE
