SPECIFICATION Spec
CONSTANTS
  MaxWords = 2
  BlockWords = 1
  MaxOutstanding = 1
  SegmentBlocks = 1
  HotTailWords = 1
  MaxStores = 1
  MaxFaults = 0
  MaxCleanups = 1
INVARIANT PinnedNotRemoved
CHECK_DEADLOCK FALSE
