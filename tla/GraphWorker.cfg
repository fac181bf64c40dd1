SPECIFICATION FairSpec
CONSTANTS
  MaxRuns = 2
  MaxSegments = 2
  SegmentLength = 3
  MaxEvents = 4
  MaxPayload = 2
  MaxOutstanding = 1
  MaxSlice = 1
  MaxFaults = 1
INVARIANTS
  PageEntryWhole
  NeverRefused
PROPERTIES
  FinishedIsMirrored
  RunEnds
CHECK_DEADLOCK FALSE
