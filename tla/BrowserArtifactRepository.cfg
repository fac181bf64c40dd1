SPECIFICATION Spec
CONSTANTS
  Key = {k1, k2}
  MaxBytes = 1
  MaxQueued = 2
  MaxInFlight = 2
  Quota = 2
  MaxCommands = 4
  MaxFaults = 3
INVARIANTS
  PointerIsWhole
  QuietMirrorsMemory
  CountersAreExact
PROPERTIES
  MirrorSettles
CHECK_DEADLOCK FALSE
