SPECIFICATION SafeSpec
CONSTANTS
  Parts = 2
  Tries = 2
  WarnRemaining = 1
  MaxUpdates = 2
  MaxWrites = 3
CHECK_DEADLOCK FALSE
INVARIANT ForeignImageStops
