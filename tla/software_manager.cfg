SPECIFICATION Spec
CONSTANTS
  Paths = {p, q}
  MaxSignals = 2
  Removable = {p}
INVARIANTS
  InitializedOnce
  NothingMissed
PROPERTIES
  UpdatingDeviceKept
  InitializingEnds
