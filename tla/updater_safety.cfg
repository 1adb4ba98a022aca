SPECIFICATION Spec
CONSTANTS
  Ids = {a, b, c}
  None = None
  MaxAllowed = 2
  PrioLimit = 4
  UseUpdateDBusInterface = TRUE
  OthersSubscribed = TRUE
  Results = {"done", "failed"}
  ClientPriorities = {0, 1, 3}
  Rewriting = {"NotReady"}
  MaxSignals = 1
SYMMETRY Symmetry
INVARIANTS
  VersionExists
  BlocksWhileActivating
  PriorityOnlyInstalled
  SavedPriorityCurrent
  OneImagePerManager
  BumpsAreTheLoops
PROPERTIES
  BootRequestStaysLowest
  FreePriorityKeepsDistinct
  FreeSpaceMakesRoom
  RunningVersionKept
