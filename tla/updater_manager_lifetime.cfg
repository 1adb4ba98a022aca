SPECIFICATION Spec
CONSTANTS
  Ids = {a, b, c}
  None = None
  MaxAllowed = 2
  PrioLimit = 4
  UseUpdateDBusInterface = TRUE
  OthersSubscribed = TRUE
  Results = {"done", "failed"}
  ClientPriorities = {0}
  Rewriting = {}
  MaxSignals = 1
SYMMETRY Symmetry
PROPERTY ManagerOutlivesImage
