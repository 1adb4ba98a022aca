SPECIFICATION Spec
CONSTANTS
  Ids = {a, b}
  None = None
  MaxAllowed = 2
  PrioLimit = 3
  UseUpdateDBusInterface = FALSE
  OthersSubscribed = FALSE
  Results = {"done", "failed", "canceled"}
  ClientPriorities = {0, 2}
  Rewriting = {"NotReady", "Ready", "Activating", "Failed"}
  MaxSignals = 1
SYMMETRY Symmetry
INVARIANTS
  TypeOK
  BlocksWhileActivating
  SavedPriorityCurrent
