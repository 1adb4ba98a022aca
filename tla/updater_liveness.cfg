SPECIFICATION FairSpec
CONSTANTS
  Ids = {a, b}
  None = None
  MaxAllowed = 2
  PrioLimit = 3
  UseUpdateDBusInterface = TRUE
  OthersSubscribed = TRUE
  Results = {"done", "failed"}
  ClientPriorities = {}
  Rewriting = {"NotReady", "Ready", "Failed"}
  MaxSignals = 1
PROPERTIES
  ActivationSettles
  UploadSettles
  ManagerBecomesFree
