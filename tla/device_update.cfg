SPECIFICATION Spec
CONSTANTS
  Swids = {a, b, c}
  None = None
  AllowedApplyTimes = {"Immediate", "OnReset"}
  LoggingFails = TRUE
INVARIANTS
  TypeOK
  ObjectsOwned
  CurrentUpdatable
  ResetBringsShown
PROPERTY ImplementsSlots
