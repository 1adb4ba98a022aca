SPECIFICATION Spec
CONSTANTS
  v1 = v1
  v2 = v2
  v3 = v3
  Versions = {v1, v2, v3}
  Nobody = Nobody
  MaxAllowed = 2
  KeepMax = 2
  NumSlots = 6
  PrioLimit = 2
  Wanted = {1}
  MaxFaults = 2
  Quiet = TRUE
CHECK_DEADLOCK FALSE
SYMMETRY Symmetric
INVARIANTS TypeOK BootVolumesKept
PROPERTIES RunningVolumesKept ActivatedBootsNext PrioritiesSurvive
