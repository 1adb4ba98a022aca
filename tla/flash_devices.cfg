CONSTANTS
  d1 = d1
  d2 = d2
  l1 = l1
  Devices = {d1, d2}
  Lines = {l1}
  MaxRequests = 1
SPECIFICATION Spec
INVARIANTS
  HostOffWhileWriting
  MuxHeldAlone
  TornNeverReported
PROPERTIES
  UpdateEnds
