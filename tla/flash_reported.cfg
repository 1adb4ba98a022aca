CONSTANTS
  d1 = d1
  l1 = l1
  Devices = {d1}
  Lines = {l1}
  MaxRequests = 1
SPECIFICATION SafeSpec
INVARIANTS
  ReportedMeansWritten
