SPECIFICATION Spec
CONSTANTS
  Replicas = {r1}
  Sweepers = {}
  TotalStock = 1
  Hold = 1
  MaxRequests = 4
  MaxSweeps = 0
  MaxTime = 1
  MaxCrashes = 1
  MaxFaults = 0
PROPERTIES
  ConfirmedIsFinal
