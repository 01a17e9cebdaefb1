SPECIFICATION Spec
CONSTANTS
  Replicas = {r1, r2}
  Sweepers = {}
  TotalStock = 1
  Hold = 1
  MaxRequests = 4
  MaxSweeps = 0
  MaxTime = 1
  MaxCrashes = 0
  MaxFaults = 0
INVARIANTS
  NoOversell
