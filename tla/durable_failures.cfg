SPECIFICATION Spec
CONSTANTS
  Replicas = {r1, r2}
  Sweepers = {r1}
  TotalStock = 1
  Hold = 1
  MaxRequests = 3
  MaxSweeps = 1
  MaxTime = 1
  MaxCrashes = 1
  MaxFaults = 1
INVARIANTS
  DurableTypeOK
  WindowRespected
PROPERTIES
  TerminalStatesExclusive
