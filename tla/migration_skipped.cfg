SPECIFICATION Spec
CONSTANTS
  Replicas = {r1}
  Count = 1
  MaxStops = 1
  MaxFaults = 0
INVARIANTS
  AppliedAreSkipped
