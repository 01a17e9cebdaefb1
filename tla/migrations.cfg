SPECIFICATION Spec
CONSTANTS
  Replicas = {r1, r2}
  Count = 3
  MaxStops = 3
  MaxFaults = 2
INVARIANTS
  ServesCompleteSchema
  AppliedInOrder
