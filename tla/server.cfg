SPECIFICATION ServerSpec
CONSTANTS
  Replicas = {r1}
  Sweepers = {r1}
  Clients = {c1, c2}
  Requests <- AllRequests
  TotalStock = 1
  Hold = 1
  MaxSent = 3
  MaxRequests = 3
  MaxSweeps = 1
  MaxTime = 1
  MaxCrashes = 1
  MaxBoots = 1
  MaxFaults = 1
SYMMETRY ClientSymmetry
INVARIANTS
  AnswersDocumented
  AnswersMatchRows
  
PROPERTIES
  NotFoundMeansMissing
