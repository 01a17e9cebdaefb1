SPECIFICATION FairSpec
CONSTANTS
  Replicas = {r1}
  Sweepers = {}
  Clients = {c1, c2}
  Requests <- Writes
  TotalStock = 2
  Hold = 1
  MaxSent = 4
  MaxRequests = 4
  MaxSweeps = 0
  MaxTime = 1
  MaxCrashes = 1
  MaxBoots = 0
  MaxFaults = 0
INVARIANTS
  CountersMatchRows
  RowsLogged
PROPERTIES
  ImplementsLedger
  ShutdownEnds
  RequestsAnswered
