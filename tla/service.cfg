SPECIFICATION Spec
CONSTANTS
  p1 = p1
  p2 = p2
  Clients = {c1, c2}
  Sweepers = {}
  ProductIDs = {p1, p2}
  Stock <- TwoUnits
  Hold = 1
  NoThread = NoThread
  NoProduct = NoProduct
  MaxRequests = 5
  MaxTime = 2
INVARIANTS
  TypeOK
  NoOversell
  CountersMatchReservations
  LogMatchesReservations
  LogReplaysLegally
  NoStaleHoldAtDecision
PROPERTIES
  TerminalIsFinal
  ImplementsLedger
