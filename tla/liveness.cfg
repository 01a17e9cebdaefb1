SPECIFICATION FairSpec
CONSTANTS
  p1 = p1
  p2 = p2
  Clients = {c1, c2}
  Sweepers = {s1}
  ProductIDs = {p1, p2}
  Stock <- OneUnitEach
  Hold = 1
  NoThread = NoThread
  NoProduct = NoProduct
  MaxRequests = 2
  MaxTime = 1
INVARIANTS
  EventIDsOrdered
  ShadowMatchesLog
PROPERTIES
  UsesKeyedMutex
  LapsedHoldsReleased
  RequestsReturn
