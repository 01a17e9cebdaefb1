SPECIFICATION Spec
CONSTANTS
  p1 = p1
  p2 = p2
  Clients = {c1, c2}
  Sweepers = {s1}
  ProductIDs = {p1, p2}
  Stock <- OneUnit
  Hold = 1
  NoThread = NoThread
  NoProduct = NoProduct
  MaxRequests = 4
  MaxTime = 1
INVARIANTS
  StockNeverNegative
  CountersMatchLog
  WindowRespected
  AnswersAreTrue
  ExpiredMetricLogged
PROPERTIES
  WritesUnderLock
  OnlySweepOverwrites
