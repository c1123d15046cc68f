\* A modification between gate closure and the expiry sweep.
SPECIFICATION Spec
CONSTANTS
  A = A
  B = B
  P1 = P1
  P2 = P2
  D1 = D1
  D2 = D2
  Counterparty = Counterparty
  Uncapped = Uncapped
  Never = Never
  Area = {A}
  AreaRank <- OneRank
  MaxQuantity = 2
  Period = {D1}
  Start <- OneStart
  Gridpool = {P1, P2}
  PoolAreas <- OnePoolAreas
  SelfTradePolicy <- BothReject
  Coupling <- NoCoupling
  Price = {1, 2}
  Requests <- LifecycleRequests
  CounterpartyRequests = {}
  Updates <- LifecycleUpdates
  MaxOrders = 3
  MaxTime = 1
PROPERTIES
  NoTradeAfterGate
