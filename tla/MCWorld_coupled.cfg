\* Two coupled areas: gate offset, capacity, execution options.
SPECIFICATION FairSpec
CONSTANTS
  A = A
  B = B
  P1 = P1
  P2 = P2
  D1 = D1
  D2 = D2
  Counterparty = Counterparty
  Uncapped = Uncapped
  Never = Never
  Area = {A, B}
  AreaRank <- TwoRank
  MaxQuantity = 2
  Period = {D1}
  Start <- TwoStart
  Gridpool = {P1, P2}
  PoolAreas <- TwoPoolAreas
  SelfTradePolicy <- RejectAllow
  Coupling <- CappedEdge
  Price = {1, 2}
  Requests <- CoupledRequests
  CounterpartyRequests <- CoupledCpRequests
  Updates = {}
  MaxOrders = 4
  MaxTime = 2
INVARIANTS
  NoCrossedEdge
  NoSelfTrade
  ImmediateOrdersResolve
  EdgeDebitsMatchTape
  ShownMatchesBook
PROPERTIES
  GatesHold
  BooksClear
