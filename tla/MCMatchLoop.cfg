\* Two books, three orders at rest at most.
SPECIFICATION FairSpec
CONSTANTS
  A = A
  B = B
  D1 = D1
  Area = {A, B}
  AreaRank <- Rank
  MaxQuantity = 3
  Id = {1, 2, 3}
  Delivery = D1
  Takers <- SomeTakers
  Reach <- HomeOrAll
INVARIANTS
  WalksAgree
PROPERTIES
  SweepEnds
  ImplementsPriceTime
