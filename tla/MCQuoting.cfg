\* The tick, the maker, an aggressor and a user around positive prices.
SPECIFICATION Spec
CONSTANTS
  Nothing = Nothing
  Tick = 2
  Fundamentals <- Up
  Tilts <- SmallTilts
  Recipes <- Valid
  UserPrices <- Calls
  Window = 2
  Walk = {0}
  MeanRevert = 4
  FollowOf = 2
  MaxSlippage = 4
CHECK_DEADLOCK FALSE
INVARIANTS
  QuotingConsistent
PROPERTIES
  PricesInMarket
