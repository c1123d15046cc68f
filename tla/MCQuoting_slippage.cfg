\* A contract worth less than nothing.
SPECIFICATION Spec
CONSTANTS
  Nothing = Nothing
  Tick = 2
  Fundamentals <- Below
  Tilts <- NoTilt
  Recipes <- Valid
  UserPrices <- NearZero
  Window = 2
  Walk = {0}
  MeanRevert = 4
  FollowOf = 2
  MaxSlippage = 4
CHECK_DEADLOCK FALSE
PROPERTIES
  SlippageBounded
