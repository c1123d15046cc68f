\* Two commands of one page leave two scenarios running.
SPECIFICATION Spec
CONSTANTS
  P = P
  Q = Q
  H = H
  N = N
  U = U
  Pools = {P, Q}
  PoolOf <- TwoPools
  PeriodOf <- TwoPeriods
  MaxFills = 1
  MaxFails = 1
  MaxWaiting = 0
  Home = {H}
  Neighbour = {N}
  Prints <- ThreePrints
  RingSize = 2
  BufferCap = 2
  DisplayCap = 1
  BufferSpan = 1
  Windows = {1, 2}
  Buckets = 2
  Unknown = U
  MaxPrints = 3
  MaxTime = 2
  MaxClicks = 2
  MaxPicks = 2
  Scenario = {1, 2}
  Stages = 2
  MaxTasks = 2
  MaxTroubles = 0
INVARIANTS
  AtMostOneRuns
