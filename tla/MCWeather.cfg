\* Two streams share the ring while two grid points and an area register,
\* and are replayed.
SPECIFICATION FairSpec
CONSTANTS
  Point = {P1, P2}
  Default = P1
  AreaCodes = {A}
  Cover = {0}
  Subscriber = {C1, C2}
  HistoryCap = 2
  ChannelCap = 1
  MaxFrames = 1
  MaxTime = 1
  MaxChanges = 2
CHECK_DEADLOCK FALSE
INVARIANTS
  WeatherConsistent
PROPERTIES
  StreamsEnd
