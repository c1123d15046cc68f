\* Two saves of five files race the watcher, or one and a timer that fires, or
\* two firings; notifications may break down.
SPECIFICATION ControlSpec
CONSTANTS
  DE = DE
  FR = FR
  Wide = Wide
  Tight = Tight
  Common = Common
  Library = Library
  O1 = O1
  O2 = O2
  Scale = Scale
  Low = Low
  High = High
  Pool = Pool
  Area = Area
  None = None
  Fleets = {DE, FR}
  Params = {Wide, Tight}
  Knob = {Scale}
  Setting = {Low, High}
  Initial = Low
  Item = {Pool, Area}
  SupportFile = {Common, Library}
  Order = {O1, O2}
  Contents <- Edits
  MaxSaves = 2
  MaxTicks = 2
  MaxInputs = 2
  ChannelCap = 2
  WatchFails = TRUE
CHECK_DEADLOCK FALSE
INVARIANTS
  ControlConsistent
  FleetsFollowTheFile
PROPERTIES
  SaveTakesEffect
  RecallsArrive
