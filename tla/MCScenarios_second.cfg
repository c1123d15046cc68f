\* Violation: a second running scenario is not advanced.
SPECIFICATION ScenariosSpec
CONSTANTS
  Spike = Spike
  Belly = Belly
  Home = Home
  Coast = Coast
  Hours = 3
  Scenario <- TwoScenarios
  Definitions <- TwoDefinitions
  Location = {Home, Coast}
  Default = Home
  Cover = {0, 1}
  Bias = {20, 80}
  Unset = Unset
  NotRunning = NotRunning
  Idle = Idle
PROPERTIES
  PickAdvancesEveryScenario
