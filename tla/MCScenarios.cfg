\* Two scenarios, two locations: operator, configuration and clock race the bias tick.
SPECIFICATION ScenariosFairSpec
CONSTANTS
  Spike = Spike
  Belly = Belly
  Home = Home
  Coast = Coast
  Hours = 3
  Scenario <- TwoScenarios
  Definitions <- TwoDefinitions
  Location = {Home, Coast}
  Default = Home
  Cover = {0, 1}
  Bias = {20, 80}
  Unset = Unset
  NotRunning = NotRunning
  Idle = Idle
INVARIANTS
  ScenariosConsistent
PROPERTIES
  PickIsRight
  WeatherReturns
