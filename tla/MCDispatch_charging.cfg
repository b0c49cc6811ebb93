\* May a plan charge a battery from the grid while consumption is dimmed?
SPECIFICATION MCSpec
CONSTANTS
  Sites <- MCSites
  Environments <- MCEnvironments
  Infinity = Infinity
  None = None
  Scenarios <- MCScenarios
  Horizon = 3
  FollowedFor = 2
  DimExpected = 2
  Recovery = 2
  Nothing = Nothing
  Files <- MCFiles
PROPERTIES NoGridChargingWhileDimmed
