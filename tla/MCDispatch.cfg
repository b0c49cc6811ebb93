\* Setpoints of one control cycle, closed over the devices, for five sites;
\* plans of three quarters, followed for two, on seven sites; 192 files.
SPECIFICATION MCSpec
CONSTANTS
  Sites <- MCSites
  Environments <- MCEnvironments
  Infinity = Infinity
  None = None
  Scenarios <- MCScenarios
  Horizon = 3
  FollowedFor = 2
  DimExpected = 2
  Recovery = 2
  Nothing = Nothing
  Files <- MCFiles
INVARIANTS SetpointsFit PlansAreGood AcceptedFilesRun
PROPERTIES FloorIsKept NoGridChargingFromTheOpenSun CarsAreServedInTurn FeedInLimitIsKept
