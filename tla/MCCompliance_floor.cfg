\* The same when the limit changes while the site is dimmed.
SPECIFICATION MCSpec
CONSTANTS
  Grace = 2
  KeepEvery = 2
  MaxSamples = 8
  Tolerance = 1
  Floors <- MCFloors
  Draws <- MCDraws
  Emergencies <- MCNoEmergency
  StepLengths <- MCOneStep
  NumberBase = 2
  NumberLimit = 8
  WritesMayFail = FALSE
  Genesis = Genesis
  MaxReports = 1
  MaxTime = 10
  None = None
INVARIANTS FollowedMeansWithinFloor
