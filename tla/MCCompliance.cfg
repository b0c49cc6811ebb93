\* One event of any course, and several with restarts and failing writes.
SPECIFICATION MCSpec
CONSTANTS
  Grace = 2
  KeepEvery = 2
  MaxSamples = 3
  Tolerance = 1
  Floors <- MCOneFloor
  Draws <- MCDraws
  Emergencies <- MCEmergency
  StepLengths <- MCSteps
  NumberBase = 2
  NumberLimit = 8
  WritesMayFail = TRUE
  Genesis = Genesis
  MaxReports = 4
  MaxTime = 12
  None = None
INVARIANTS VerdictIsTrue ChainOnDisk EndedReductionsReported
PROPERTIES ChainContinues
