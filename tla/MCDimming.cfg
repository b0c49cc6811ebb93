\* A contract with a daily limit, emergencies, midnights, a limit sent with
\* the command, lasting surplus, a random wait and a stalled cycle.
SPECIFICATION Spec
CONSTANTS
  FloorKw = 4
  MarginKw = 0
  RatedLoadsKw = 12
  SurplusHoldS = 2
  ReleaseRampS = 4
  ReleaseDelayMaxS = 2
  IsContract = TRUE
  DayLimitS = 2
  MaxStepS = 1
  LimitsKw <- MCLimitsKw
  SurplusesKw <- MCSurplusesKw
  StepLengths <- MCSteps
  MaxTime = 7
  MaxDay = 1
  None = None
  Infinity = Infinity
INVARIANTS SurplusMustLast ReleaseOnTime ContractDayLimit
PROPERTIES GradualRelease
