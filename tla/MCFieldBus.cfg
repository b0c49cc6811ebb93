\* Periods of a second; the half-minute refresh, the watchdogs and the external
\* request's timeout are shortened, the reconnect delay and the stale limit are
\* the code's.  Eighteen devices answer in registers.
CONSTANTS
  None = None
  Absent = Absent
  Units <- MCUnits
  Moves <- MCMoves
  Targets <- MCTargets
  Configured <- MCConfigured
  Rated <- MCRated
  Revert = 2
  ExtTimeout = 3
  RampStep = 500
  Suns = {0, 1000}
  AgeMax = 4
  Setpoints <- MCSetpoints
  FailsafeA = 60
  FailsafeTimeout = 3
  WatchdogS = 3
  Refresh = 3
  Stale = 3
  ReconnectDelay = 2
  Settle = 5
  Notice = 3
  FallBack = 6
SPECIFICATION MCSpec
INVARIANTS FieldIsTrue SetpointReachesDevice OrphanFallsBack
