\* Channels of one event and one ASDU, fewer than the requests one of the
\* centres has under way, and a session queue of four, which overflows while
\* data transfer is stopped: with one point, a later report of that point is
\* behind whatever is dropped.
CONSTANTS
  Mixes <- MCMixes
  Capacity = 1
  MaxQueue = 4
  Deadband <- MCDeadband
  SelectLimit = 1
  None = None
  Unreported = Unreported
SPECIFICATION StFairSpec
INVARIANTS CentreIsToldTheTruth
PROPERTIES ServeEnds CentreCatchesUp
