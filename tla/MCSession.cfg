\* Windows and timers against an arbitrary peer; the sequence numbers wrap.
\* Letters of every type in a stream cut anywhere.  Nine years of days.
SPECIFICATION MCSpec
CONSTANTS
  K = 2
  W = 2
  T1 = 3
  T2 = 2
  T3 = 4
  MaxQueue = 2
  Modulo = 4
  Asdus <- MCAsdus
  MaxTime = 7
  None = None
  Talks <- MCTalks
  Malformed = Malformed
  NewYears <- MCNewYears
  Years = 3
INVARIANTS SendWindow AckDiscipline NoTimerMissed NoIdleWindow WireIsFaithful CalendarIsRight
