\* Sequence numbers that wrap, windows, STARTDT and STOPDT, and the timers on
\* both sides of a slow exchange.
SPECIFICATION LinkFairSpec
CONSTANTS
  K = 3
  W = 3
  T1 = 3
  T2 = 2
  T3 = 3
  MaxQueue = 2
  Modulo = 4
  Asdus <- MCAsdus
  MaxTime = 3
  None = None
  MaxSends = 4
  MaxCommands = 2
  MaxControls = 2
INVARIANTS NoReasonToClose
PROPERTIES QueueDrains ImplementsChannel
