\* Ticks; a quarter-hour of two, a plan followed for three.  A site is dimmed or
\* not: no change of it is treated differently from another.
CONSTANTS
  None = None
  Chargers = {}
  Quarter = 2
  PlanMaxAge = 3
  Retry = 2
  MinRefetch = 1
  Refresh = 6
  Feeds = {"prices"}
  ShortBelow <- MCShortBelow
  Published <- MCPublished
  Usable = 1
  SaveEvery = 2
  MaxBlock = 1
  ServedFor = 4
  KnownFor = 5
  NoPrice = NoPrice
  Hour = 2
  Day = 2
  Keep = 4
  Window = 4
  Starts = {0, 2}
  Fetches = 2
  Nil = Nil
  QuarterLen = 4
  DtMax = 2
  DaySlots = 2
  Weekend = {1}
  PeriodLen = 2
  Powers = {0, 12}
  Steps = {1, 2, 5}
  EndOfTime = 13
  Missing = Missing
  KeepSky = 6
  SkyStarts = {0, 3}
  SkySteps = 3
  Answers = 2
  Looks = 2
  Installed = 1000
  Ratio = 850
  Seen = {0, 1000}
SPECIFICATION MCSpec
INVARIANTS PlanIsOfNow PricesAreKept ForecastsAreTrue MetersAreTrue
