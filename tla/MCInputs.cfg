\* Relay: polls; debounce of two, a module lost after five.  EEBUS: seconds;
\* a keepalive of two, failsafe rules of two.
CONSTANTS
  Policies = {"hold", "dim"}
  Hold = 2
  LostAfter = 5
  IoTimeout = 2
  ConnectTimeout = 3
  ReconnectDelay = 3
  Answer = 1
  RelayAgeMax = 20
  Silence = 3
  KeepAlive = 2
  InitTimeout = 2
  FailsafeMin = 2
  Durations = {0, 2}
  Limits = {"limit"}
  FailsafeW = "failsafe"
  EebusAgeMax = 10
  NoLimit = NoLimit
SPECIFICATION MCSpec
INVARIANTS GuardIsFollowed
PROPERTIES RelayIsFollowed
