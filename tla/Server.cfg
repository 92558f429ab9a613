SPECIFICATION Spec
CONSTANTS
  PoolMax = 1
  IdleTimeout = 1
  MaxLifetime = 1
  NoRequest = none
  StreamRids = {r1}
  BidiRids = {b1}
  StreamBackends = {"Auto", "Upstream"}
  HighWatermark = 2
  Modulus = 8
  LocalReady = TRUE
  PreferLocal = TRUE
  MaxChunks = 2
  Uptime = 0
  MaxNow = 1
ACTION_CONSTRAINT ClockMatters
INVARIANTS
  StreamWritesGoThroughQueue
  NothingLeftRegistered
  InflightExact
PROPERTIES
  CallsReturn
  JobsAnswered
  ShutdownCompletes
