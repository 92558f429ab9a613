SPECIFICATION Spec
CONSTANTS
  PoolMax = 1
  IdleTimeout = 1
  MaxLifetime = 1
  NoRequest = none
  StreamRids = {r1}
  BidiRids = {b1}
  StreamBackends = {"Local", "Upstream"}
  HighWatermark = 2
  Modulus = 8
  LocalReady = TRUE
  PreferLocal = FALSE
  MaxChunks = 2
  MaxAudio = 1
  CancelRids = {r1, b1}
  HarnessBinds = TRUE
  Uptime = 0
  MaxNow = 1
INVARIANTS
  PoolConsistent
  InflightWithin
  FinalOnce
ACTION_CONSTRAINT SendersBetweenPhases
