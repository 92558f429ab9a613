SPECIFICATION Spec
CONSTANTS
  PoolMax = 1
  IdleTimeout = 1
  MaxLifetime = 3
  NoRequest = none
  StreamRids = {}
  BidiRids = {b1}
  StreamBackends = {"Auto", "Upstream"}
  HighWatermark = 2
  Modulus = 8
  LocalReady = TRUE
  PreferLocal = TRUE
  MaxChunks = 1
  Uptime = 0
  MaxNow = 0
INVARIANTS
  StreamOutlivesAnswers
