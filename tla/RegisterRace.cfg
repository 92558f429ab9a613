SPECIFICATION Spec
CONSTANTS
  PoolMax = 1
  IdleTimeout = 1
  MaxLifetime = 3
  NoRequest = none
  StreamRids = {r1}
  BidiRids = {}
  StreamBackends = {"Auto", "Upstream"}
  HighWatermark = 2
  Modulus = 8
  LocalReady = TRUE
  PreferLocal = TRUE
  MaxChunks = 2
  Uptime = 0
  MaxNow = 0
INVARIANTS
  StreamAnswerFindsQueue
