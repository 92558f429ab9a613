SPECIFICATION Spec
CONSTANTS
  PoolMax = 1
  IdleTimeout = 1
  MaxLifetime = 3
  NoRequest = none
  StreamRids = {r1}
  BidiRids = {}
  StreamBackends = {"Upstream"}
  HighWatermark = 2
  Modulus = 8
  LocalReady = FALSE
  PreferLocal = FALSE
  MaxChunks = 1
  MaxAudio = 1
  CancelRids = {}
  HarnessBinds = TRUE
  Uptime = 0
  MaxNow = 1
SYMMETRY StreamSymmetry
INVARIANTS
  InflightDrains
ACTION_CONSTRAINT SendersBetweenPhases
