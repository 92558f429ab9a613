SPECIFICATION Spec
CONSTANTS
  PoolMax = 2
  IdleTimeout = 1
  MaxLifetime = 3
  NoRequest = none
  StreamRids = {r1, r2}
  BidiRids = {}
  StreamBackends = {"Upstream"}
  HighWatermark = 2
  Modulus = 8
  LocalReady = FALSE
  PreferLocal = FALSE
  MaxChunks = 1
  MaxAudio = 1
  CancelRids = {}
  HarnessBinds = TRUE
  Uptime = 0
  MaxNow = 1
SYMMETRY StreamSymmetry
INVARIANTS
  LruSorted
  NothingTerminalSurvives
  SessionBacklink
  PoolMirrorsLinks
PROPERTIES
  SessionsOnlyAdvance
ACTION_CONSTRAINTS
  SendersBetweenPhases
  FewWaiting
