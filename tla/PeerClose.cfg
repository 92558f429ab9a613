SPECIFICATION TransportSpec
CONSTANTS
  MaxFrames = 1
  MaxChunks = 1
INVARIANT SurvivesDisconnect
CHECK_DEADLOCK FALSE
