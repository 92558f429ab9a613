SPECIFICATION TransportSpec
CONSTANTS
  MaxFrames = 3
  MaxChunks = 2
INVARIANTS
  NoGapInFrames
  SelfJoinOnlyIfEnded
PROPERTIES
  WritesInOrder
  TakenIsWritten
  CloseCompletes
CHECK_DEADLOCK FALSE
