SPECIFICATION Spec
CONSTANTS
  Names <- MCNames
  Pulled <- MCPulled
  Host <- MCHost
  ChunkSize = 2
  StageSize = 3
  Capacity = 1
  RingSize = 2
  Word = 50
  Stale <- MCStale
INVARIANT ReplyMatches
CHECK_DEADLOCK FALSE
