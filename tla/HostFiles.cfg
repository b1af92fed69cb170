SPECIFICATION FairSpec
CONSTANTS
  Names <- MCNames
  Pulled <- MCPulled
  Host <- MCHost
  ChunkSize = 2
  StageSize = 3
  Capacity = 2
  RingSize = 1
  Word = 50
  Stale <- MCStale
INVARIANTS SavedIsPrefix SavesWhole
PROPERTY CommandsEnd
CHECK_DEADLOCK FALSE
