SPECIFICATION Spec
CONSTANTS
  f = f
  g = g
  Names <- MCNames
  Texts <- MCTexts
  ClusterSize = 2
  Clusters <- MCClusters
  Volume <- MCClusters
  MaxSlots = 2
  MaxLen = 3
  CopyLimit = 4
  Kinds <- MCAll
  Crashes = FALSE
  Faults = FALSE
  Shadowing = FALSE
  RoomForWrites = TRUE
SYMMETRY MCSymmetry
INVARIANTS NoLeak MirrorAgrees
PROPERTY RefinesFileStore
