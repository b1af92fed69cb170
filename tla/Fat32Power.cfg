SPECIFICATION Spec
CONSTANTS
  f = f
  g = g
  Names <- MCNames
  Texts <- MCShort
  ClusterSize = 2
  Clusters <- MCClusters
  Volume <- MCTwo
  MaxSlots = 2
  MaxLen = 6
  CopyLimit = 6
  Kinds <- MCGrowing
  Crashes = TRUE
  Faults = TRUE
  Shadowing = TRUE
  RoomForWrites = TRUE
SYMMETRY MCSymmetry
INVARIANT NoCrossLinks
PROPERTIES OthersIntact AppendAtomic
