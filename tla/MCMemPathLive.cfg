CONSTANTS
  DEPTH = 2
  CACHE_BLOCKS = 4
  ARLEN = 3
  w1 = w1
  w2 = w2
  Words = {w1}
  Lanes <- MCOneLane
  Data <- MCData
  Stores <- MCOneStore
  Kinds = {"load", "store", "fence", "other"}
  DrainedFence = TRUE
  NoStoreAfterFence = TRUE
SPECIFICATION Spec
PROPERTIES
  MemoryOpsFinish
  StoresDrain
