CONSTANTS
  DEPTH = 2
  CACHE_BLOCKS = 2
  ARLEN = 2
  w1 = w1
  w2 = w2
  Words = {w1, w2}
  Lanes <- MCLanes
  Data <- MCData
  Stores <- MCStores
  Kinds = {"load", "store", "fence", "other"}
  DrainedFence = TRUE
  NoStoreAfterFence = TRUE
SPECIFICATION Spec
INVARIANTS
  MemoryIsProgramOrder
  LoadsSeeProgramOrder
PROPERTIES
  RequestHeld
  EachStoreWrittenOnce
  EveryStoreReportedOnce
