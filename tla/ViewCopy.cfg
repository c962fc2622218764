SPECIFICATION Spec
CONSTANTS
  Bases <- MCBases
  Resizes <- MCResizes
  MaxDims = 3
  MaxNumel = 8
  MaxOps = 4
  CombinedEnable = TRUE
  Buckets = 3
  CachedMaxSize = 1
INVARIANTS TypeOK CopyOfViewExact NeverNested StorageHolds
PROPERTY CacheTransparent
CHECK_DEADLOCK FALSE
