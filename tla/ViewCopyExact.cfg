SPECIFICATION Spec
CONSTANTS
  Bases <- MCReshaped
  Resizes <- MCNoResize
  MaxDims = 3
  MaxNumel = 8
  MaxOps = 3
  CombinedEnable = FALSE
  Buckets = 1
  CachedMaxSize = 0
INVARIANT CopyExact
CHECK_DEADLOCK FALSE
