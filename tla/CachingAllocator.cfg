SPECIFICATION Spec
CONSTANTS
  Streams = {s1, s2}
  None = None
  ExpandableSegments = FALSE
  MaxSplitSize = None
  GcEnabled = FALSE
  GcNumerator = 1
  GcDenominator = 2
  Bases <- SafetyBases
  DeviceMemory <- SafetyMemory
  Requests <- SafetyRequests
  Fractions = {}
  MaxActive = 3
  MaxAge = 0
INVARIANTS
  TypeOK
  NoOverlap
  SegmentsTiled
  PoolsPartition
  Coalesced
  EventsCounted
  StreamSafe
  StatsExact
  OomIsLastResort
PROPERTY KeepsPromise
SYMMETRY StreamSymmetry
