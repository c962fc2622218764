SPECIFICATION SpecE
CONSTANTS
  Streams = {s1, s2}
  None = None
  ExpandableSegments = TRUE
  MaxSplitSize = None
  GcEnabled = FALSE
  GcNumerator = 1
  GcDenominator = 2
  Bases <- SafetyBases
  DeviceMemory <- SafetyMemory
  Requests <- SafetyRequests
  Fractions = {}
  MaxActive = 2
  MaxAge = 0
INVARIANTS
  SegmentsTiled
  PoolsPartition
  StatsExact
  HandlesAgree
  OomIsLastResortE
  MapsUnmappedOnly
PROPERTY KeepsPromise
SYMMETRY StreamSymmetry
CHECK_DEADLOCK FALSE
