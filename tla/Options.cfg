SPECIFICATION OneThreadSpec
CONSTANTS
  Streams = {s1, s2}
  None = None
  ExpandableSegments = FALSE
  MaxSplitSize <- MaxSplit
  GcEnabled = TRUE
  GcNumerator = 1
  GcDenominator = 2
  Bases <- MaxSplitBases
  DeviceMemory <- MaxSplitMemory
  Requests <- MaxSplitRequests
  Fractions <- LimitsFractions
  MaxActive = 2
  MaxAge = 1
INVARIANT OversizeIsWhole
PROPERTIES
  LimitHeld
  KeepsPromise
SYMMETRY StreamSymmetry
