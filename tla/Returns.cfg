SPECIFICATION FairSpec
CONSTANTS
  Streams = {s1}
  None = None
  ExpandableSegments = FALSE
  MaxSplitSize <- MaxSplit
  GcEnabled = TRUE
  GcNumerator = 1
  GcDenominator = 2
  Bases <- MaxSplitBases
  DeviceMemory <- MaxSplitMemory
  Requests <- ReturnsRequests
  Fractions <- LimitsFractions
  MaxActive = 2
  MaxAge = 1
PROPERTY CallReturns
