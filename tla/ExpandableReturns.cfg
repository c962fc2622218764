SPECIFICATION FairSpecE
CONSTANTS
  Streams = {s1}
  None = None
  ExpandableSegments = TRUE
  MaxSplitSize = None
  GcEnabled = FALSE
  GcNumerator = 1
  GcDenominator = 2
  Bases <- ReturnsBases
  DeviceMemory <- SafetyMemory
  Requests <- ReturnsRequests
  Fractions = {}
  MaxActive = 2
  MaxAge = 0
PROPERTY CallReturnsE
CHECK_DEADLOCK FALSE
