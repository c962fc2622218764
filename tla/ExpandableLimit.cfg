SPECIFICATION OneThreadSpecE
CONSTANTS
  Streams = {s1}
  None = None
  ExpandableSegments = TRUE
  MaxSplitSize = None
  GcEnabled = FALSE
  GcNumerator = 1
  GcDenominator = 2
  Bases <- SafetyBases
  DeviceMemory <- SafetyMemory
  Requests <- LimitRequests
  Fractions <- LimitFractions
  MaxActive = 2
  MaxAge = 0
PROPERTY LimitHeld
CHECK_DEADLOCK FALSE
