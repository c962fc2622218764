SPECIFICATION Spec
CONSTANTS
  Threads = {t1, t2}
  t1 = t1
  t2 = t2
  s3 = s3
  p1 = p1
  p2 = p2
  Devices <- MCDevices
  Streams = {s1, s3}
  DeviceOf <- MCDeviceOf
  Addresses = {p1, p2}
  HomeOf <- MCHomeOf
  Events = {e1, e2, e3, e4}
  MaxWork = 1
  MaxRecorded = 2
  None = None
INVARIANTS
  OneOwner
  SafeReuse
  EventsOwned
  DeviceKept
  SafeRelease
SYMMETRY Symmetry
