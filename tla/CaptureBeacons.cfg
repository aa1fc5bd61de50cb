\* Beacons only, names that fit, complete radiotap headers: the stream the
\* capture filter asks for.  Here the stronger claims hold too.
SPECIFICATION Spec
CONSTANTS
  Ssids = {hidden, s1}
  LongSsids = {}
  Bssids = {b1, b2}
  Addrs = {a1, a2}
  Readings = {r1}
  Empty = hidden
  Absent = none
  StrayTypes = {}
  MAX_PACKET_INFO_COUNT = 3
  MAX_PACKET_CAPTURE_COUNT = 4
SYMMETRY Symmetry
INVARIANTS EveryFrameAccounted
PROPERTIES ReportsDistinctNetworks
CHECK_DEADLOCK FALSE
