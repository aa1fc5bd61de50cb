\* Every kind of frame: a hidden network and one with a long name, stray frames
\* of both types, radiotap headers with and without the field.
SPECIFICATION Spec
CONSTANTS
  Ssids = {hidden, s1, long}
  LongSsids = {long}
  Bssids = {b1, b2}
  Addrs = {a1}
  Readings = {r1, none}
  Empty = hidden
  Absent = none
  StrayTypes = {"zero", "other"}
  MAX_PACKET_INFO_COUNT = 3
  MAX_PACKET_CAPTURE_COUNT = 4
SYMMETRY Symmetry
INVARIANTS TypeOK DistinctBeacons NoNetworkMissed SavedBeaconWasHeard LeftOversAreOlder
  SameNameNoticed
PROPERTIES FirstFrameWins
CHECK_DEADLOCK FALSE
