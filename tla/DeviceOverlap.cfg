\* One sync run at a time, two Timers, and captures longer than the sleep: a run may
\* still wait for its answer, or for its post, when its successor begins.
SPECIFICATION DeviceSpec
CONSTANTS
  Workers = {w1}
  Configs = {c1, c2}
  ValidConfigs = {c1, c2}
  Tasks = {k1, k2}
  Null = null
  Slow = {"await", "post"}
  Threads = {t1, t2}
  JavaConns = {j1, j2}
  Conns = {j1, j2}
  Commands = {"capture"}
  Failures = {"lookup", "device"}
  ClientFailures = {"parse","post"}
  BACKLOG = 2
  MaxHandles = 2
  MaxSends = 2
  NoConn = none
SYMMETRY Symmetry
INVARIANTS OneAsks ServerNotHeld PostsOwnCapture
PROPERTIES ImplementsCall
CHECK_DEADLOCK FALSE
