\* One sync run at a time, two Timers, and captures and posts longer than the sleep.
SPECIFICATION FairDevice
CONSTANTS
  Workers = {w1}
  Configs = {c1, c2}
  ValidConfigs = {c1, c2}
  Tasks = {k1, k2}
  Null = null
  Slow = {"await", "post"}
  Threads = {t1, t2}
  JavaConns = {j1, j2}
  Conns = {j1, j2}
  Commands = {"capture"}
  Failures = {}
  ClientFailures = {}
  BACKLOG = 2
  MaxHandles = 1
  MaxSends = 1
  NoConn = none
PROPERTIES SettledKeepsCapturing
CHECK_DEADLOCK FALSE
