\* One Timer thread, another local client that may send anything or nothing, every
\* failure of either side.
SPECIFICATION FairSystem
CONSTANTS
  Threads = {t1}
  JavaConns = {c1, c2}
  Conns = {c1, c2, o1}
  Commands = {"capture", "exit", "other"}
  Failures = {"start", "accept", "lookup", "peer", "device"}
  ClientFailures = {"parse", "post"}
  BACKLOG = 2
  MaxHandles = 2
  MaxSends = 2
  NoConn = none
INVARIANTS ClientTypeOK PostsOwnCapture TypeOK CaptureAnsweredFresh NobodyForgotten
PROPERTIES ImplementsCall RunsEnd EveryoneServed
CHECK_DEADLOCK FALSE
