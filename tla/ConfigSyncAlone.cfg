\* Runs that do not overlap.  Two valid configurations and one that is refused.
SPECIFICATION FairSpec
CONSTANTS
  Workers = {w1}
  Configs = {c1, c2, bad}
  ValidConfigs = {c1, c2}
  Timers = {t1, t2}
  Tasks = {k1, k2}
  Null = null
INVARIANTS OneSchedule SavedConfigApplied
PROPERTIES FollowsConfig EventuallyApplied
