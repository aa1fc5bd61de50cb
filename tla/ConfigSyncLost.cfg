\* Two runs that overlap: a fetch slower than the interval of the trigger.
SPECIFICATION Spec
CONSTANTS
  Workers = {w1, w2}
  Configs = {c1, c2}
  ValidConfigs = {c1, c2}
  Timers = {t1, t2, t3}
  Tasks = {k1, k2, k3, k4, k5, k6, k7}
  Null = null
SYMMETRY Symmetry
INVARIANTS SavedConfigApplied
CHECK_DEADLOCK FALSE
