\* Two runs that may overlap, as a slow fetch makes them, and one Timer thread that
\* both want: a run can find the field null, or held by the other, at every read.
SPECIFICATION FairSpec
CONSTANTS
  Workers = {w1, w2}
  Configs = {c1, c2}
  ValidConfigs = {c1, c2}
  Timers = {t1}
  Tasks = {k1, k2, k3, k4}
  Null = null
INVARIANTS TypeOK
PROPERTIES EventuallySaved
