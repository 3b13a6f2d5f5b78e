SPECIFICATION Spec
CONSTANTS
  Origin = origin
  Workers = {w1}
  ObjectId = {o1, o2}
  Bodies = {b1}
  MaxMinor = 2
  Releases <- MCReleases
  FirstRelease <- MCFirstRelease
  MaxMessages = 3
SYMMETRY MCSymmetry
INVARIANTS TypeOK TraceForest OneMessagePerId RollingUpgradeSafe SettledIsExhausted
PROPERTY LifecycleAdvances
