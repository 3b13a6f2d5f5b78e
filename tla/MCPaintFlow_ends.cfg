SPECIFICATION Spec
CONSTANTS
  Project = project
  t1 = t1
  t2 = t2
  p1 = p1
  p2 = p2
  p3 = p3
  w1 = w1
  w2 = w2
  s1 = s1
  s2 = s2
  Tasks = {t1}
  Parts = {p1, p2}
  TaskOf <- MCTaskOf
  SeedOf <- MCSeedOf
  Workers = {w1, w2}
  RolesOf <- MCRolesOf
  W2Roles = {"mainApp", "stageWorker", "paintWorker"}
  W2Minor = 0
  ReleaseOf <- MCReleaseOf
  OriginRelease <- MCOriginRelease
  MaxStalled = 1
  MaxCrashes = 1
  MaxSpurious = 1
  MaxTime = 1
PROPERTIES AnsweredOrFailed
CHECK_DEADLOCK FALSE
