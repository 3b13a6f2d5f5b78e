SPECIFICATION Spec
CONSTANTS
  Project = project
  t1 = t1
  t2 = t2
  p1 = p1
  p2 = p2
  p3 = p3
  w1 = w1
  w2 = w2
  s1 = s1
  s2 = s2
  Tasks = {t1, t2}
  Parts = {p1, p3}
  TaskOf <- MCTaskOf
  SeedOf <- MCSeedOf
  Workers = {w1, w2}
  RolesOf <- MCRolesOf
  W2Roles = {"stageWorker", "paintWorker"}
  W2Minor = 0
  ReleaseOf <- MCReleaseOf
  OriginRelease <- MCOriginRelease
  MaxStalled = 1
  MaxCrashes = 0
  MaxSpurious = 0
  MaxTime = 0
INVARIANTS ErrorCasesReply
CHECK_DEADLOCK FALSE
