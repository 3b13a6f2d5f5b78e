SPECIFICATION Spec
CONSTANTS
  Requests = {q1, q2}
  Ids = {m1, m2}
  Subscribers = {s1, s2}
  NoRequest = NoRequest
  MaxReplies = 2
INVARIANTS
  TypeOK
  EntriesExpire
  WaitersAreReachable
PROPERTIES
  WaitersHearTheAnswer
  WaitersSettle
CHECK_DEADLOCK FALSE
