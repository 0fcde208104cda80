\* One creator: its session is closed while the loop still runs.
CONSTANTS
  None = None
  w1 = w1  w2 = w2
  j1 = j1
  c1 = c1  c2 = c2  c3 = c3
  s1 = s1  s2 = s2  s3 = s3
  Workers <- TwoWorkers
  JoinRequests <- NoJoin
  CreateRequests <- TwoCreates
  Sessions <- TwoSessions
  FirstPort = 1
  LastPort = 1
SPECIFICATION Spec
INVARIANT InactiveServerClosed
CHECK_DEADLOCK FALSE
