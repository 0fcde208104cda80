\* Three creators on two HTTP workers, one port: exhaustion of the port range,
\* sessions that share port 0, close and reuse all happen.
CONSTANTS
  None = None
  w1 = w1  w2 = w2
  j1 = j1
  c1 = c1  c2 = c2  c3 = c3
  s1 = s1  s2 = s2  s3 = s3
  Workers <- TwoWorkers
  JoinRequests <- NoJoin
  CreateRequests <- ThreeCreates
  Sessions <- ThreeSessions
  FirstPort = 1
  LastPort = 1
SPECIFICATION Spec
SYMMETRY Symmetry
INVARIANTS
  SessionFoundByPort
  AnswerOnce
  ReplyNamesSession
  DisplacedServerStopped
  
PROPERTIES
  ImplementsService
  ImplementsLives
  
CHECK_DEADLOCK FALSE
