SPECIFICATION EditFairSpec
CONSTANTS
  a = a
  b = b
  e = e
  Pods <- MCPods
  BodyEdits <- MCOneEdit
  Attempts = 2
  LockTTL = 2
  AckTimeout = 3
  MaxMishaps = 1
  NoReq = NoReq
INVARIANTS OneAtATime AnswersAreTrue
PROPERTIES LockComesFree
CHECK_DEADLOCK FALSE
