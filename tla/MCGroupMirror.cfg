SPECIFICATION FairSpec
CONSTANTS
  g1 = g1
  c1 = c1
  c2 = c2
  q1 = q1
  q2 = q2
  w1 = w1
  Groups <- MCOneGroup
  Conns <- MCConns
  Reqs <- MCTwo
  Drainers <- MCOneDrain
  Ops <- MCAllOps
  MaxRemovals = 2
  MaxFailures = 1
INVARIANTS DriftIsWrittenDown
PROPERTIES QueuedLands
CHECK_DEADLOCK FALSE
