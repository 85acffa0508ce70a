SPECIFICATION Spec
CONSTANTS
  s1 = s1
  s2 = s2
  s3 = s3
  q1 = q1
  q2 = q2
  Subs <- MCTwoSubs
  Founder = s1
  Reqs <- MCReqs
  Ops <- MCRemove
  Solo = FALSE
  HighCap = 2
  LowCap = 1
  AutoEnrol = TRUE
  MaxLosses = 0
  NoReq = NoReq
INVARIANTS AdminFloor
