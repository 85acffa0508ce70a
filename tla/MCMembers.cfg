SPECIFICATION Spec
CONSTANTS
  s1 = s1
  s2 = s2
  s3 = s3
  q1 = q1
  q2 = q2
  Subs <- MCSubs
  Founder = s1
  Reqs <- MCReqs
  Ops <- AllOps
  Solo = TRUE
  HighCap = 3
  LowCap = 2
  AutoEnrol = TRUE
  MaxLosses = 1
  NoReq = NoReq

INVARIANTS AdminFloor GrantsMatchRows
PROPERTIES SeatGate
SYMMETRY MCSymmetry
