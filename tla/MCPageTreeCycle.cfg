SPECIFICATION Spec
CONSTANTS
  a = a
  b = b
  c = c
  d = d
  r1 = r1
  r2 = r2
  r3 = r3
  Pages <- MCPages
  Spaces <- MCSpaces
  Reqs <- MCThreeReqs
  Ops <- MCMove
  Solo = FALSE
  Tree0 <- MCFolder
  Linked0 <- MCLinked
  Home0 <- MCSameSpace
  MaxDepth = 3
  MaxOps = 3
  MaxMishaps = 0
  None = None

INVARIANTS Rooted
CHECK_DEADLOCK FALSE
