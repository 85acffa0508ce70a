SPECIFICATION FairSpec
CONSTANTS
  a = a
  b = b
  c = c
  d = d
  r1 = r1
  r2 = r2
  r3 = r3
  Pages <- MCPages
  Spaces <- MCSpaces
  Reqs <- MCReqs
  Ops <- AllOps
  Solo = TRUE
  Tree0 <- MCTree
  Linked0 <- MCLinked
  Home0 <- MCHome
  MaxDepth = 2
  MaxOps = 3
  MaxMishaps = 1
  None = None

INVARIANTS Rooted NestingInSpace DraftsGated StoreFollowsRows
PROPERTIES MovesEnd
CHECK_DEADLOCK FALSE
