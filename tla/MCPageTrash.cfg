SPECIFICATION FairSpec
CONSTANTS
  a = a
  b = b
  c = c
  u1 = u1
  u2 = u2
  s1 = s1
  Pages <- MCPages
  Tree0 <- MCTree
  Trash0 <- MCTrash
  Users <- MCUsers
  Sweepers <- MCSweepers
  Ops <- AllOps
  Solo = TRUE
  MaxOps = 2
  MaxMishaps = 1
  None = None

INVARIANTS HiddenIffListed LiveUnderLive
PROPERTIES OrphansHeal
CHECK_DEADLOCK FALSE
