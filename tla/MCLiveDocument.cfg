SPECIFICATION FairSpec
CONSTANTS
  t1 = t1
  t2 = t2
  e1 = e1
  e2 = e2
  x1 = x1
  r1 = r1
  k1 = k1
  Tabs <- MCOneTab
  Typed <- MCOneTyped
  Clears <- MCClears
  Restores <- MCRestores
  Compacts <- MCCompacts
  Retries = 1
  MaxMade = 3
  MaxPublishes = 1
  MaxMishaps = 1
  None = None

INVARIANTS NothingForgotten PublishCovers NoSpuriousBadge NoDoubling
PROPERTIES NeverBlanked EditsReachDraft
CHECK_DEADLOCK FALSE
