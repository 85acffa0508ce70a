SPECIFICATION FairSpec
CONSTANTS
  p1 = p1
  t1 = t1
  w1 = w1
  Pages <- MCPages
  TenantOf <- MCTenantOf
  Rows <- MCRows
  Workers <- MCWorkers
  Stale = 1
  MaxMishaps = 1
  NoRow = NoRow
  Absent = Absent
INVARIANTS LagIsPendingAlone
PROPERTIES NeverBackwards RowsDrain
CHECK_DEADLOCK FALSE
