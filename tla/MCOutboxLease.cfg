SPECIFICATION LeaseFairSpec
CONSTANTS
  w1 = w1
  w2 = w2
  t1 = t1
  t2 = t2
  Rows <- MCRows
  Workers <- MCWorkers
  Tenants <- MCTenants
  TenantOf <- MCTenantOf
  Poison <- MCPoison
  Batch = 1
  Burst = 2
  Stale = 1
  TickEvery = 1
  Patience = 1
  MaxMishaps = 1
  NoRow = NoRow
INVARIANTS NoIntentLost LeaseExclusive
PROPERTIES PromiseKept GoodRowsDrain
