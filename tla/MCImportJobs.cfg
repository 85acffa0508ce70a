SPECIFICATION FairSpec
CONSTANTS
  w1 = w1
  w2 = w2
  sp = sp
  Imports <- MCImports
  SpaceOf <- MCSpaceOf
  Workers <- MCWorkers
  Nodes = 2
  Stale = 1
  Dead = 2
  Slow <- MCSlow
  MaxMishaps = 1
  NoJob = NoJob
INVARIANTS QueuedHasBytes RunsOnce AllOrNothing
PROPERTIES VerdictFinal EverySettles
