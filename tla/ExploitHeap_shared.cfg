SPECIFICATION FairSpec
CONSTANTS
  a0 = a0
  a1 = a1
  q1 = q1
  q2 = q2
  Alarms = {a0, a1}
  Entries = {q1, q2}
  Reaches <- MCReachesTwo
  capacity = 2
  MAX_DISTANCE = 0
  Distances = {0}
  Restarts = {FALSE, TRUE}
  VirginBindings = 0
  MaxSeeds <- MCMaxSeedsTwo
  MaxBindings = 0
PROPERTIES RankQueueReturns NoSeedStarves
