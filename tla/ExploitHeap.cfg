SPECIFICATION Spec
CONSTANTS
  a0 = a0
  a1 = a1
  q1 = q1
  q2 = q2
  Alarms = {a0}
  Entries = {q1, q2}
  Reaches <- MCReachesOne
  capacity = 3
  MAX_DISTANCE = 1
  Distances = {0, 1}
  Restarts = {FALSE, TRUE}
  VirginBindings = 2
  MaxSeeds <- MCMaxSeedsOne
  MaxBindings = 2
SYMMETRY Symmetry
INVARIANTS HeapsRankSeeds RebuiltHeapsAreOrdered SeedsAreRankedOrFuzzed
PROPERTIES OnlyTheTopLeaves
