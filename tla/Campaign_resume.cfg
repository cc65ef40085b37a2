SPECIFICATION Spec
CONSTANTS
  c0 = c0
  c1 = c1
  f1 = f1
  f2 = f2
  Fuzzers = {f1, f2}
  Seeds <- MCSeeds
  Finds <- MCFinds
  MaxStarts <- MCStarts
  MaxTrims <- MCTrims
  NoDir = NoDir
  NoScan = NoScan
CHECK_DEADLOCK FALSE
INVARIANT ResumeKeepsQueue
