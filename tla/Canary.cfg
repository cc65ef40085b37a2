SPECIFICATION Spec
CONSTANTS
  b1 = b1
  b2 = b2
  Bugs = {b1, b2}
  BUFFERLEN = 2
  NoName = NoName
  MaxCount = 2
  MaxRuns = 3
CHECK_DEADLOCK FALSE
INVARIANTS TriggersAreRuns
PROPERTIES DumpIsSnapshot DumpsOnlyGrow
