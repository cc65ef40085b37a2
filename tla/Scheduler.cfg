SPECIFICATION FairSpec
CONSTANTS
  Alarms = {a1, a2}
  InitialPaths = 2
  MaxPaths = 3
  CAL_CHANCES = 2
CHECK_DEADLOCK FALSE
INVARIANTS FuzzesAnEntry CurrentEntryIsPosition
PROPERTIES ChooseTargetReturns NoAlarmStarves NoEntryWaitsForever
