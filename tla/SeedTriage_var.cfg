SPECIFICATION Spec
CONSTANTS
  total_alarm = 2
  max_col_cnt = 2
  total_num <- MCTotalNum
  Inputs = {1, 2}
  InitialInputs = {1}
  Runs <- MCRunsVar
  CAL_CHANCES = 2
  CalCycles = 2
INVARIANTS HitCountsVirgin IndexIsFrontier ReachedAlarmHasSeeds CycleCoversSeeds
PROPERTIES NeverForgets
