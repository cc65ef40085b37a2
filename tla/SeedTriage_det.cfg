SPECIFICATION Spec
CONSTANTS
  total_alarm = 2
  max_col_cnt = 2
  total_num <- MCTotalNum
  Inputs = {1, 2, 3}
  InitialInputs = {1}
  Runs <- MCRunsDet
  CAL_CHANCES = 3
  CalCycles = 2
INVARIANTS HeatAndHitAreEarned
PROPERTIES ImplementsFrontier
