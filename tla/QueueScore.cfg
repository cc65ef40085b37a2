SPECIFICATION Spec
CONSTANTS
  q1 = q1
  q2 = q2
  q3 = q3
  s1 = s1
  s2 = s2
  NoEntry = NoEntry
  NoTrace = NoTrace
  NBits = 3
  Steps = {s1, s2}
  Entries = {q1, q2, q3}
  Traces <- MCTraces
  StepsOf <- MCStepsOf
  MaxFactor = 2
  CAL_CHANCES = 2
INVARIANTS RefCounts FavoredCoverBitmap PendingCountsHold FavoredCanBeFuzzed
