SPECIFICATION TraceSpec
CONSTANTS
  b1 = b1
  b2 = b2
  b3 = b3
  b4 = b4
  a1 = a1
  a2 = a2
  Blocks = {b1, b2, b3, b4}
  Alarms = {a1, a2}
  new_bb_id <- MCNewId
  alarm_table <- MCAlarmTable
  ByteSize = 3
  MaxPath = 6
INVARIANTS StateIsLongest SuffixIsTraced
