------------------------- MODULE SeedTriage_proofs -------------------------
(***************************************************************************)
(* Proofs about SeedTriage, for every number of alarms and steps, every    *)
(* set of inputs and every behaviour of the target.                        *)
(***************************************************************************)
EXTENDS SeedTriage, FiniteSetTheorems, TLAPS

(* Types and the prefix shape of the virgin table are inductive together:   *)
(* the column check_virgin_uncov_step pushes is found by a search that is   *)
(* well defined only on a prefix.                                           *)
Shape == TypeOK /\ VirginIsPrefix

-----------------------------------------------------------------------------
(* The number of columns in a prefix.                                       *)
LEMMA PrefixSize ==
  ASSUME NEW k \in Nat
  PROVE  IsFiniteSet(0 .. (k - 1)) /\ Cardinality(0 .. (k - 1)) = k
<1>1. 0 \in Int /\ k - 1 \in Int
  OBVIOUS
<1>2. IsFiniteSet(0 .. (k - 1))
  BY <1>1, FS_Interval
<1>3. Cardinality(0 .. (k - 1)) = IF 0 > k - 1 THEN 0 ELSE (k - 1) - 0 + 1
  BY <1>1, FS_Interval
<1> QED
  BY <1>2, <1>3

(* Merging the steps of one more run into the table keeps it a table of     *)
(* prefixes.                                                                *)
LEMMA MergeKeepsPrefix ==
  ASSUME Shape, NEW p \in Progress
  PROVE  /\ VirginAfter(p) \in [Alarms -> SUBSET (0 .. max_col_cnt)]
         /\ \A a \in Alarms : \E k \in 0 .. total_num[a] :
              VirginAfter(p)[a] = 0 .. (k - 1)
         /\ \A a \in Alarms : virgin[a] \subseteq VirginAfter(p)[a]
<1> USE AlarmAssumption
<1>1. ASSUME NEW a \in Alarms
      PROVE  \E k \in 0 .. total_num[a] : VirginAfter(p)[a] = 0 .. (k - 1)
  <2>1. PICK m \in 0 .. total_num[a] : virgin[a] = 0 .. (m - 1)
    BY DEF Shape, VirginIsPrefix
  <2>2. p[a] \in 0 .. total_num[a]
    BY DEF Progress
  <2>3. VirginAfter(p)[a] = (0 .. (m - 1)) \cup (0 .. (p[a] - 1))
    BY <2>1 DEF VirginAfter, CurBB
  <2>4. CASE m <= p[a]
    BY <2>1, <2>2, <2>3, <2>4
  <2>5. CASE p[a] < m
    BY <2>1, <2>2, <2>3, <2>5
  <2> QED
    BY <2>1, <2>2, <2>4, <2>5
<1>2. ASSUME NEW a \in Alarms
      PROVE  VirginAfter(p)[a] \subseteq 0 .. max_col_cnt
  <2>1. PICK k \in 0 .. total_num[a] : VirginAfter(p)[a] = 0 .. (k - 1)
    BY <1>1
  <2>2. total_num[a] \in 0 .. max_col_cnt
    OBVIOUS
  <2> QED
    BY <2>1, <2>2
<1>3. VirginAfter(p) = [a \in Alarms |-> VirginAfter(p)[a]]
  BY DEF VirginAfter
<1>4. \A a \in Alarms : virgin[a] \subseteq VirginAfter(p)[a]
  BY DEF VirginAfter
<1> QED
  BY <1>1, <1>2, <1>3, <1>4

(* On a prefix, the first uncovered column is the number of covered ones.   *)
LEMMA FirstUncoveredIsCount ==
  ASSUME Shape, NEW a \in Alarms
  PROVE  /\ Cardinality(virgin[a]) \in 0 .. total_num[a]
         /\ virgin[a] = 0 .. (Cardinality(virgin[a]) - 1)
         /\ FirstUncovered(a) = Cardinality(virgin[a])
<1> USE AlarmAssumption
<1>1. PICK k \in 0 .. total_num[a] : virgin[a] = 0 .. (k - 1)
  BY DEF Shape, VirginIsPrefix
<1>2. Cardinality(virgin[a]) = k
  BY <1>1, PrefixSize
<1>3. k \notin virgin[a] /\ \A i \in 0 .. (k - 1) : i \in virgin[a]
  BY <1>1
<1>4. ASSUME NEW j \in 0 .. total_num[a],
             j \notin virgin[a], \A i \in 0 .. (j - 1) : i \in virgin[a]
      PROVE  j = k
  BY <1>1, <1>4
<1>5. FirstUncovered(a) = k
  BY <1>1, <1>3, <1>4 DEF FirstUncovered
<1> QED
  BY <1>1, <1>2, <1>5

QueuesOK ==
  /\ exploit_index \in [Alarms -> 0 .. max_col_cnt]
  /\ exploit_state \in [Alarms -> BOOLEAN]
  /\ exploit_queue \in [Alarms -> SUBSET Inputs]

(* What add_to_exploit_queue leaves behind.                                 *)
LEMMA AddType ==
  ASSUME TypeOK, NEW x \in Inputs, NEW a \in Alarms,
         NEW j \in 0 .. max_col_cnt, NEW h \in BOOLEAN, NEW v \in BOOLEAN,
         add_to_exploit_queue(x, a, j, h, v)
  PROVE  QueuesOK'
<1> USE DEF QueuesOK
<1>1. CASE exploit_state[a] /\ ~h
  BY <1>1 DEF add_to_exploit_queue, TypeOK, TablesOK
<1>2. CASE ~(exploit_state[a] /\ ~h)
  <2>1. exploit_state' \in [Alarms -> BOOLEAN]
    BY <1>2 DEF add_to_exploit_queue, TypeOK, TablesOK
  <2>2. CASE RestartsQueue(a, j, h, v)
    BY <1>2, <2>1, <2>2 DEF add_to_exploit_queue, TypeOK, TablesOK
  <2>3. CASE ~RestartsQueue(a, j, h, v)
    BY <1>2, <2>1, <2>3 DEF add_to_exploit_queue, TypeOK, TablesOK
  <2> QED
    BY <2>2, <2>3
<1> QED
  BY <1>1, <1>2

LEMMA ReRunType ==
  ASSUME TypeOK, get_dyn_distance(q) \/ NoReRun
  PROVE  cur_alarm_state' \in Progress /\ fault' \in Faults /\ save_fault' \in Faults
BY DEF TypeOK, FrameOK, get_dyn_distance, NoReRun, SetFault
-----------------------------------------------------------------------------
LEMMA InitShape == Init => Shape
<1> SUFFICES ASSUME Init PROVE Shape
  OBVIOUS
<1> USE AlarmAssumption, InputAssumption, CalAssumption
<1>1. [a \in Alarms |-> 0] \in Progress
  BY DEF Progress
<1>2. /\ virgin \in [Alarms -> SUBSET (0 .. max_col_cnt)]
      /\ heated \in [Alarms -> SUBSET (0 .. max_col_cnt)]
      /\ exploit_queue \in [Alarms -> SUBSET Inputs]
      /\ total_hit \in [Alarms -> Nat]
      /\ exploit_index \in [Alarms -> 0 .. max_col_cnt]
      /\ exploit_state \in [Alarms -> BOOLEAN]
      /\ was_selected \in [Alarms -> BOOLEAN]
      /\ cal_failed \in [Inputs -> Nat]
      /\ cur_alarm_state \in Progress
  BY <1>1 DEF Init
<1>3. /\ row \in 0 .. total_alarm /\ new_bits \in 0 .. 2
      /\ stage_cur \in 0 .. (CalCycles - 1)
      /\ queued_with_binding \in Nat /\ queued_with_step_cov \in Nat
      /\ fault \in Faults /\ save_fault \in Faults
  BY DEF Init, Faults, FAULT_NONE
<1>4. /\ queue \in SUBSET Inputs /\ q \in Inputs
      /\ exec_cksum \in SUBSET Inputs /\ has_new_step_cov \in SUBSET Inputs
      /\ stored \in SUBSET (Inputs \X {FAULT_TMOUT, FAULT_CRASH})
      /\ dry_left \in SUBSET InitialInputs /\ updated \in SUBSET Alarms
      /\ stop_soon \in BOOLEAN /\ in_cal \in BOOLEAN /\ has_binding \in BOOLEAN
      /\ pc = "idle" /\ caller = "dry_run"
  BY DEF Init
<1>5. TypeOK
  BY <1>2, <1>3, <1>4 DEF TypeOK, TablesOK, EntriesOK, FrameOK
<1>6. VirginIsPrefix
  BY DEF Init, VirginIsPrefix
<1> QED
  BY <1>5, <1>6 DEF Shape

(* The steps keep the types, group of variables by group of variables.      *)
LEMMA NextTables ==
  ASSUME Shape, [Next]_vars
  PROVE  TablesOK'
<1> USE AlarmAssumption, InputAssumption, CalAssumption
<1> USE DEF tables, entries, counts, outside, frame
<1>0. TablesOK /\ EntriesOK /\ FrameOK /\ TypeOK /\ Shape
  BY DEF Shape, TypeOK
<1>1. ASSUME NEW x \in Inputs, SaveBoring(x) PROVE TablesOK'
  BY <1>0, <1>1 DEF SaveBoring, TablesOK
<1>2. ASSUME NEW x \in Inputs, SaveNew(x) PROVE TablesOK'
  <2>1. PICK p \in Progress : virgin' = VirginAfter(p)
    BY <1>2 DEF SaveNew
  <2> QED
    BY <1>0, <1>2, <2>1, MergeKeepsPrefix DEF SaveNew, TablesOK
<1>3. ASSUME NEW x \in Inputs, SaveFault(x) PROVE TablesOK'
  BY <1>0, <1>3 DEF SaveFault, TablesOK
<1>4. ASSUME NEW x \in Inputs, DryRun(x) PROVE TablesOK'
  BY <1>0, <1>4 DEF DryRun, Calibrate, TablesOK
<1>5. ASSUME NEW x \in Inputs, FuzzOneCalibrates(x) PROVE TablesOK'
  BY <1>0, <1>5 DEF FuzzOneCalibrates, Calibrate, TablesOK
<1>6. CASE CheckCurRow
  <2>1. row \in Alarms /\ q \in Inputs
    BY <1>0, <1>6 DEF CheckCurRow, FrameOK, Alarms
  <2>2. cur_alarm_state[row] \in 0 .. max_col_cnt
    BY <1>0, <2>1 DEF FrameOK, Progress
  <2>3. cur_alarm_state[row] > 0 =>
          cur_alarm_state[row] - 1 \in 0 .. max_col_cnt
    BY <2>2
  <2>4. QueuesOK'
    <3>1. ASSUME NEW j \in 0 .. max_col_cnt, NEW h \in BOOLEAN,
                 add_to_exploit_queue(q, row, j, h, FALSE)
          PROVE  QueuesOK'
      BY <1>0, <2>1, <3>1, AddType
    <3>2. CASE UNCHANGED <<exploit_index, exploit_state, exploit_queue>>
      BY <1>0, <3>2 DEF TablesOK, QueuesOK
    <3> QED
      BY <1>6, <2>2, <2>3, <3>1, <3>2 DEF CheckCurRow
  <2>5. heated' \in [Alarms -> SUBSET (0 .. max_col_cnt)]
    <3>1. \/ heated' = heated
          \/ \E j \in 0 .. max_col_cnt :
               heated' = [heated EXCEPT ![row] = @ \cup {j}]
      BY <1>6, <2>2, <2>3 DEF CheckCurRow
    <3> QED
      BY <1>0, <2>1, <3>1 DEF TablesOK
  <2> QED
    BY <1>0, <1>6, <2>4, <2>5 DEF CheckCurRow, TablesOK, QueuesOK
<1>7. CASE CheckCurDone
  BY <1>0, <1>7 DEF CheckCurDone, AfterChecks, TablesOK
<1>8. CASE CheckVirginSkip
  BY <1>0, <1>8 DEF CheckVirginSkip, TablesOK
<1>9. CASE CheckVirginRow
  <2> DEFINE hit == Cardinality(virgin[row])
  <2>1. row \in Alarms /\ q \in Inputs
    BY <1>0, <1>9 DEF CheckVirginRow, FrameOK, Alarms
  <2>2. hit \in 0 .. max_col_cnt /\ FirstUncovered(row) = hit
    <3>1. hit \in 0 .. total_num[row] /\ FirstUncovered(row) = hit
      BY <1>0, <2>1, FirstUncoveredIsCount
    <3>2. total_num[row] \in 0 .. max_col_cnt
      BY <2>1
    <3> QED
      BY <3>1, <3>2
  <2>3. hit \in Nat /\ (hit > 0 => hit - 1 \in 0 .. max_col_cnt)
    BY <2>2
  <2>4. QueuesOK'
    <3>1. ASSUME NEW j \in 0 .. max_col_cnt, NEW h \in BOOLEAN,
                 add_to_exploit_queue(q, row, j, h, TRUE)
          PROVE  QueuesOK'
      BY <1>0, <2>1, <3>1, AddType
    <3>2. CASE UNCHANGED <<exploit_index, exploit_state, exploit_queue>>
      BY <1>0, <3>2 DEF TablesOK, QueuesOK
    <3> QED
      BY <1>9, <2>2, <2>3, <3>1, <3>2 DEF CheckVirginRow
  <2>5. heated' \in [Alarms -> SUBSET (0 .. max_col_cnt)]
    <3>1. \/ heated' = heated
          \/ \E j \in 0 .. max_col_cnt :
               heated' = [heated EXCEPT ![row] = @ \cup {j}]
      BY <1>9, <2>2, <2>3 DEF CheckVirginRow
    <3> QED
      BY <1>0, <2>1, <3>1 DEF TablesOK
  <2>6. /\ total_hit' \in [Alarms -> Nat]
        /\ was_selected' \in [Alarms -> BOOLEAN]
        /\ virgin' = virgin
    BY <1>0, <1>9, <2>1, <2>3 DEF CheckVirginRow, TablesOK
  <2> QED
    BY <1>0, <2>4, <2>5, <2>6 DEF TablesOK, QueuesOK
<1>10. CASE CheckVirginDone
  BY <1>0, <1>10 DEF CheckVirginDone, AfterChecks, TablesOK
<1>11. CASE CalibrateSaved
  <2>1. cur_alarm_state \in Progress
    BY <1>0 DEF FrameOK
  <2> QED
    BY <1>0, <1>11, <2>1, MergeKeepsPrefix DEF CalibrateSaved, TablesOK
<1>12. CASE CalRunAborts
  BY <1>0, <1>12 DEF CalRunAborts, TablesOK
<1>13. CASE CalRunCompletes
  <2>1. PICK p \in Progress : virgin' = virgin \/ virgin' = VirginAfter(p)
    BY <1>13 DEF CalRunCompletes
  <2> QED
    BY <1>0, <1>13, <2>1, MergeKeepsPrefix DEF CalRunCompletes, TablesOK
<1>14. CASE AbortCalibration
  BY <1>0, <1>14 DEF AbortCalibration, TablesOK
<1>15. CASE CalReturnsToSave
  BY <1>0, <1>15 DEF CalReturnsToSave, TablesOK
<1>16. CASE CalReturnsToFuzzOne
  BY <1>0, <1>16 DEF CalReturnsToFuzzOne, ToLoop, TablesOK
<1>17. CASE CalReturnsToDryRun
  BY <1>0, <1>17 DEF CalReturnsToDryRun, ToLoop, TablesOK
<1>18. CASE SwitchFault
  BY <1>0, <1>18 DEF SwitchFault, ToLoop, TablesOK
<1>19. ASSUME NEW a \in Alarms, ChooseTarget(a) PROVE TablesOK'
  BY <1>0, <1>19 DEF ChooseTarget, TablesOK
<1>20. CASE handle_stop_sig
  BY <1>0, <1>20 DEF handle_stop_sig, TablesOK
<1>21. CASE StopFuzzing
  BY <1>0, <1>21 DEF StopFuzzing, TablesOK
<1>22. CASE Stopped
  BY <1>0, <1>22 DEF Stopped, vars, TablesOK
<1>23. CASE UNCHANGED vars
  BY <1>0, <1>23 DEF vars, TablesOK
<1> QED
  BY <1>1, <1>2, <1>3, <1>4, <1>5, <1>6, <1>7, <1>8, <1>9, <1>10, <1>11,
     <1>12, <1>13, <1>14, <1>15, <1>16, <1>17, <1>18, <1>19, <1>20,
     <1>21, <1>22, <1>23 DEF Next

LEMMA NextEntries ==
  ASSUME Shape, [Next]_vars
  PROVE  EntriesOK'
<1> USE AlarmAssumption, InputAssumption, CalAssumption
<1> USE DEF tables, entries, counts, outside, frame
<1>0. TablesOK /\ EntriesOK /\ FrameOK /\ TypeOK /\ Shape
  BY DEF Shape, TypeOK
<1>1. ASSUME NEW x \in Inputs, SaveBoring(x) PROVE EntriesOK'
  BY <1>0, <1>1 DEF SaveBoring, EntriesOK, FrameOK
<1>2. ASSUME NEW x \in Inputs, SaveNew(x) PROVE EntriesOK'
  BY <1>0, <1>2 DEF SaveNew, EntriesOK, FrameOK
<1>3. ASSUME NEW x \in Inputs, SaveFault(x) PROVE EntriesOK'
  BY <1>0, <1>3 DEF SaveFault, EntriesOK, FrameOK
<1>4. ASSUME NEW x \in Inputs, DryRun(x) PROVE EntriesOK'
  BY <1>0, <1>4 DEF DryRun, Calibrate, EntriesOK, FrameOK
<1>5. ASSUME NEW x \in Inputs, FuzzOneCalibrates(x) PROVE EntriesOK'
  BY <1>0, <1>5 DEF FuzzOneCalibrates, Calibrate, EntriesOK, FrameOK
<1>6. CASE CheckCurRow
  BY <1>0, <1>6 DEF CheckCurRow, EntriesOK, FrameOK
<1>7. CASE CheckCurDone
  BY <1>0, <1>7 DEF CheckCurDone, AfterChecks, EntriesOK, FrameOK
<1>8. CASE CheckVirginSkip
  BY <1>0, <1>8 DEF CheckVirginSkip, EntriesOK, FrameOK
<1>9. CASE CheckVirginRow
  BY <1>0, <1>9 DEF CheckVirginRow, EntriesOK, FrameOK
<1>10. CASE CheckVirginDone
  BY <1>0, <1>10 DEF CheckVirginDone, AfterChecks, EntriesOK, FrameOK
<1>11. CASE CalibrateSaved
  BY <1>0, <1>11 DEF CalibrateSaved, EntriesOK, FrameOK
<1>12. CASE CalRunAborts
  BY <1>0, <1>12 DEF CalRunAborts, EntriesOK, FrameOK
<1>13. CASE CalRunCompletes
  BY <1>0, <1>13 DEF CalRunCompletes, EntriesOK, FrameOK
<1>14. CASE AbortCalibration
  BY <1>0, <1>14 DEF AbortCalibration, EntriesOK, FrameOK
<1>15. CASE CalReturnsToSave
  BY <1>0, <1>15 DEF CalReturnsToSave, EntriesOK, FrameOK
<1>16. CASE CalReturnsToFuzzOne
  BY <1>0, <1>16 DEF CalReturnsToFuzzOne, ToLoop, EntriesOK, FrameOK
<1>17. CASE CalReturnsToDryRun
  BY <1>0, <1>17 DEF CalReturnsToDryRun, ToLoop, EntriesOK, FrameOK
<1>18. CASE SwitchFault
  <2>1. stored' \in SUBSET (Inputs \X {FAULT_TMOUT, FAULT_CRASH})
    <3>1. ASSUME NEW f \in {FAULT_TMOUT, FAULT_CRASH}, MayStore(q, f)
          PROVE  <2>1
      BY <1>0, <3>1 DEF MayStore, EntriesOK, FrameOK
    <3>2. CASE UNCHANGED stored
      BY <1>0, <3>2 DEF EntriesOK
    <3> QED
      BY <1>18, <3>1, <3>2 DEF SwitchFault, Faults
  <2> QED
    BY <1>0, <1>18, <2>1 DEF SwitchFault, EntriesOK
<1>19. ASSUME NEW a \in Alarms, ChooseTarget(a) PROVE EntriesOK'
  BY <1>0, <1>19 DEF ChooseTarget, EntriesOK, FrameOK
<1>20. CASE handle_stop_sig
  BY <1>0, <1>20 DEF handle_stop_sig, EntriesOK, FrameOK
<1>21. CASE StopFuzzing
  BY <1>0, <1>21 DEF StopFuzzing, EntriesOK, FrameOK
<1>22. CASE Stopped
  BY <1>0, <1>22 DEF Stopped, vars, EntriesOK, FrameOK
<1>23. CASE UNCHANGED vars
  BY <1>0, <1>23 DEF vars, EntriesOK, FrameOK
<1> QED
  BY <1>1, <1>2, <1>3, <1>4, <1>5, <1>6, <1>7, <1>8, <1>9, <1>10, <1>11,
     <1>12, <1>13, <1>14, <1>15, <1>16, <1>17, <1>18, <1>19, <1>20,
     <1>21, <1>22, <1>23 DEF Next

LEMMA NextFrame ==
  ASSUME Shape, [Next]_vars
  PROVE  FrameOK'
<1> USE AlarmAssumption, InputAssumption, CalAssumption
<1> USE DEF tables, entries, counts, outside, frame
<1>0. TablesOK /\ EntriesOK /\ FrameOK /\ TypeOK /\ Shape
  BY DEF Shape, TypeOK
<1>a. /\ 0 \in 0 .. total_alarm /\ 0 \in 0 .. 2 /\ 0 \in 0 .. (CalCycles - 1)
      /\ FAULT_NONE \in Faults /\ FAULT_TMOUT \in Faults /\ FAULT_CRASH \in Faults
  BY DEF Faults
<1>1. ASSUME NEW x \in Inputs, SaveBoring(x) PROVE FrameOK'
  BY <1>0, <1>a, <1>1 DEF SaveBoring, FrameOK
<1>2. ASSUME NEW x \in Inputs, SaveNew(x) PROVE FrameOK'
  <2>1. updated' \in SUBSET Alarms
    BY <1>2 DEF SaveNew, NewSteps
  <2>2. /\ cur_alarm_state' \in Progress /\ new_bits' \in 0 .. 2
        /\ pc' \in {"check_virgin", "check_cur"}
    BY <1>2 DEF SaveNew
  <2>3. /\ q' = x /\ caller' = "save" /\ row' = 0 /\ has_binding' = FALSE
        /\ UNCHANGED <<in_cal, stage_cur, fault, save_fault>>
    BY <1>2 DEF SaveNew
  <2> QED
    BY <1>0, <1>a, <2>1, <2>2, <2>3 DEF FrameOK
<1>3. ASSUME NEW x \in Inputs, SaveFault(x) PROVE FrameOK'
  BY <1>0, <1>a, <1>3 DEF SaveFault, FrameOK
<1>4. ASSUME NEW x \in Inputs, DryRun(x) PROVE FrameOK'
  BY <1>0, <1>a, <1>4 DEF DryRun, Calibrate, FrameOK
<1>5. ASSUME NEW x \in Inputs, FuzzOneCalibrates(x) PROVE FrameOK'
  BY <1>0, <1>a, <1>5 DEF FuzzOneCalibrates, Calibrate, FrameOK
<1>6. CASE CheckCurRow
  <2>1. row' \in 0 .. total_alarm
    BY <1>0, <1>6 DEF CheckCurRow, FrameOK
  <2>2. has_binding' \in BOOLEAN
    BY <1>0, <1>6 DEF CheckCurRow, FrameOK
  <2>3. /\ cur_alarm_state' \in Progress
        /\ fault' \in Faults /\ save_fault' \in Faults
    BY <1>0, <1>6, ReRunType DEF CheckCurRow
  <2> QED
    BY <1>0, <1>6, <2>1, <2>2, <2>3 DEF CheckCurRow, FrameOK
<1>7. CASE CheckCurDone
  BY <1>0, <1>a, <1>7 DEF CheckCurDone, AfterChecks, FrameOK
<1>8. CASE CheckVirginSkip
  BY <1>0, <1>a, <1>8 DEF CheckVirginSkip, FrameOK
<1>9. CASE CheckVirginRow
  <2>1. row' \in 0 .. total_alarm
    BY <1>0, <1>9 DEF CheckVirginRow, FrameOK
  <2>2. /\ cur_alarm_state' \in Progress
        /\ fault' \in Faults /\ save_fault' \in Faults
    BY <1>0, <1>9, ReRunType DEF CheckVirginRow
  <2> QED
    BY <1>0, <1>9, <2>1, <2>2 DEF CheckVirginRow, FrameOK
<1>10. CASE CheckVirginDone
  BY <1>0, <1>a, <1>10 DEF CheckVirginDone, AfterChecks, FrameOK
<1>11. CASE CalibrateSaved
  <2>1. updated' \in SUBSET Alarms
    BY <1>11 DEF CalibrateSaved, NewSteps
  <2> QED
    BY <1>0, <1>a, <1>11, <2>1 DEF CalibrateSaved, FrameOK
<1>12. CASE CalRunAborts
  BY <1>0, <1>a, <1>12 DEF CalRunAborts, FrameOK
<1>13. CASE CalRunCompletes
  <2>1. updated' \in SUBSET Alarms
    BY <1>0, <1>13 DEF CalRunCompletes, NewSteps, FrameOK
  <2>2. new_bits' \in 0 .. 2 /\ cur_alarm_state' \in Progress
    BY <1>0, <1>13 DEF CalRunCompletes, FrameOK
  <2>3. stage_cur' \in 0 .. (CalCycles - 1)
    BY <1>0, <1>13 DEF CalRunCompletes, FrameOK
  <2> QED
    BY <1>0, <1>13, <2>1, <2>2, <2>3, <1>a DEF CalRunCompletes, FrameOK
<1>14. CASE AbortCalibration
  BY <1>0, <1>a, <1>14 DEF AbortCalibration, FrameOK
<1>15. CASE CalReturnsToSave
  BY <1>0, <1>a, <1>15 DEF CalReturnsToSave, FrameOK
<1>16. CASE CalReturnsToFuzzOne
  BY <1>0, <1>a, <1>16 DEF CalReturnsToFuzzOne, ToLoop, FrameOK
<1>17. CASE CalReturnsToDryRun
  BY <1>0, <1>a, <1>17 DEF CalReturnsToDryRun, ToLoop, FrameOK
<1>18. CASE SwitchFault
  <2>1. cur_alarm_state' \in Progress
    BY <1>0, <1>18 DEF SwitchFault, FrameOK
  <2> QED
    BY <1>0, <1>18, <1>a, <2>1 DEF SwitchFault, ToLoop, FrameOK
<1>19. ASSUME NEW a \in Alarms, ChooseTarget(a) PROVE FrameOK'
  BY <1>0, <1>a, <1>19 DEF ChooseTarget, FrameOK
<1>20. CASE handle_stop_sig
  BY <1>0, <1>a, <1>20 DEF handle_stop_sig, FrameOK
<1>21. CASE StopFuzzing
  BY <1>0, <1>a, <1>21 DEF StopFuzzing, FrameOK
<1>22. CASE Stopped
  BY <1>0, <1>a, <1>22 DEF Stopped, vars, FrameOK
<1>23. CASE UNCHANGED vars
  BY <1>0, <1>a, <1>23 DEF vars, FrameOK
<1> QED
  BY <1>1, <1>2, <1>3, <1>4, <1>5, <1>6, <1>7, <1>8, <1>9, <1>10, <1>11,
     <1>12, <1>13, <1>14, <1>15, <1>16, <1>17, <1>18, <1>19, <1>20,
     <1>21, <1>22, <1>23 DEF Next

(* A step merges one run into the virgin table, or leaves it alone.         *)
LEMMA NextVirgin ==
  ASSUME Shape, [Next]_vars
  PROVE  virgin' = virgin \/ \E p \in Progress : virgin' = VirginAfter(p)
<1> USE DEF tables, entries, counts, outside, frame
<1> DEFINE Merged == virgin' = virgin \/ \E p \in Progress : virgin' = VirginAfter(p)
<1>0. cur_alarm_state \in Progress
  BY DEF Shape, TypeOK, FrameOK
<1> SUFFICES Merged
  OBVIOUS
<1>1. ASSUME NEW x \in Inputs, SaveBoring(x) PROVE Merged
  BY <1>1 DEF SaveBoring
<1>2. ASSUME NEW x \in Inputs, SaveNew(x) PROVE Merged
  BY <1>2 DEF SaveNew
<1>3. ASSUME NEW x \in Inputs, SaveFault(x) PROVE Merged
  BY <1>3 DEF SaveFault
<1>4. ASSUME NEW x \in Inputs, DryRun(x) PROVE Merged
  BY <1>4 DEF DryRun, Calibrate
<1>5. ASSUME NEW x \in Inputs, FuzzOneCalibrates(x) PROVE Merged
  BY <1>5 DEF FuzzOneCalibrates, Calibrate
<1>6. CASE CheckCurRow
  BY <1>6 DEF CheckCurRow
<1>7. CASE CheckCurDone
  BY <1>7 DEF CheckCurDone, AfterChecks
<1>8. CASE CheckVirginSkip
  BY <1>8 DEF CheckVirginSkip
<1>9. CASE CheckVirginRow
  BY <1>9 DEF CheckVirginRow
<1>10. CASE CheckVirginDone
  BY <1>10 DEF CheckVirginDone, AfterChecks
<1>11. CASE CalibrateSaved
  BY <1>0, <1>11 DEF CalibrateSaved
<1>12. CASE CalRunAborts
  BY <1>12 DEF CalRunAborts
<1>13. CASE CalRunCompletes
  BY <1>13 DEF CalRunCompletes
<1>14. CASE AbortCalibration
  BY <1>14 DEF AbortCalibration
<1>15. CASE CalReturnsToSave
  BY <1>15 DEF CalReturnsToSave
<1>16. CASE CalReturnsToFuzzOne
  BY <1>16 DEF CalReturnsToFuzzOne, ToLoop
<1>17. CASE CalReturnsToDryRun
  BY <1>17 DEF CalReturnsToDryRun, ToLoop
<1>18. CASE SwitchFault
  BY <1>18 DEF SwitchFault, ToLoop
<1>19. ASSUME NEW a \in Alarms, ChooseTarget(a) PROVE Merged
  BY <1>19 DEF ChooseTarget
<1>20. CASE handle_stop_sig
  BY <1>20 DEF handle_stop_sig
<1>21. CASE StopFuzzing
  BY <1>21 DEF StopFuzzing
<1>22. CASE Stopped
  BY <1>22 DEF Stopped, vars
<1>23. CASE UNCHANGED vars
  BY <1>23 DEF vars
<1> QED
  BY <1>1, <1>2, <1>3, <1>4, <1>5, <1>6, <1>7, <1>8, <1>9, <1>10, <1>11,
     <1>12, <1>13, <1>14, <1>15, <1>16, <1>17, <1>18, <1>19, <1>20,
     <1>21, <1>22, <1>23 DEF Next

(* Every step keeps the types and the prefixes.                             *)
LEMMA NextShape == Shape /\ [Next]_vars => Shape'
<1> SUFFICES ASSUME Shape, [Next]_vars PROVE Shape'
  OBVIOUS
<1>1. TypeOK'
  BY NextTables, NextEntries, NextFrame DEF TypeOK
<1>2. VirginIsPrefix'
  <2>1. CASE virgin' = virgin
    BY <2>1 DEF Shape, VirginIsPrefix
  <2>2. ASSUME NEW p \in Progress, virgin' = VirginAfter(p)
        PROVE  VirginIsPrefix'
    BY <2>2, MergeKeepsPrefix DEF VirginIsPrefix
  <2> QED
    BY <2>1, <2>2, NextVirgin
<1> QED
  BY <1>1, <1>2 DEF Shape

(* Types, and covered steps that always form a prefix of the step list of   *)
(* their alarm, however many runs has_new_step_coverage merged them from.   *)
LEMMA ShapeInvariant == Spec => [](TypeOK /\ VirginIsPrefix)
<1>1. Init => Shape
  BY InitShape
<1>2. Shape /\ [Next]_vars => Shape'
  BY NextShape
<1>3. Shape => TypeOK /\ VirginIsPrefix
  BY DEF Shape
<1> QED
  BY <1>1, <1>2, <1>3, PTL DEF Spec

(* The tables of alarm_heat, virgin_alarm and the exploit queues, and the   *)
(* locals of calibrate_case and save_if_interesting, keep their types.      *)
THEOREM TypeCorrect == Spec => []TypeOK
  BY ShapeInvariant, PTL

(* has_new_step_coverage keeps each row of virgin_bb_status_table a prefix. *)
THEOREM VirginStaysPrefix == Spec => []VirginIsPrefix
  BY ShapeInvariant, PTL

-----------------------------------------------------------------------------
(* Only the two binding checks write the frontier and the exploit queues.   *)
LEMMA QueueWriters ==
  ASSUME [Next]_vars
  PROVE  \/ CheckCurRow
         \/ CheckVirginRow
         \/ UNCHANGED <<total_hit, exploit_index, exploit_state, exploit_queue>>
<1> USE DEF tables, entries, counts, outside, frame
<1> DEFINE Quiet ==
      UNCHANGED <<total_hit, exploit_index, exploit_state, exploit_queue>>
<1> SUFFICES ASSUME ~CheckCurRow, ~CheckVirginRow PROVE Quiet
  OBVIOUS
<1>1. ASSUME NEW x \in Inputs, SaveBoring(x) PROVE Quiet
  BY <1>1 DEF SaveBoring
<1>2. ASSUME NEW x \in Inputs, SaveNew(x) PROVE Quiet
  BY <1>2 DEF SaveNew
<1>3. ASSUME NEW x \in Inputs, SaveFault(x) PROVE Quiet
  BY <1>3 DEF SaveFault
<1>4. ASSUME NEW x \in Inputs, DryRun(x) PROVE Quiet
  BY <1>4 DEF DryRun, Calibrate
<1>5. ASSUME NEW x \in Inputs, FuzzOneCalibrates(x) PROVE Quiet
  BY <1>5 DEF FuzzOneCalibrates, Calibrate
<1>6. CASE CheckCurRow
  BY <1>6
<1>7. CASE CheckCurDone
  BY <1>7 DEF CheckCurDone, AfterChecks
<1>8. CASE CheckVirginSkip
  BY <1>8 DEF CheckVirginSkip
<1>9. CASE CheckVirginRow
  BY <1>9
<1>10. CASE CheckVirginDone
  BY <1>10 DEF CheckVirginDone, AfterChecks
<1>11. CASE CalibrateSaved
  BY <1>11 DEF CalibrateSaved
<1>12. CASE CalRunAborts
  BY <1>12 DEF CalRunAborts
<1>13. CASE CalRunCompletes
  BY <1>13 DEF CalRunCompletes
<1>14. CASE AbortCalibration
  BY <1>14 DEF AbortCalibration
<1>15. CASE CalReturnsToSave
  BY <1>15 DEF CalReturnsToSave
<1>16. CASE CalReturnsToFuzzOne
  BY <1>16 DEF CalReturnsToFuzzOne, ToLoop
<1>17. CASE CalReturnsToDryRun
  BY <1>17 DEF CalReturnsToDryRun, ToLoop
<1>18. CASE SwitchFault
  BY <1>18 DEF SwitchFault, ToLoop
<1>19. ASSUME NEW a \in Alarms, ChooseTarget(a) PROVE Quiet
  BY <1>19 DEF ChooseTarget
<1>20. CASE handle_stop_sig
  BY <1>20 DEF handle_stop_sig
<1>21. CASE StopFuzzing
  BY <1>21 DEF StopFuzzing
<1>22. CASE Stopped
  BY <1>22 DEF Stopped, vars
<1>23. CASE UNCHANGED vars
  BY <1>23 DEF vars
<1> QED
  BY <1>1, <1>2, <1>3, <1>4, <1>5, <1>6, <1>7, <1>8, <1>9, <1>10, <1>11,
     <1>12, <1>13, <1>14, <1>15, <1>16, <1>17, <1>18, <1>19, <1>20,
     <1>21, <1>22, <1>23 DEF Next

(* What add_to_exploit_queue does to the alarm and to the others.           *)
LEMMA AddEffect ==
  ASSUME TablesOK, NEW x \in Inputs, NEW a \in Alarms, NEW j \in 0 .. max_col_cnt,
         NEW h \in BOOLEAN, NEW v \in BOOLEAN, add_to_exploit_queue(x, a, j, h, v)
  PROVE  /\ \A b \in Alarms \ {a} : /\ exploit_index'[b] = exploit_index[b]
                                   /\ exploit_state'[b] = exploit_state[b]
                                   /\ exploit_queue'[b] = exploit_queue[b]
         /\ exploit_state'[a] <=> (exploit_state[a] \/ h)
         /\ exploit_state[a] /\ ~h =>
              UNCHANGED <<exploit_index, exploit_state, exploit_queue>>
         /\ ~(exploit_state[a] /\ ~h) =>
              /\ x \in exploit_queue'[a]
              /\ exploit_index'[a] = IF exploit_index[a] < j THEN j
                                                           ELSE exploit_index[a]
              /\ exploit_queue'[a] = IF RestartsQueue(a, j, h, v)
                                       THEN {x} ELSE exploit_queue[a] \cup {x}
<1> USE AlarmAssumption
<1>1. CASE exploit_state[a] /\ ~h
  BY <1>1 DEF add_to_exploit_queue
<1>2. CASE ~(exploit_state[a] /\ ~h)
  <2>1. exploit_state' = [exploit_state EXCEPT ![a] = @ \/ h]
    BY <1>2 DEF add_to_exploit_queue
  <2>2. /\ exploit_state'[a] <=> (exploit_state[a] \/ h)
        /\ \A b \in Alarms \ {a} : exploit_state'[b] = exploit_state[b]
    BY <2>1, Zenon DEF TablesOK
  <2>3. CASE RestartsQueue(a, j, h, v)
    <3>1. /\ exploit_index' = [exploit_index EXCEPT ![a] = j]
          /\ exploit_queue' = [exploit_queue EXCEPT ![a] = {x}]
      BY <1>2, <2>3 DEF add_to_exploit_queue
    <3>2. exploit_index[a] \in Nat /\ exploit_index'[a] = j
      BY <3>1 DEF TablesOK
    <3>3. exploit_index'[a] = IF exploit_index[a] < j THEN j ELSE exploit_index[a]
      BY <2>3, <3>2 DEF RestartsQueue
    <3>4. /\ exploit_queue'[a] = {x}
          /\ \A b \in Alarms \ {a} : /\ exploit_index'[b] = exploit_index[b]
                                    /\ exploit_queue'[b] = exploit_queue[b]
      BY <3>1 DEF TablesOK
    <3> QED
      BY <1>2, <2>2, <2>3, <3>3, <3>4
  <2>4. CASE ~RestartsQueue(a, j, h, v)
    <3>1. /\ exploit_index' = exploit_index
          /\ exploit_queue' = [exploit_queue EXCEPT ![a] = @ \cup {x}]
      BY <1>2, <2>4 DEF add_to_exploit_queue
    <3>2. ~(exploit_index[a] < j)
      BY <2>4 DEF RestartsQueue
    <3>3. /\ exploit_queue'[a] = exploit_queue[a] \cup {x}
          /\ \A b \in Alarms \ {a} : exploit_queue'[b] = exploit_queue[b]
      BY <3>1 DEF TablesOK
    <3> QED
      BY <1>2, <2>2, <2>4, <3>1, <3>2, <3>3
  <2> QED
    BY <2>3, <2>4
<1> QED
  BY <1>1, <1>2

(* The strengthening that makes the claims about the frontier inductive:    *)
(* an alarm waiting for its refresh has covered steps and an old total_hit  *)
(* that is not ahead of them.                                               *)
FrontierInv ==
  /\ Shape
  /\ IndexIsFrontier
  /\ ReachedAlarmHasSeeds
  /\ HitCountsVirgin
  /\ \A a \in Alarms : total_hit[a] <= Cardinality(virgin[a])
  /\ \A a \in updated : virgin[a] # {}
  /\ pc \in {"cal_run", "abort_calibration"} => row = 0

LEMMA InitFrontier == Init => FrontierInv
<1> SUFFICES ASSUME Init PROVE FrontierInv
  OBVIOUS
<1> USE AlarmAssumption
<1>1. Cardinality({}) = 0
  BY FS_EmptySet
<1>2. IndexIsFrontier /\ ReachedAlarmHasSeeds
  BY DEF Init, IndexIsFrontier, ReachedAlarmHasSeeds
<1>3. HitCountsVirgin /\ \A a \in Alarms : total_hit[a] <= Cardinality(virgin[a])
  BY <1>1 DEF Init, HitCountsVirgin
<1>4. updated = {} /\ pc = "idle"
  BY DEF Init
<1> QED
  BY <1>2, <1>3, <1>4, InitShape DEF FrontierInv

(* A binding check of one alarm keeps exploit_index on its frontier.        *)
LEMMA CheckCurKeepsIndex ==
  ASSUME FrontierInv, CheckCurRow
  PROVE  IndexIsFrontier' /\ ReachedAlarmHasSeeds'
<1> USE AlarmAssumption
<1> DEFINE c == cur_alarm_state[row]
<1>0. TablesOK /\ FrameOK
  BY DEF FrontierInv, Shape, TypeOK
<1>1. row \in Alarms /\ q \in Inputs /\ total_hit' = total_hit
  BY <1>0 DEF CheckCurRow, FrameOK, Alarms
<1>2. c \in 0 .. total_num[row] /\ total_num[row] \in 0 .. max_col_cnt
  BY <1>0, <1>1 DEF FrameOK, Progress
<1> HIDE DEF c
<1>3. CASE UNCHANGED <<exploit_index, exploit_state, exploit_queue>>
  BY <1>1, <1>3 DEF FrontierInv, IndexIsFrontier, ReachedAlarmHasSeeds
<1>4. CASE /\ c > 0 /\ c < total_num[row] /\ c = total_hit[row]
           /\ add_to_exploit_queue(q, row, c, FALSE, FALSE)
  <2>1. c \in 0 .. max_col_cnt
    BY <1>2
  <2>2. CASE exploit_state[row]
    <3>1. UNCHANGED <<exploit_index, exploit_state, exploit_queue>>
      BY <1>0, <1>1, <1>4, <2>1, <2>2, AddEffect
    <3> QED
      BY <3>1, <1>3
  <2>3. CASE ~exploit_state[row]
    <3>1. /\ \A b \in Alarms \ {row} : /\ exploit_index'[b] = exploit_index[b]
                                      /\ exploit_state'[b] = exploit_state[b]
                                      /\ exploit_queue'[b] = exploit_queue[b]
          /\ ~exploit_state'[row]
          /\ q \in exploit_queue'[row]
          /\ exploit_index'[row] = IF exploit_index[row] < c THEN c
                                                           ELSE exploit_index[row]
      BY <1>0, <1>1, <1>4, <2>1, <2>3, AddEffect
    <3>2. exploit_index[row] = total_hit[row]
      BY <1>1, <2>3 DEF FrontierInv, IndexIsFrontier
    <3>3. exploit_index'[row] = total_hit[row] /\ total_hit[row] < total_num[row]
      BY <1>2, <1>4, <3>1, <3>2
    <3> QED
      BY <1>1, <3>1, <3>3 DEF FrontierInv, IndexIsFrontier, ReachedAlarmHasSeeds
  <2> QED
    BY <2>2, <2>3
<1>5. CASE /\ c > 0 /\ c = total_num[row]
           /\ add_to_exploit_queue(q, row, c - 1, TRUE, FALSE)
  <2>1. c - 1 \in 0 .. max_col_cnt
    BY <1>2, <1>5
  <2>2. /\ \A b \in Alarms \ {row} : /\ exploit_index'[b] = exploit_index[b]
                                    /\ exploit_state'[b] = exploit_state[b]
                                    /\ exploit_queue'[b] = exploit_queue[b]
        /\ exploit_state'[row]
        /\ q \in exploit_queue'[row]
        /\ exploit_index'[row] = IF exploit_index[row] < c - 1 THEN c - 1
                                                         ELSE exploit_index[row]
    BY <1>0, <1>1, <1>5, <2>1, AddEffect
  <2>3. exploit_index[row] \in Nat /\ total_hit[row] \in Nat
    BY <1>0, <1>1 DEF TablesOK
  <2>4. exploit_index[row] <= c - 1
    BY <1>1, <1>2, <1>5, <2>3 DEF FrontierInv, IndexIsFrontier
  <2>5. exploit_index'[row] = total_num[row] - 1 /\ total_num[row] > 0
    BY <1>2, <1>5, <2>2, <2>3, <2>4
  <2> QED
    BY <1>1, <2>2, <2>5 DEF FrontierInv, IndexIsFrontier, ReachedAlarmHasSeeds
<1> QED
  BY <1>3, <1>4, <1>5 DEF CheckCurRow, c

LEMMA CheckVirginKeepsIndex ==
  ASSUME FrontierInv, CheckVirginRow
  PROVE  /\ IndexIsFrontier' /\ ReachedAlarmHasSeeds'
         /\ total_hit' = [total_hit EXCEPT ![row] = Cardinality(virgin[row])]
<1> USE AlarmAssumption
<1> DEFINE hit == Cardinality(virgin[row])
<1>0. TablesOK /\ FrameOK
  BY DEF FrontierInv, Shape, TypeOK
<1>1. row \in Alarms /\ q \in Inputs /\ row \in updated
  BY <1>0 DEF CheckVirginRow, FrameOK, Alarms
<1>2. /\ hit \in 0 .. total_num[row] /\ total_num[row] \in 0 .. max_col_cnt
      /\ FirstUncovered(row) = hit
  BY <1>1, FirstUncoveredIsCount DEF FrontierInv
<1>3. hit > 0
  <2>1. virgin[row] # {} /\ virgin[row] = 0 .. (hit - 1)
    BY <1>1, FirstUncoveredIsCount DEF FrontierInv
  <2> QED
    BY <1>2, <2>1
<1>4. total_hit' = [total_hit EXCEPT ![row] = hit]
  BY DEF CheckVirginRow
<1>5. total_hit[row] <= hit /\ total_hit[row] \in Nat /\ exploit_index[row] \in Nat
  BY <1>0, <1>1 DEF FrontierInv, TablesOK
<1>6. total_hit'[row] = hit /\ \A b \in Alarms \ {row} : total_hit'[b] = total_hit[b]
  BY <1>0, <1>1, <1>4 DEF TablesOK
<1>7. /\ total_hit' = [total_hit EXCEPT ![row] = hit]
      /\ \/ hit = 0
         \/ /\ hit > 0 /\ hit < total_num[row]
            /\ add_to_exploit_queue(q, row, FirstUncovered(row), FALSE, TRUE)
         \/ /\ hit > 0 /\ hit = total_num[row]
            /\ add_to_exploit_queue(q, row, hit - 1, TRUE, TRUE)
  BY DEF CheckVirginRow
<1> HIDE DEF hit
<1>8. hit \in Nat /\ hit \in 0 .. max_col_cnt
  BY <1>2
<1>9. CASE hit < total_num[row] /\ exploit_state[row]
  <2>1. UNCHANGED <<exploit_index, exploit_state, exploit_queue>>
    <3>1. add_to_exploit_queue(q, row, hit, FALSE, TRUE)
      BY <1>2, <1>3, <1>7, <1>8, <1>9 DEF add_to_exploit_queue, RestartsQueue
    <3> QED
      BY <1>0, <1>1, <1>8, <1>9, <3>1, AddEffect
  <2> QED
    BY <1>1, <1>4, <1>6, <1>9, <2>1
    DEF FrontierInv, IndexIsFrontier, ReachedAlarmHasSeeds, hit
<1>10. CASE hit < total_num[row] /\ ~exploit_state[row]
  <2>1. /\ \A b \in Alarms \ {row} : /\ exploit_index'[b] = exploit_index[b]
                                    /\ exploit_state'[b] = exploit_state[b]
                                    /\ exploit_queue'[b] = exploit_queue[b]
        /\ ~exploit_state'[row]
        /\ q \in exploit_queue'[row]
        /\ exploit_index'[row] = IF exploit_index[row] < hit THEN hit
                                                           ELSE exploit_index[row]
    <3>1. add_to_exploit_queue(q, row, hit, FALSE, TRUE)
      BY <1>2, <1>3, <1>7, <1>8, <1>10 DEF add_to_exploit_queue, RestartsQueue
    <3> QED
      BY <1>0, <1>1, <1>8, <1>10, <3>1, AddEffect
  <2>2. exploit_index[row] = total_hit[row]
    BY <1>1, <1>10 DEF FrontierInv, IndexIsFrontier
  <2>3. exploit_index'[row] = hit
    BY <1>2, <1>5, <2>1, <2>2
  <2> QED
    BY <1>1, <1>4, <1>6, <1>10, <2>1, <2>3
    DEF FrontierInv, IndexIsFrontier, ReachedAlarmHasSeeds, hit
<1>11. CASE hit = total_num[row]
  <2>1. hit - 1 \in 0 .. max_col_cnt
    BY <1>2, <1>3
  <2>2. /\ \A b \in Alarms \ {row} : /\ exploit_index'[b] = exploit_index[b]
                                    /\ exploit_state'[b] = exploit_state[b]
                                    /\ exploit_queue'[b] = exploit_queue[b]
        /\ exploit_state'[row]
        /\ q \in exploit_queue'[row]
        /\ exploit_index'[row] = IF exploit_index[row] < hit - 1 THEN hit - 1
                                                         ELSE exploit_index[row]
    <3>1. add_to_exploit_queue(q, row, hit - 1, TRUE, TRUE)
      BY <1>2, <1>3, <1>7, <1>8, <1>11 DEF add_to_exploit_queue, RestartsQueue
    <3> QED
      BY <1>0, <1>1, <1>11, <2>1, <3>1, AddEffect
  <2>3. exploit_index[row] <= hit - 1
    BY <1>1, <1>2, <1>3, <1>5, <1>11 DEF FrontierInv, IndexIsFrontier
  <2>4. exploit_index'[row] = total_num[row] - 1 /\ total_num[row] > 0
    BY <1>2, <1>3, <1>5, <1>11, <2>2, <2>3
  <2> QED
    BY <1>1, <1>4, <1>6, <2>2, <2>4
    DEF FrontierInv, IndexIsFrontier, ReachedAlarmHasSeeds, hit
<1> QED
  BY <1>2, <1>9, <1>10, <1>11

-----------------------------------------------------------------------------
(* How a step may change the covered steps and the alarms that wait for the *)
(* refresh of total_hit: nothing new, one run merged and its new alarms     *)
(* waiting, or the alarm at row refreshed.                                  *)
Quiet == /\ virgin' = virgin /\ total_hit' = total_hit
         /\ updated' \subseteq updated
         /\ Stale \subseteq Stale'

Merges == \E p \in Progress :
            /\ virgin' = VirginAfter(p) /\ total_hit' = total_hit
            /\ updated' \subseteq updated \cup NewSteps(p)
            /\ Stale \cup NewSteps(p) \subseteq Stale'

Refreshes == /\ virgin' = virgin
             /\ row \in Alarms
             /\ total_hit' = [total_hit EXCEPT ![row] = Cardinality(virgin[row])]
             /\ updated' \subseteq updated
             /\ Stale \ {row} \subseteq Stale'

RowZero == pc \in {"cal_run", "abort_calibration"} => row = 0

(* No run with nothing new changes the table.                               *)
LEMMA NothingNew ==
  ASSUME TablesOK, NEW p \in Progress, NewSteps(p) = {}
  PROVE  VirginAfter(p) = virgin
<1>1. \A a \in Alarms : CurBB(p, a) \subseteq virgin[a]
  BY DEF NewSteps
<1>2. \A a \in Alarms : virgin[a] \cup CurBB(p, a) = virgin[a]
  BY <1>1
<1>3. virgin = [a \in Alarms |-> virgin[a]]
  BY DEF TablesOK
<1> QED
  BY <1>2, <1>3, Zenon DEF VirginAfter

(* Every step is one of the three, and a calibration starts with row 0.     *)
LEMMA NextNews ==
  ASSUME Shape, RowZero, [Next]_vars
  PROVE  (Quiet \/ Merges \/ Refreshes) /\ RowZero'
<1> USE DEF tables, entries, counts, outside, frame
<1> DEFINE Goal == (Quiet \/ Merges \/ Refreshes) /\ RowZero'
<1>0. /\ cur_alarm_state \in Progress /\ updated \subseteq Alarms
      /\ row \in 0 .. total_alarm /\ TablesOK
  BY DEF Shape, TypeOK, FrameOK
<1>b. /\ \A b \in updated : b \in Int /\ b < total_alarm
      /\ row \in Int /\ total_alarm \in Int
  <2>1. total_alarm \in Int
    BY AlarmAssumption
  <2>2. \A b \in updated : b \in 0 .. (total_alarm - 1)
    BY <1>0 DEF Alarms
  <2> QED
    BY <1>0, <2>1, <2>2
<1> SUFFICES Goal
  OBVIOUS
<1>1. ASSUME NEW x \in Inputs, SaveBoring(x) PROVE Goal
  BY <1>1 DEF SaveBoring, InFuzzLoop, Quiet, Stale, RowZero
<1>2. ASSUME NEW x \in Inputs, SaveNew(x) PROVE Goal
  <2>1. PICK p \in Progress :
          /\ virgin' = VirginAfter(p) /\ updated' = NewSteps(p)
          /\ pc' = IF NewSteps(p) # {} THEN "check_virgin" ELSE "check_cur"
    BY <1>2 DEF SaveNew
  <2>2. pc = "idle" /\ row' = 0 /\ total_hit' = total_hit
    BY <1>2 DEF SaveNew, InFuzzLoop
  <2>3. NewSteps(p) \subseteq Alarms
    BY DEF NewSteps
  <2>4. Stale = {} /\ NewSteps(p) \subseteq Stale'
    BY <2>1, <2>2, <2>3, AlarmAssumption DEF Stale, Alarms
  <2> QED
    BY <2>1, <2>2, <2>4 DEF Merges, RowZero
<1>3. ASSUME NEW x \in Inputs, SaveFault(x) PROVE Goal
  BY <1>3 DEF SaveFault, InFuzzLoop, Quiet, Stale, RowZero
<1>4. ASSUME NEW x \in Inputs, Calibrate(x, "dry_run") \/ Calibrate(x, "fuzz_one")
      PROVE Goal
  BY <1>4 DEF Calibrate, Quiet, Stale, RowZero
<1>6. CASE CheckCurRow
  BY <1>6 DEF CheckCurRow, Quiet, Stale, RowZero
<1>7. CASE CheckCurDone
  BY <1>7 DEF CheckCurDone, AfterChecks, Quiet, Stale, RowZero
<1>8. CASE CheckVirginSkip
  <2>0. /\ pc = "check_virgin" /\ pc' = pc /\ row' = row + 1
        /\ updated' = updated /\ row \notin updated
    BY <1>8 DEF CheckVirginSkip
  <2>1. Stale = {b \in updated : b >= row}
    BY <2>0 DEF Stale
  <2>2. Stale' = {b \in updated : b >= row + 1}
    BY <2>0 DEF Stale
  <2>3. Stale \subseteq Stale'
    BY <1>b, <2>0, <2>1, <2>2
  <2> QED
    BY <1>8, <2>3 DEF CheckVirginSkip, Quiet, RowZero
<1>9. CASE CheckVirginRow
  <2>0. /\ pc = "check_virgin" /\ pc' = pc /\ row' = row + 1
        /\ updated' = updated /\ virgin' = virgin /\ row \in Alarms
    BY <1>0, <1>9 DEF CheckVirginRow
  <2>1. Stale \ {row} \subseteq Stale'
    <3>1. Stale = {b \in updated : b >= row}
      BY <2>0 DEF Stale
    <3>2. Stale' = {b \in updated : b >= row + 1}
      BY <2>0 DEF Stale
    <3> QED
      BY <1>b, <2>0, <3>1, <3>2
  <2>2. total_hit' = [total_hit EXCEPT ![row] = Cardinality(virgin[row])]
    BY <1>9 DEF CheckVirginRow
  <2> QED
    BY <2>0, <2>1, <2>2 DEF Refreshes, RowZero
<1>10. CASE CheckVirginDone
  <2>0. pc = "check_virgin" /\ row = total_alarm
    BY <1>10 DEF CheckVirginDone
  <2>1. Stale = {}
    <3>1. Stale = {b \in updated : b >= total_alarm}
      BY <2>0 DEF Stale
    <3> QED
      BY <1>b, <3>1
  <2> QED
    BY <1>10, <2>1 DEF CheckVirginDone, AfterChecks, Quiet, RowZero
<1>11. CASE CalibrateSaved
  <2>1. pc = "saved" /\ pc' = "cal_run" /\ row' = 0
    BY <1>11 DEF CalibrateSaved
  <2>2. updated' = NewSteps(cur_alarm_state) /\ total_hit' = total_hit
        /\ virgin' = VirginAfter(cur_alarm_state)
    BY <1>11 DEF CalibrateSaved
  <2>3. Stale = {} /\ Stale' = updated'
    BY <2>1 DEF Stale
  <2> QED
    BY <1>0, <2>1, <2>2, <2>3 DEF Merges, RowZero
<1>12. CASE CalRunAborts
  BY <1>12 DEF CalRunAborts, Quiet, Stale, RowZero
<1>13. CASE CalRunCompletes
  <2>1. /\ pc = "cal_run" /\ pc' \in {"cal_run", "abort_calibration"}
        /\ total_hit' = total_hit /\ row' = row
    BY <1>13 DEF CalRunCompletes
  <2>2. \/ virgin' = virgin /\ updated' = updated
        \/ \E p \in Progress : /\ virgin' = VirginAfter(p)
                               /\ updated' = updated \cup NewSteps(p)
    BY <1>13 DEF CalRunCompletes
  <2>3. Stale = updated /\ Stale' = updated'
    BY <2>1 DEF Stale
  <2>4. Quiet \/ Merges
    BY <2>1, <2>2, <2>3 DEF Quiet, Merges
  <2> QED
    BY <2>1, <2>4 DEF RowZero
<1>14. CASE AbortCalibration
  <2>1. /\ pc = "abort_calibration" /\ row' = row /\ updated' = updated
        /\ virgin' = virgin /\ total_hit' = total_hit
        /\ pc' \in {"check_virgin", "check_cur", "cal_return"}
        /\ updated # {} => pc' = "check_virgin"
    BY <1>14 DEF AbortCalibration
  <2>2. row = 0
    BY <2>1 DEF RowZero
  <2>3. Stale \subseteq Stale'
    BY <1>0, <2>1, <2>2, AlarmAssumption DEF Stale, Alarms
  <2> QED
    BY <2>1, <2>3 DEF Quiet, RowZero
<1>15. CASE CalReturnsToSave
  BY <1>15 DEF CalReturnsToSave, Quiet, Stale, RowZero
<1>16. CASE CalReturnsToFuzzOne
  BY <1>16 DEF CalReturnsToFuzzOne, ToLoop, Quiet, Stale, RowZero
<1>17. CASE CalReturnsToDryRun
  BY <1>17 DEF CalReturnsToDryRun, ToLoop, Quiet, Stale, RowZero
<1>18. CASE SwitchFault
  BY <1>18 DEF SwitchFault, ToLoop, Quiet, Stale, RowZero
<1>19. ASSUME NEW a \in Alarms, ChooseTarget(a) PROVE Goal
  BY <1>19 DEF ChooseTarget, InFuzzLoop, Quiet, Stale, RowZero
<1>20. CASE handle_stop_sig
  BY <1>20 DEF handle_stop_sig, Quiet, Stale, RowZero
<1>21. CASE StopFuzzing
  BY <1>21 DEF StopFuzzing, Quiet, Stale, RowZero
<1>22. CASE Stopped
  BY <1>22 DEF Stopped, vars, Quiet, Stale, RowZero
<1>23. CASE UNCHANGED vars
  BY <1>23 DEF vars, Quiet, Stale, RowZero
<1> QED
  BY <1>1, <1>2, <1>3, <1>4, <1>6, <1>7, <1>8, <1>9, <1>10, <1>11,
     <1>12, <1>13, <1>14, <1>15, <1>16, <1>17, <1>18, <1>19, <1>20,
     <1>21, <1>22, <1>23 DEF Next, DryRun, FuzzOneCalibrates

(* A merged run leaves the alarms it has nothing new on alone, gives the    *)
(* others a step, and never makes the count of covered steps smaller.       *)
LEMMA MergeCounts ==
  ASSUME Shape, NEW p \in Progress, NEW a \in Alarms
  PROVE  /\ a \notin NewSteps(p) => VirginAfter(p)[a] = virgin[a]
         /\ a \in NewSteps(p) => VirginAfter(p)[a] # {}
         /\ Cardinality(virgin[a]) <= Cardinality(VirginAfter(p)[a])
<1> USE AlarmAssumption
<1>1. VirginAfter(p)[a] = virgin[a] \cup CurBB(p, a)
  BY DEF VirginAfter
<1>2. IsFiniteSet(VirginAfter(p)[a])
  <2>1. PICK k \in 0 .. total_num[a] : VirginAfter(p)[a] = 0 .. (k - 1)
    BY MergeKeepsPrefix
  <2> QED
    BY <2>1, PrefixSize
<1>3. Cardinality(virgin[a]) <= Cardinality(VirginAfter(p)[a])
  BY <1>1, <1>2, FS_Subset
<1> QED
  BY <1>1, <1>3 DEF NewSteps

(* Every step keeps the strengthened invariant.                             *)
LEMMA NextFrontier == FrontierInv /\ [Next]_vars => FrontierInv'
<1> SUFFICES ASSUME FrontierInv, [Next]_vars PROVE FrontierInv'
  OBVIOUS
<1> USE AlarmAssumption
<1>0. Shape /\ TablesOK /\ RowZero /\ updated \subseteq Alarms
  BY DEF FrontierInv, Shape, TypeOK, FrameOK, RowZero
<1>1. Shape'
  BY <1>0, NextShape
<1>2. (Quiet \/ Merges \/ Refreshes) /\ RowZero'
  BY <1>0, NextNews
<1>3. IndexIsFrontier' /\ ReachedAlarmHasSeeds'
  <2>1. CASE CheckCurRow
    BY <2>1, CheckCurKeepsIndex
  <2>2. CASE CheckVirginRow
    BY <2>2, CheckVirginKeepsIndex
  <2>3. CASE UNCHANGED <<total_hit, exploit_index, exploit_state, exploit_queue>>
    BY <2>3 DEF FrontierInv, IndexIsFrontier, ReachedAlarmHasSeeds
  <2> QED
    BY <2>1, <2>2, <2>3, QueueWriters
<1>4. /\ HitCountsVirgin'
      /\ (\A a \in Alarms : total_hit[a] <= Cardinality(virgin[a]))'
      /\ (\A a \in updated : virgin[a] # {})'
  <2>1. CASE Quiet
    BY <2>1 DEF Quiet, FrontierInv, HitCountsVirgin
  <2>2. ASSUME NEW p \in Progress,
               virgin' = VirginAfter(p), total_hit' = total_hit,
               updated' \subseteq updated \cup NewSteps(p),
               Stale \cup NewSteps(p) \subseteq Stale'
        PROVE  /\ HitCountsVirgin'
               /\ (\A a \in Alarms : total_hit[a] <= Cardinality(virgin[a]))'
               /\ (\A a \in updated : virgin[a] # {})'
    <3>1. HitCountsVirgin'
      BY <1>0, <2>2, MergeCounts DEF FrontierInv, HitCountsVirgin
    <3>2. ASSUME NEW a \in Alarms
          PROVE  total_hit'[a] <= Cardinality(virgin'[a])
      <4>1. /\ total_hit[a] <= Cardinality(virgin[a])
            /\ Cardinality(virgin[a]) <= Cardinality(VirginAfter(p)[a])
        BY <1>0, <2>2, MergeCounts DEF FrontierInv
      <4>2. total_hit[a] \in Nat /\ Cardinality(virgin[a]) \in Nat
        BY <1>0, FirstUncoveredIsCount DEF TablesOK
      <4>3. Cardinality(VirginAfter(p)[a]) \in Nat
        <5>1. PICK k \in 0 .. total_num[a] : VirginAfter(p)[a] = 0 .. (k - 1)
          BY <1>0, MergeKeepsPrefix
        <5> QED
          BY <5>1, PrefixSize
      <4> QED
        BY <2>2, <4>1, <4>2, <4>3
    <3>3. ASSUME NEW a \in updated' PROVE virgin'[a] # {}
      BY <1>0, <2>2, <3>3, MergeCounts DEF FrontierInv, NewSteps
    <3> QED
      BY <3>1, <3>2, <3>3
  <2>3. CASE Refreshes
    <3>1. /\ total_hit'[row] = Cardinality(virgin[row])
          /\ \A a \in Alarms \ {row} : total_hit'[a] = total_hit[a]
          /\ virgin' = virgin
      BY <1>0, <2>3 DEF Refreshes, TablesOK
    <3>2. HitCountsVirgin'
      BY <2>3, <3>1 DEF Refreshes, FrontierInv, HitCountsVirgin
    <3>3. (\A a \in Alarms : total_hit[a] <= Cardinality(virgin[a]))'
      <4>1. \A a \in Alarms : Cardinality(virgin[a]) \in Nat
        BY <1>0, FirstUncoveredIsCount
      <4> QED
        BY <3>1, <4>1 DEF FrontierInv
    <3>4. (\A a \in updated : virgin[a] # {})'
      BY <2>3, <3>1 DEF Refreshes, FrontierInv
    <3> QED
      BY <3>2, <3>3, <3>4
  <2> QED
    BY <1>2, <2>1, <2>2, <2>3 DEF Merges
<1> QED
  BY <1>1, <1>2, <1>3, <1>4 DEF FrontierInv, RowZero

-----------------------------------------------------------------------------
LEMMA FrontierInvariant == Spec => []FrontierInv
<1>1. Init => FrontierInv
  BY InitFrontier
<1>2. FrontierInv /\ [Next]_vars => FrontierInv'
  BY NextFrontier
<1> QED
  BY <1>1, <1>2, PTL DEF Spec

(* total_hit is the number of covered steps of every alarm that no call in  *)
(* progress still has to refresh: save_if_interesting and calibrate_case    *)
(* reach check_virgin_uncov_step on each of their paths.                    *)
THEOREM HitsAreCounted == Spec => []HitCountsVirgin
<1>1. FrontierInv => HitCountsVirgin
  BY DEF FrontierInv
<1> QED
  BY <1>1, FrontierInvariant, PTL

(* exploit_index is the frontier column of an alarm that is not marked hit, *)
(* and its last column once add_to_exploit_queue has marked it.             *)
THEOREM IndexFollowsFrontier == Spec => []IndexIsFrontier
<1>1. FrontierInv => IndexIsFrontier
  BY DEF FrontierInv
<1> QED
  BY <1>1, FrontierInvariant, PTL

(* An alarm with a covered step, or marked hit, has an entry on its exploit *)
(* queue: destroy_exploit_queue is always followed by an insertion.         *)
THEOREM ReachedAlarmsAreSeeded == Spec => []ReachedAlarmHasSeeds
<1>1. FrontierInv => ReachedAlarmHasSeeds
  BY DEF FrontierInv
<1> QED
  BY <1>1, FrontierInvariant, PTL

(* A frontier column only grows and a mark stays, on every alarm.           *)
LEMMA QueueGrows ==
  ASSUME Shape, [Next]_vars, NEW a \in Alarms
  PROVE  /\ exploit_state[a] => exploit_state'[a]
         /\ exploit_index[a] <= exploit_index'[a]
<1> USE AlarmAssumption
<1>0. /\ TablesOK /\ FrameOK /\ \A b \in Alarms : exploit_index[b] \in Nat
      /\ 0 .. max_col_cnt \subseteq Nat
  BY DEF Shape, TypeOK, TablesOK
<1>1. CASE UNCHANGED <<exploit_index, exploit_state, exploit_queue>>
  BY <1>0, <1>1
<1>2. ASSUME NEW b \in Alarms, NEW j \in 0 .. max_col_cnt, NEW h \in BOOLEAN,
             NEW v \in BOOLEAN, add_to_exploit_queue(q, b, j, h, v)
      PROVE  /\ exploit_state[a] => exploit_state'[a]
             /\ exploit_index[a] <= exploit_index'[a]
  <2>1. CASE exploit_state[b] /\ ~h
    BY <1>1, <1>2, <2>1 DEF add_to_exploit_queue
  <2>2. CASE ~(exploit_state[b] /\ ~h)
    <3>1. exploit_state' = [exploit_state EXCEPT ![b] = @ \/ h]
      BY <1>2, <2>2 DEF add_to_exploit_queue
    <3>2. exploit_state[a] => exploit_state'[a]
      BY <1>0, <3>1, Zenon DEF TablesOK
    <3>3. \/ exploit_index' = exploit_index
          \/ /\ exploit_index[b] <= j
             /\ exploit_index' = [exploit_index EXCEPT ![b] = j]
      BY <1>0, <1>2, <2>2 DEF add_to_exploit_queue, RestartsQueue
    <3>4. exploit_index[a] <= exploit_index'[a]
      BY <1>0, <3>3 DEF TablesOK
    <3> QED
      BY <3>2, <3>4
  <2> QED
    BY <2>1, <2>2
<1>3. CASE CheckCurRow
  <2>1. /\ row \in Alarms
        /\ cur_alarm_state[row] \in 0 .. total_num[row]
        /\ total_num[row] \in 0 .. max_col_cnt
    BY <1>0, <1>3 DEF CheckCurRow, FrameOK, Alarms, Progress
  <2>2. \/ UNCHANGED <<exploit_index, exploit_state, exploit_queue>>
        \/ add_to_exploit_queue(q, row, cur_alarm_state[row], FALSE, FALSE)
        \/ /\ cur_alarm_state[row] > 0
           /\ add_to_exploit_queue(q, row, cur_alarm_state[row] - 1, TRUE, FALSE)
    BY <1>3 DEF CheckCurRow
  <2>3. cur_alarm_state[row] > 0 => cur_alarm_state[row] - 1 \in 0 .. max_col_cnt
    BY <2>1
  <2>4. cur_alarm_state[row] \in 0 .. max_col_cnt
    BY <2>1
  <2> QED
    BY <1>1, <1>2, <2>1, <2>2, <2>3, <2>4
<1>4. CASE CheckVirginRow
  <2> DEFINE hit == Cardinality(virgin[row])
  <2>1. row \in Alarms /\ total_num[row] \in 0 .. max_col_cnt
    BY <1>0, <1>4 DEF CheckVirginRow, FrameOK, Alarms
  <2>2. hit \in 0 .. total_num[row] /\ FirstUncovered(row) = hit
    BY <2>1, FirstUncoveredIsCount
  <2>3. \/ UNCHANGED <<exploit_index, exploit_state, exploit_queue>>
        \/ add_to_exploit_queue(q, row, FirstUncovered(row), FALSE, TRUE)
        \/ hit > 0 /\ add_to_exploit_queue(q, row, hit - 1, TRUE, TRUE)
    BY <1>4 DEF CheckVirginRow
  <2> HIDE DEF hit
  <2>4. FirstUncovered(row) \in 0 .. max_col_cnt
    BY <2>1, <2>2
  <2>5. hit > 0 => hit - 1 \in 0 .. max_col_cnt
    BY <2>1, <2>2
  <2> QED
    BY <1>1, <1>2, <2>1, <2>3, <2>4, <2>5
<1> QED
  BY <1>1, <1>3, <1>4, QueueWriters

(* No step of has_new_step_coverage or of the binding checks forgets a      *)
(* covered step, moves a frontier column back or takes back a mark.         *)
THEOREM NothingForgotten == Spec => NeverForgets
<1> DEFINE Keeps == \A a \in Alarms : /\ virgin[a] \subseteq virgin'[a]
                                      /\ exploit_index[a] <= exploit_index'[a]
                                      /\ exploit_state[a] => exploit_state'[a]
<1>1. FrontierInv /\ FrontierInv' /\ [Next]_vars => [Keeps]_vars
  <2> SUFFICES ASSUME FrontierInv, FrontierInv', [Next]_vars, NEW a \in Alarms
               PROVE  /\ virgin[a] \subseteq virgin'[a]
                      /\ exploit_index[a] <= exploit_index'[a]
                      /\ exploit_state[a] => exploit_state'[a]
    OBVIOUS
  <2>0. Shape /\ TablesOK /\ TablesOK'
    BY DEF FrontierInv, Shape, TypeOK
  <2>1. virgin[a] \subseteq virgin'[a]
    BY <2>0, NextVirgin, MergeKeepsPrefix
  <2>2. exploit_state[a] => exploit_state'[a]
    BY <2>0, QueueGrows
  <2>3. exploit_index[a] <= exploit_index'[a]
    BY <2>0, QueueGrows
  <2> QED
    BY <2>1, <2>2, <2>3
<1> QED
  BY <1>1, FrontierInvariant, PTL DEF Spec, NeverForgets

-----------------------------------------------------------------------------
(* The length of the exploit cycle.  While a binding check goes over the    *)
(* alarms, the entry it is about may be on queues and not counted yet.      *)
Seeds == UNION {exploit_queue[a] : a \in Alarms}

CycleInv ==
  /\ pc \in {"check_cur", "check_virgin"} => Cardinality(Seeds \ {q}) <= queued_with_binding
  /\ pc # "check_virgin" /\ (pc = "check_cur" => ~has_binding) =>
       Cardinality(Seeds) <= queued_with_binding

LEMMA SubsetsOfInputs ==
  ASSUME NEW S \in SUBSET Inputs, NEW T \in SUBSET S
  PROVE  /\ IsFiniteSet(S) /\ Cardinality(S) \in Nat /\ Cardinality(T) \in Nat
         /\ Cardinality(T) <= Cardinality(S)
<1>1. IsFiniteSet(S)
  BY InputAssumption, FS_Subset
<1>2. IsFiniteSet(T) /\ Cardinality(T) <= Cardinality(S)
  BY <1>1, FS_Subset
<1> QED
  BY <1>1, <1>2, FS_CardinalityType

LEMMA SeedsAreInputs ==
  ASSUME TablesOK
  PROVE  Seeds \in SUBSET Inputs
BY DEF TablesOK, Seeds

(* One entry more to count, and what it added to the queues is counted.     *)
LEMMA OneMoreSeed ==
  ASSUME NEW S \in SUBSET Inputs, NEW x \in Inputs, NEW n \in Nat, Cardinality(S \ {x}) <= n
  PROVE  Cardinality(S) <= n + 1
<1>1. IsFiniteSet(S \ {x}) /\ Cardinality(S \ {x}) \in Nat
  BY SubsetsOfInputs
<1>2. Cardinality((S \ {x}) \cup {x}) = Cardinality(S \ {x}) + 1
  BY <1>1, FS_AddElement
<1>3. S \subseteq (S \ {x}) \cup {x} /\ (S \ {x}) \cup {x} \in SUBSET Inputs
  OBVIOUS
<1>4. /\ Cardinality(S) <= Cardinality((S \ {x}) \cup {x}) /\ Cardinality(S) \in Nat
  BY <1>3, SubsetsOfInputs
<1> QED
  BY <1>1, <1>2, <1>4

(* A binding check of one alarm puts its entry on a queue or does nothing.  *)
LEMMA RowSeeds ==
  ASSUME TablesOK, FrameOK, VirginIsPrefix, CheckCurRow \/ CheckVirginRow
  PROVE  /\ Seeds' \ {q} \subseteq Seeds \ {q}
         /\ CheckCurRow /\ ~has_binding' => Seeds' = Seeds
<1> USE AlarmAssumption
<1>1. row \in Alarms /\ q \in Inputs
  <2>1. row \in 0 .. total_alarm /\ q \in Inputs
    BY DEF FrameOK
  <2>2. row < total_alarm
    BY DEF CheckCurRow, CheckVirginRow
  <2> QED
    BY <2>1, <2>2 DEF Alarms
<1>2. ASSUME NEW j, NEW h \in BOOLEAN, NEW v \in BOOLEAN, add_to_exploit_queue(q, row, j, h, v)
      PROVE  Seeds' \subseteq Seeds \cup {q}
  <2>1. \/ exploit_queue' = exploit_queue
        \/ exploit_queue' = [exploit_queue EXCEPT ![row] = {q}]
        \/ exploit_queue' = [exploit_queue EXCEPT ![row] = @ \cup {q}]
    BY <1>2 DEF add_to_exploit_queue
  <2>2. \A a \in Alarms : exploit_queue'[a] \subseteq exploit_queue[a] \cup {q}
    BY <1>1, <2>1 DEF TablesOK
  <2> QED
    BY <2>2 DEF Seeds
<1>3. CASE CheckCurRow
  <2>1. \/ UNCHANGED exploit_queue
        \/ has_binding' /\ add_to_exploit_queue(q, row, cur_alarm_state[row], FALSE, FALSE)
        \/ has_binding' /\ add_to_exploit_queue(q, row, cur_alarm_state[row] - 1, TRUE, FALSE)
    BY <1>3 DEF CheckCurRow
  <2>2. CASE UNCHANGED exploit_queue
    <3>1. Seeds' = Seeds
      BY <2>2 DEF Seeds
    <3> QED
      BY <3>1
  <2>3. CASE ~UNCHANGED exploit_queue
    <3>1. has_binding' /\ Seeds' \subseteq Seeds \cup {q}
      BY <1>2, <2>1, <2>3
    <3> QED
      BY <3>1
  <2> QED
    BY <2>2, <2>3
<1>4. CASE CheckVirginRow
  <2>1. \/ UNCHANGED exploit_queue
        \/ add_to_exploit_queue(q, row, FirstUncovered(row), FALSE, TRUE)
        \/ add_to_exploit_queue(q, row, Cardinality(virgin[row]) - 1, TRUE, TRUE)
    BY <1>4 DEF CheckVirginRow
  <2>2. Seeds' \subseteq Seeds \cup {q}
    BY <1>2, <2>1 DEF Seeds
  <2>3. ~CheckCurRow
    BY <1>4 DEF CheckCurRow, CheckVirginRow
  <2> QED
    BY <2>2, <2>3
<1> QED
  BY <1>3, <1>4

(* Outside the checks, neither the queues nor the counter change.           *)
Elsewhere ==
  /\ UNCHANGED <<exploit_queue, queued_with_binding>>
  /\ \/ pc \notin {"check_cur", "check_virgin"}
     \/ UNCHANGED <<pc, q, has_binding>>

LEMMA CycleWriters ==
  ASSUME [Next]_vars
  PROVE  \/ CheckCurRow \/ CheckCurDone \/ CheckVirginRow \/ CheckVirginDone
         \/ Elsewhere
<1> USE DEF tables, entries, counts, outside, frame, Elsewhere
<1>1. ASSUME NEW x \in Inputs, SaveBoring(x) \/ SaveNew(x) \/ SaveFault(x) PROVE Elsewhere
  BY <1>1 DEF SaveBoring, SaveNew, SaveFault, InFuzzLoop
<1>2. ASSUME NEW x \in Inputs, DryRun(x) \/ FuzzOneCalibrates(x) PROVE Elsewhere
  BY <1>2 DEF DryRun, FuzzOneCalibrates, Calibrate
<1>3. CASE CheckVirginSkip
  BY <1>3 DEF CheckVirginSkip
<1>4. CASE CalibrateSaved
  BY <1>4 DEF CalibrateSaved
<1>5. CASE CalRunAborts
  BY <1>5 DEF CalRunAborts
<1>6. CASE CalRunCompletes
  BY <1>6 DEF CalRunCompletes
<1>7. CASE AbortCalibration
  BY <1>7 DEF AbortCalibration
<1>8. CASE CalReturnsToSave \/ CalReturnsToFuzzOne \/ CalReturnsToDryRun
  BY <1>8 DEF CalReturnsToSave, CalReturnsToFuzzOne, CalReturnsToDryRun
<1>9. CASE SwitchFault
  BY <1>9 DEF SwitchFault
<1>10. ASSUME NEW a \in Alarms, ChooseTarget(a) PROVE Elsewhere
  BY <1>10 DEF ChooseTarget
<1>11. CASE handle_stop_sig \/ StopFuzzing
  BY <1>11 DEF handle_stop_sig, StopFuzzing
<1>12. CASE Stopped \/ UNCHANGED vars
  BY <1>12 DEF Stopped, vars
<1> QED
  BY <1>1, <1>2, <1>3, <1>4, <1>5, <1>6, <1>7, <1>8, <1>9, <1>10, <1>11, <1>12 DEF Next

LEMMA NextCycle ==
  ASSUME FrontierInv, FrontierInv', CycleInv, [Next]_vars
  PROVE  CycleInv'
<1>0. /\ TablesOK /\ FrameOK /\ VirginIsPrefix /\ TablesOK' /\ FrameOK'
      /\ q \in Inputs /\ q' \in Inputs
      /\ Seeds \in SUBSET Inputs /\ Seeds' \in SUBSET Inputs
      /\ queued_with_binding \in Nat
  BY SeedsAreInputs DEF FrontierInv, Shape, TypeOK, FrameOK, EntriesOK, TablesOK, Seeds
<1>a. \A S \in SUBSET Inputs : \A T \in SUBSET S :
        /\ Cardinality(T) <= Cardinality(S) /\ Cardinality(T) \in Nat /\ Cardinality(S) \in Nat
  BY SubsetsOfInputs
<1>1. CASE CheckCurRow
  <2>1. /\ pc = "check_cur" /\ pc' = pc /\ q' = q
        /\ queued_with_binding' = queued_with_binding
        /\ has_binding' \/ has_binding' = has_binding
    BY <1>1 DEF CheckCurRow, counts
  <2>2. Seeds' \ {q} \subseteq Seeds \ {q} /\ (~has_binding' => Seeds' = Seeds)
    BY <1>0, <1>1, RowSeeds
  <2>3. Cardinality(Seeds' \ {q}) <= queued_with_binding
    <3>1. Seeds \ {q} \in SUBSET Inputs
      BY <1>0
    <3>2. Cardinality(Seeds \ {q}) <= queued_with_binding
      BY <2>1 DEF CycleInv
    <3> QED
      BY <1>0, <1>a, <2>2, <3>1, <3>2
  <2>4. ~has_binding' => Cardinality(Seeds') <= queued_with_binding
    BY <2>1, <2>2 DEF CycleInv
  <2> QED
    BY <2>1, <2>3, <2>4 DEF CycleInv
<1>2. CASE CheckVirginRow
  <2>1. /\ pc = "check_virgin" /\ pc' = pc /\ q' = q
        /\ queued_with_binding' = queued_with_binding
    BY <1>2 DEF CheckVirginRow, counts
  <2>2. Seeds' \ {q} \subseteq Seeds \ {q}
    BY <1>0, <1>2, RowSeeds
  <2>3. Cardinality(Seeds' \ {q}) <= queued_with_binding
    <3>1. Seeds \ {q} \in SUBSET Inputs
      BY <1>0
    <3>2. Cardinality(Seeds \ {q}) <= queued_with_binding
      BY <2>1 DEF CycleInv
    <3> QED
      BY <1>0, <1>a, <2>2, <3>1, <3>2
  <2> QED
    BY <2>1, <2>3 DEF CycleInv
<1>3. CASE CheckCurDone
  <2>1. /\ pc = "check_cur" /\ pc' \in {"cal_return", "saved"} /\ Seeds' = Seeds
        /\ queued_with_binding' = queued_with_binding + IF has_binding THEN 1 ELSE 0
    BY <1>3 DEF CheckCurDone, AfterChecks, tables, Seeds
  <2>2. Cardinality(Seeds) <= queued_with_binding + 1
    BY <1>0, <2>1, OneMoreSeed DEF CycleInv
  <2>3. ~has_binding => Cardinality(Seeds) <= queued_with_binding
    BY <2>1 DEF CycleInv
  <2> QED
    BY <1>0, <2>1, <2>2, <2>3 DEF CycleInv
<1>4. CASE CheckVirginDone
  <2>1. /\ pc = "check_virgin" /\ pc' \in {"cal_return", "saved"} /\ Seeds' = Seeds
        /\ queued_with_binding' = queued_with_binding + 1
    BY <1>4 DEF CheckVirginDone, AfterChecks, tables, Seeds
  <2>2. Cardinality(Seeds) <= queued_with_binding + 1
    BY <1>0, <2>1, OneMoreSeed DEF CycleInv
  <2> QED
    BY <2>1, <2>2 DEF CycleInv
<1>5. CASE Elsewhere
  <2>1. Seeds' = Seeds /\ queued_with_binding' = queued_with_binding
    BY <1>5 DEF Elsewhere, Seeds
  <2>2. CASE UNCHANGED <<pc, q, has_binding>>
    BY <2>1, <2>2 DEF CycleInv
  <2>3. CASE pc \notin {"check_cur", "check_virgin"}
    <3>1. Cardinality(Seeds) <= queued_with_binding
      BY <2>3 DEF CycleInv
    <3>2. Cardinality(Seeds \ {q'}) <= queued_with_binding
      BY <1>0, <1>a, <3>1
    <3> QED
      BY <2>1, <3>1, <3>2 DEF CycleInv
  <2> QED
    BY <1>5, <2>2, <2>3 DEF Elsewhere
<1> QED
  BY <1>1, <1>2, <1>3, <1>4, <1>5, CycleWriters

(* queued_with_binding is at least the number of entries on exploit queues  *)
(* whenever no binding check is in progress: the exploit cycle that ends    *)
(* after as many entries is long enough for each, whatever was saved,       *)
(* calibrated again or re-run in between.                                   *)
THEOREM CyclesCoverSeeds == Spec => []CycleCoversSeeds
<1>1. Init => CycleInv
  <2> SUFFICES ASSUME Init PROVE CycleInv
    OBVIOUS
  <2>1. pc = "idle" /\ queued_with_binding = 0 /\ Seeds = {}
    BY DEF Init, Seeds
  <2>2. Cardinality({}) = 0
    BY FS_EmptySet
  <2> QED
    BY <2>1, <2>2 DEF CycleInv
<1>2. FrontierInv /\ FrontierInv' /\ CycleInv /\ [Next]_vars => CycleInv'
  BY NextCycle
<1>3. CycleInv => CycleCoversSeeds
  BY DEF CycleInv, CycleCoversSeeds, Seeds
<1> QED
  BY <1>1, <1>2, <1>3, FrontierInvariant, PTL DEF Spec

-----------------------------------------------------------------------------
(* A target whose complete runs of an input make the same progress; they    *)
(* may still differ in their fault, and be cut short at any point.          *)
DeterministicTarget ==
  \A x \in Inputs : Runs[x] # {} /\ \A r, s \in Runs[x] : r.prog = s.prog

LEMMA RunIsReach ==
  ASSUME DeterministicTarget, NEW x \in Inputs
  PROVE  Reach[x] \in Progress /\ \A r \in Runs[x] : r.prog = Reach[x]
<1>1. PICK r \in Runs[x] : TRUE
  BY DEF DeterministicTarget
<1>2. (CHOOSE s \in Runs[x] : TRUE) \in Runs[x]
  BY <1>1
<1>3. Reach[x] = (CHOOSE s \in Runs[x] : TRUE).prog
  BY DEF Reach
<1>4. \A s \in Runs[x] : s.prog \in Progress
  BY InputAssumption
<1> QED
  BY <1>2, <1>3, <1>4 DEF DeterministicTarget

(* A run makes no more progress than a complete one, and all of it when it  *)
(* ends without a fault and Ctrl-C was not pressed.                         *)
LEMMA RunsWithinReach ==
  ASSUME DeterministicTarget, NEW x \in Inputs, NEW p \in Progress,
         NEW f \in Faults, RunTarget(x, p, f)
  PROVE  /\ \A a \in Alarms : p[a] <= Reach[x][a]
         /\ f = FAULT_NONE /\ ~stop_soon => p = Reach[x]
<1>1. PICK r \in Runs[x] :
        \/ p = r.prog /\ f = r.fault
        \/ /\ \A a \in Alarms : p[a] <= r.prog[a]
           /\ f = IF stop_soon THEN FAULT_NONE ELSE FAULT_TMOUT
  BY DEF RunTarget
<1>2. r.prog = Reach[x] /\ Reach[x] \in Progress
  BY RunIsReach
<1>3. \A a \in Alarms : p[a] \in Int /\ p[a] <= p[a]
  BY AlarmAssumption DEF Progress
<1> QED
  BY <1>1, <1>2, <1>3 DEF FAULT_NONE, FAULT_TMOUT

(* A run with a new step of an alarm covers all the alarm's steps that are  *)
(* covered then, and more than were covered before.                         *)
LEMMA MergeIsExact ==
  ASSUME Shape, NEW p \in Progress, NEW a \in NewSteps(p)
  PROVE  VirginAfter(p)[a] = CurBB(p, a) /\ Cardinality(virgin[a]) < p[a]
<1> USE AlarmAssumption
<1>1. a \in Alarms /\ ~(CurBB(p, a) \subseteq virgin[a])
  BY DEF NewSteps
<1>2. /\ Cardinality(virgin[a]) \in 0 .. total_num[a]
      /\ virgin[a] = 0 .. (Cardinality(virgin[a]) - 1)
      /\ p[a] \in 0 .. total_num[a] /\ total_num[a] \in Nat
  BY <1>1, FirstUncoveredIsCount DEF Progress
<1>3. Cardinality(virgin[a]) < p[a]
  BY <1>1, <1>2 DEF CurBB
<1>4. virgin[a] \subseteq CurBB(p, a)
  BY <1>2, <1>3 DEF CurBB
<1> QED
  BY <1>1, <1>3, <1>4 DEF VirginAfter

-----------------------------------------------------------------------------
(* Why a deterministic target's queues are those of ExploitFrontier: what a *)
(* binding check is about was merged by a complete run (Merged); the shared *)
(* tables never show more than that (Within); and an alarm that waits for   *)
(* its refresh is covered exactly as far as the entry reaches, which no     *)
(* earlier entry did (Raised).                                              *)
Covered(x) == \A a \in Alarms : CurBB(Reach[x], a) \subseteq virgin[a]

Within ==
  pc \in {"check_cur", "check_virgin", "saved", "abort_calibration"} =>
    \A a \in Alarms : cur_alarm_state[a] <= Reach[q][a]

Merged ==
  \/ pc \in {"check_cur", "check_virgin", "saved"}
  \/ pc \in {"cal_run", "abort_calibration"} /\ (new_bits > 0 \/ updated # {})
  => Covered(q)

Raised ==
  \A a \in Stale : virgin[a] = CurBB(Reach[q], a) /\ total_hit[a] < Reach[q][a]

ReachInv == Within /\ Merged /\ Raised /\ HeatAndHitAreEarned

(* Where check_cur_uncov_step puts an entry on a queue, it joins those that *)
(* stand on the frontier already.                                           *)
LEMMA CurRowJoins ==
  ASSUME DeterministicTarget, FrontierInv, ReachInv, CheckCurRow
  PROVE  /\ HeatAndHitAreEarned'
         /\ \/ UNCHANGED <<total_hit, exploit_queue>>
            \/ Frontier!Join(row, q)
<1> USE AlarmAssumption
<1> DEFINE c == cur_alarm_state[row]
           R == Reach[q][row]
           hit == total_hit[row]
<1>0. /\ TablesOK /\ FrameOK /\ Shape /\ pc = "check_cur" /\ total_hit' = total_hit
      /\ row \in Alarms /\ q \in Inputs
  <2>1. TablesOK /\ FrameOK /\ Shape
    BY DEF FrontierInv, Shape, TypeOK
  <2>2. pc = "check_cur" /\ total_hit' = total_hit /\ row < total_alarm
    BY DEF CheckCurRow
  <2> QED
    BY <2>1, <2>2 DEF FrameOK, Alarms
<1>1. R \in 0 .. total_num[row] /\ c \in 0 .. total_num[row] /\ total_num[row] \in 0 .. max_col_cnt
  <2>1. Reach[q] \in Progress /\ cur_alarm_state \in Progress
    BY <1>0, RunIsReach DEF FrameOK
  <2> QED
    BY <1>0, <2>1 DEF Progress
<1>2. c <= R
  BY <1>0 DEF ReachInv, Within
<1>3. R <= hit /\ hit \in 0 .. total_num[row]
  <2>1. CurBB(Reach[q], row) \subseteq virgin[row]
    BY <1>0 DEF ReachInv, Merged, Covered
  <2>2. hit = Cardinality(virgin[row])
    BY <1>0 DEF FrontierInv, HitCountsVirgin, Stale
  <2>3. hit \in 0 .. total_num[row] /\ virgin[row] = 0 .. (hit - 1)
    BY <1>0, <2>2, FirstUncoveredIsCount
  <2> QED
    BY <1>1, <2>1, <2>3 DEF CurBB
<1>4. /\ exploit_state[row] => hit = total_num[row] /\ exploit_index[row] = hit - 1
      /\ ~exploit_state[row] => exploit_index[row] = hit /\ (hit > 0 => hit < total_num[row])
      /\ heated[row] # {} => exploit_queue[row] # {}
  BY <1>0 DEF ReachInv, HeatAndHitAreEarned, FrontierInv, IndexIsFrontier
<1>5. \/ c = 0 /\ UNCHANGED <<exploit_index, exploit_state, exploit_queue, heated>>
      \/ /\ c > 0 /\ c < total_num[row] /\ c = hit
         /\ add_to_exploit_queue(q, row, c, FALSE, FALSE)
         /\ heated' = [heated EXCEPT ![row] = @ \cup {c}]
      \/ /\ c > 0 /\ c < total_num[row] /\ c # hit
         /\ heated' = [heated EXCEPT ![row] = @ \cup {c}]
         /\ UNCHANGED <<exploit_index, exploit_state, exploit_queue>>
      \/ /\ c > 0 /\ c = total_num[row]
         /\ add_to_exploit_queue(q, row, c - 1, TRUE, FALSE)
         /\ heated' = [heated EXCEPT ![row] = @ \cup {c - 1}]
  BY DEF CheckCurRow
<1> HIDE DEF c, R, hit
<1>6. ASSUME exploit_queue'[row] # {},
             \A a \in Alarms \ {row} : exploit_queue'[a] = exploit_queue[a],
             exploit_state' = exploit_state,
             \A a \in Alarms \ {row} : heated'[a] = heated[a]
      PROVE  HeatAndHitAreEarned'
  BY <1>0, <1>6 DEF ReachInv, HeatAndHitAreEarned
<1>7. ASSUME NEW S, heated' = [heated EXCEPT ![row] = S]
      PROVE  \A a \in Alarms \ {row} : heated'[a] = heated[a]
  BY <1>0, <1>7 DEF TablesOK
<1>8. ASSUME exploit_queue' = [exploit_queue EXCEPT ![row] = @ \cup {q}],
             exploit_state' = exploit_state, c > 0, R = hit,
             \A a \in Alarms \ {row} : heated'[a] = heated[a]
      PROVE  HeatAndHitAreEarned' /\ Frontier!Join(row, q)
  <2>1. /\ q \in exploit_queue'[row]
        /\ \A a \in Alarms \ {row} : exploit_queue'[a] = exploit_queue[a]
    BY <1>0, <1>8 DEF TablesOK
  <2>2. HeatAndHitAreEarned'
    BY <1>6, <1>8, <2>1
  <2>3. hit > 0
    BY <1>1, <1>2, <1>3, <1>8
  <2> QED
    BY <1>0, <1>8, <2>2, <2>3 DEF Frontier!Join, R, hit
<1>9. CASE c = 0 /\ UNCHANGED <<exploit_index, exploit_state, exploit_queue, heated>>
  BY <1>0, <1>9 DEF ReachInv, HeatAndHitAreEarned
<1>10. CASE /\ c > 0 /\ c < total_num[row] /\ c = hit
            /\ add_to_exploit_queue(q, row, c, FALSE, FALSE)
            /\ heated' = [heated EXCEPT ![row] = @ \cup {c}]
  <2>1. ~exploit_state[row] /\ R = hit /\ exploit_index[row] = c
    BY <1>1, <1>2, <1>3, <1>4, <1>10
  <2>2. ~RestartsQueue(row, c, FALSE, FALSE)
    BY <1>1, <2>1 DEF RestartsQueue
  <2>3. /\ exploit_queue' = [exploit_queue EXCEPT ![row] = @ \cup {q}]
        /\ exploit_state' = [exploit_state EXCEPT ![row] = @ \/ FALSE]
    BY <1>10, <2>1, <2>2 DEF add_to_exploit_queue
  <2>4. exploit_state' = exploit_state
    BY <1>0, <2>1, <2>3 DEF TablesOK
  <2> QED
    BY <1>7, <1>8, <1>10, <2>1, <2>3, <2>4
<1>11. CASE /\ c > 0 /\ c < total_num[row] /\ c # hit
            /\ heated' = [heated EXCEPT ![row] = @ \cup {c}]
            /\ UNCHANGED <<exploit_index, exploit_state, exploit_queue>>
  <2>1. hit > 0
    BY <1>1, <1>2, <1>3, <1>11
  <2>2. exploit_queue[row] # {}
    BY <1>0, <2>1 DEF FrontierInv, ReachedAlarmHasSeeds, hit
  <2> QED
    BY <1>0, <1>6, <1>7, <1>11, <2>2
<1>12. CASE /\ c > 0 /\ c = total_num[row]
            /\ add_to_exploit_queue(q, row, c - 1, TRUE, FALSE)
            /\ heated' = [heated EXCEPT ![row] = @ \cup {c - 1}]
  <2>1. R = hit /\ hit = total_num[row] /\ hit > 0
    BY <1>1, <1>2, <1>3, <1>12
  <2>2. exploit_state[row] /\ exploit_index[row] = c - 1
    <3>1. ~(hit < total_num[row]) /\ hit = c
      BY <1>1, <1>3, <1>12, <2>1
    <3>2. exploit_state[row]
      BY <1>4, <2>1, <3>1, Zenon
    <3> QED
      BY <1>4, <3>1, <3>2
  <2>3. ~RestartsQueue(row, c - 1, TRUE, FALSE)
    BY <1>1, <2>2 DEF RestartsQueue
  <2>4. /\ exploit_queue' = [exploit_queue EXCEPT ![row] = @ \cup {q}]
        /\ exploit_state' = [exploit_state EXCEPT ![row] = @ \/ TRUE]
    BY <1>12, <2>3 DEF add_to_exploit_queue
  <2>5. exploit_state' = exploit_state
    BY <1>0, <2>2, <2>4 DEF TablesOK
  <2> QED
    BY <1>7, <1>8, <1>12, <2>1, <2>4, <2>5
<1> QED
  BY <1>5, <1>9, <1>10, <1>11, <1>12

(* check_virgin_uncov_step puts the entry that raised an alarm alone on the *)
(* alarm's queue.                                                           *)
LEMMA VirginRowAdvances ==
  ASSUME DeterministicTarget, FrontierInv, ReachInv, CheckVirginRow
  PROVE  HeatAndHitAreEarned' /\ Frontier!Advance(row, q)
<1> USE AlarmAssumption
<1> DEFINE R == Reach[q][row]
           hit == Cardinality(virgin[row])
<1>0. /\ TablesOK /\ FrameOK /\ Shape /\ pc = "check_virgin" /\ row \in updated
      /\ row \in Alarms /\ q \in Inputs
  <2>1. TablesOK /\ FrameOK /\ Shape
    BY DEF FrontierInv, Shape, TypeOK
  <2>2. pc = "check_virgin" /\ row \in updated /\ row < total_alarm
    BY DEF CheckVirginRow
  <2> QED
    BY <2>1, <2>2 DEF FrameOK, Alarms
<1>1. R \in 0 .. total_num[row] /\ total_num[row] \in 0 .. max_col_cnt
  <2>1. Reach[q] \in Progress
    BY <1>0, RunIsReach
  <2> QED
    BY <1>0, <2>1 DEF Progress
<1>2. virgin[row] = CurBB(Reach[q], row) /\ total_hit[row] < R
  <2>1. row \in Stale
    BY <1>0 DEF Stale, FrameOK
  <2> QED
    BY <2>1 DEF ReachInv, Raised
<1>3. hit = R
  BY <1>1, <1>2, PrefixSize DEF CurBB
<1>4. /\ total_hit[row] \in Nat
      /\ total_hit' = [total_hit EXCEPT ![row] = R]
      /\ total_hit'[row] = R
      /\ \A a \in Alarms \ {row} : total_hit'[a] = total_hit[a]
  BY <1>0, <1>3 DEF CheckVirginRow, TablesOK
<1>5. FirstUncovered(row) = R
  BY <1>0, <1>3, FirstUncoveredIsCount
<1>6. ~exploit_state[row] /\ exploit_index[row] = total_hit[row]
  <2>1. ~exploit_state[row]
    BY <1>0, <1>1, <1>2, <1>4 DEF ReachInv, HeatAndHitAreEarned
  <2> QED
    BY <1>0, <2>1 DEF FrontierInv, IndexIsFrontier
<1>7. \/ R = 0
      \/ /\ R > 0 /\ R < total_num[row]
         /\ add_to_exploit_queue(q, row, R, FALSE, TRUE)
         /\ heated' = [heated EXCEPT ![row] = @ \cup {R}]
      \/ /\ R > 0 /\ R = total_num[row]
         /\ add_to_exploit_queue(q, row, R - 1, TRUE, TRUE)
         /\ heated' = [heated EXCEPT ![row] = @ \cup {R - 1}]
  BY <1>3, <1>5 DEF CheckVirginRow
<1> HIDE DEF R, hit
<1>8. ASSUME NEW h \in BOOLEAN, h => R = total_num[row], NEW j,
             add_to_exploit_queue(q, row, j, h, TRUE), RestartsQueue(row, j, h, TRUE),
             NEW S, heated' = [heated EXCEPT ![row] = S]
      PROVE  HeatAndHitAreEarned' /\ exploit_queue' = [exploit_queue EXCEPT ![row] = {q}]
  <2>1. /\ exploit_queue' = [exploit_queue EXCEPT ![row] = {q}]
        /\ exploit_state' = [exploit_state EXCEPT ![row] = @ \/ h]
    BY <1>6, <1>8 DEF add_to_exploit_queue
  <2>2. exploit_state'[row] = (exploit_state[row] \/ h)
    BY <1>0, <2>1 DEF TablesOK
  <2>3. /\ exploit_queue'[row] = {q}
        /\ \A a \in Alarms \ {row} : /\ exploit_queue'[a] = exploit_queue[a]
                                     /\ exploit_state'[a] = exploit_state[a]
                                     /\ heated'[a] = heated[a]
    BY <1>0, <1>8, <2>1 DEF TablesOK
  <2>4. exploit_state'[row] => total_hit'[row] = total_num[row]
    BY <1>4, <1>6, <1>8, <2>2
  <2> QED
    BY <1>4, <2>1, <2>3, <2>4 DEF ReachInv, HeatAndHitAreEarned
<1>9. /\ HeatAndHitAreEarned'
      /\ exploit_queue' = [exploit_queue EXCEPT ![row] = {q}]
  <2>1. R > 0
    BY <1>1, <1>2, <1>4 DEF R
  <2>2. CASE R < total_num[row] /\ add_to_exploit_queue(q, row, R, FALSE, TRUE)
             /\ heated' = [heated EXCEPT ![row] = @ \cup {R}]
    <3>1. RestartsQueue(row, R, FALSE, TRUE)
      BY <1>2, <1>6 DEF RestartsQueue, R
    <3> QED
      BY <1>8, <2>2, <3>1
  <2>3. CASE R = total_num[row] /\ add_to_exploit_queue(q, row, R - 1, TRUE, TRUE)
             /\ heated' = [heated EXCEPT ![row] = @ \cup {R - 1}]
    <3>1. RestartsQueue(row, R - 1, TRUE, TRUE)
      <4>1. exploit_index[row] < R - 1 \/ exploit_index[row] = R - 1
        BY <1>1, <1>2, <1>4, <1>6 DEF R
      <4> QED
        BY <4>1 DEF RestartsQueue
    <3> QED
      BY <1>8, <2>3, <3>1
  <2>4. R # 0
    BY <2>1
  <2> QED
    BY <1>7, <2>2, <2>3, <2>4, Zenon
<1> QED
  BY <1>2, <1>4, <1>9 DEF Frontier!Advance, R

(* Steps that start or go on with the triage of one entry.                  *)
TriageInv == Within /\ Merged /\ Raised

LEMMA SavedIsMerged ==
  ASSUME DeterministicTarget, FrontierInv, NEW x \in Inputs, SaveNew(x)
  PROVE  TriageInv'
<1> USE DEF tables, entries, counts, outside, frame
<1>1. PICK p \in Progress :
        /\ RunTarget(x, p, FAULT_NONE) /\ cur_alarm_state' = p
        /\ virgin' = VirginAfter(p) /\ updated' = NewSteps(p)
        /\ pc' = IF NewSteps(p) # {} THEN "check_virgin" ELSE "check_cur"
  BY DEF SaveNew
<1>2. pc = "idle" /\ ~stop_soon /\ row' = 0 /\ total_hit' = total_hit /\ q' = x
  BY DEF SaveNew, InFuzzLoop
<1>3. p = Reach[x] /\ \A a \in Alarms : p[a] <= Reach[x][a]
  BY <1>1, <1>2, RunsWithinReach DEF Faults
<1>4. Covered(q)'
  BY <1>1, <1>2, <1>3 DEF Covered, VirginAfter
<1>5. ASSUME NEW a \in Stale'
      PROVE  virgin'[a] = CurBB(p, a) /\ total_hit'[a] < p[a]
  <2>1. a \in NewSteps(p) /\ a \in Alarms /\ Stale = {} /\ Shape
    BY <1>1, <1>2, <1>5 DEF Stale, NewSteps, FrontierInv
  <2>2. total_hit[a] = Cardinality(virgin[a])
    BY <2>1 DEF FrontierInv, HitCountsVirgin
  <2> QED
    BY <1>1, <1>2, <2>1, <2>2, MergeIsExact
<1>6. Within'
  BY <1>1, <1>2, <1>3 DEF Within
<1>7. Raised'
  BY <1>2, <1>3, <1>5 DEF Raised, CurBB
<1> QED
  BY <1>4, <1>6, <1>7 DEF TriageInv, Merged

LEMMA CalibratedIsMerged ==
  ASSUME DeterministicTarget, FrontierInv, TriageInv, CalibrateSaved
  PROVE  TriageInv'
<1> USE DEF tables, entries, counts, outside, frame
<1>0. /\ pc = "saved" /\ pc' = "cal_run" /\ q' = q /\ total_hit' = total_hit
      /\ updated' = NewSteps(cur_alarm_state) /\ virgin' = VirginAfter(cur_alarm_state)
      /\ cur_alarm_state \in Progress /\ q \in Inputs /\ TablesOK
  BY DEF CalibrateSaved, FrontierInv, Shape, TypeOK, FrameOK
<1>1. NewSteps(cur_alarm_state) = {}
  <2>1. ASSUME NEW a \in Alarms PROVE CurBB(cur_alarm_state, a) \subseteq virgin[a]
    <3>1. CurBB(Reach[q], a) \subseteq virgin[a] /\ cur_alarm_state[a] <= Reach[q][a]
      BY <1>0 DEF TriageInv, Merged, Within, Covered
    <3>2. cur_alarm_state[a] \in Nat
      BY <1>0, AlarmAssumption DEF Progress
    <3>3. Reach[q][a] \in Nat
      BY <1>0, RunIsReach, AlarmAssumption DEF Progress
    <3> QED
      BY <3>1, <3>2, <3>3 DEF CurBB
  <2> QED
    BY <2>1 DEF NewSteps
<1>2. virgin' = virgin /\ updated' = {}
  BY <1>0, <1>1, NothingNew
<1>3. Covered(q) /\ Covered(q)'
  BY <1>0, <1>2 DEF TriageInv, Merged, Covered
<1> QED
  BY <1>0, <1>2, <1>3 DEF TriageInv, Within, Merged, Raised, Stale

LEMMA CalRunIsMerged ==
  ASSUME DeterministicTarget, FrontierInv, TriageInv, CalRunCompletes
  PROVE  TriageInv'
<1> USE DEF tables, entries, counts, outside, frame
<1>0. /\ pc = "cal_run" /\ pc' \in {"cal_run", "abort_calibration"} /\ ~stop_soon
      /\ q' = q /\ total_hit' = total_hit /\ q \in Inputs /\ Shape
  BY DEF CalRunCompletes, FrontierInv, Shape, TypeOK, FrameOK
<1>1. PICK p \in Progress :
        /\ RunTarget(q, p, FAULT_NONE) /\ cur_alarm_state' = p
        /\ \/ UNCHANGED <<virgin, updated, new_bits>>
           \/ virgin' = VirginAfter(p) /\ updated' = updated \cup NewSteps(p)
  BY DEF CalRunCompletes
<1>2. p = Reach[q] /\ \A a \in Alarms : p[a] <= Reach[q][a]
  BY <1>0, <1>1, RunsWithinReach DEF Faults
<1>3. Within'
  BY <1>0, <1>1, <1>2 DEF Within
<1>4. Stale = updated /\ Stale' = updated'
  BY <1>0 DEF Stale
<1>5. CASE UNCHANGED <<virgin, updated, new_bits>>
  <2>1. Raised'
    BY <1>0, <1>4, <1>5 DEF TriageInv, Raised, CurBB
  <2>2. Merged'
    BY <1>0, <1>5 DEF TriageInv, Merged, Covered
  <2> QED
    BY <1>3, <2>1, <2>2 DEF TriageInv
<1>6. CASE virgin' = VirginAfter(p) /\ updated' = updated \cup NewSteps(p)
  <2>1. Covered(q)'
    BY <1>0, <1>2, <1>6 DEF Covered, VirginAfter
  <2>2. ASSUME NEW a \in updated'
        PROVE  virgin'[a] = CurBB(p, a) /\ total_hit'[a] < p[a]
    <3>1. CASE a \in NewSteps(p)
      <4>1. a \in Alarms /\ a \notin Stale
        <5>1. a \in Alarms /\ ~(CurBB(p, a) \subseteq virgin[a])
          BY <3>1 DEF NewSteps
        <5> QED
          BY <1>2, <5>1 DEF TriageInv, Raised
      <4>2. total_hit[a] = Cardinality(virgin[a])
        BY <4>1 DEF FrontierInv, HitCountsVirgin
      <4> QED
        BY <1>0, <1>6, <3>1, <4>2, MergeIsExact
    <3>2. CASE a \notin NewSteps(p)
      <4>1. a \in Stale /\ a \in Alarms
        BY <1>4, <1>6, <2>2, <3>2 DEF FrontierInv, Shape, TypeOK, FrameOK
      <4>2. virgin[a] = CurBB(p, a) /\ total_hit[a] < p[a]
        BY <1>2, <4>1 DEF TriageInv, Raised
      <4> QED
        BY <1>0, <1>6, <4>1, <4>2 DEF VirginAfter
    <3> QED
      BY <3>1, <3>2
  <2>3. Raised'
    BY <1>0, <1>2, <1>4, <2>2 DEF Raised, CurBB
  <2> QED
    BY <1>3, <2>1, <2>3 DEF TriageInv, Merged
<1> QED
  BY <1>1, <1>5, <1>6

(* A binding check of one alarm, and the re-run it may end with.            *)
LEMMA RowKeepsTriage ==
  ASSUME DeterministicTarget, FrontierInv, TriageInv, CheckCurRow \/ CheckVirginRow
  PROVE  TriageInv'
<1> USE DEF tables, entries, counts, outside, frame
<1>0. /\ pc \in {"check_cur", "check_virgin"} /\ pc' = pc /\ q' = q /\ q \in Inputs
      /\ virgin' = virgin /\ updated' = updated /\ row' = row + 1
      /\ TablesOK /\ FrameOK /\ row \in Alarms /\ Shape
  <2>1. TablesOK /\ FrameOK /\ Shape
    BY DEF FrontierInv, Shape, TypeOK
  <2>2. /\ pc \in {"check_cur", "check_virgin"} /\ pc' = pc /\ q' = q
        /\ virgin' = virgin /\ updated' = updated /\ row' = row + 1
        /\ row < total_alarm
    BY DEF CheckCurRow, CheckVirginRow
  <2> QED
    BY <2>1, <2>2, AlarmAssumption DEF FrameOK, Alarms
<1>1. Within'
  <2>1. get_dyn_distance(q) \/ NoReRun
    BY DEF CheckCurRow, CheckVirginRow
  <2>2. CASE get_dyn_distance(q)
    <3>1. PICK p \in Progress, f \in Faults : RunTarget(q, p, f) /\ cur_alarm_state' = p
      BY <2>2 DEF get_dyn_distance
    <3> QED
      BY <1>0, <3>1, RunsWithinReach DEF Within
  <2>3. CASE NoReRun
    BY <1>0, <2>3 DEF NoReRun, TriageInv, Within
  <2> QED
    BY <2>1, <2>2, <2>3
<1>2. Merged'
  BY <1>0 DEF TriageInv, Merged, Covered
<1>3. Raised'
  <2>1. ASSUME NEW a \in Stale'
        PROVE  a \in Stale /\ a # row /\ a \in Alarms
    <3>1. pc = "check_virgin" /\ a \in updated /\ a >= row + 1
      BY <1>0, <2>1 DEF Stale
    <3>2. a \in Alarms /\ a \in Int /\ row \in Int
      BY <1>0, <3>1, AlarmAssumption DEF FrameOK, Alarms
    <3> QED
      BY <3>1, <3>2 DEF Stale
  <2>2. \A a \in Alarms \ {row} : total_hit'[a] = total_hit[a]
    BY <1>0 DEF CheckCurRow, CheckVirginRow, TablesOK
  <2> QED
    BY <1>0, <2>1, <2>2 DEF TriageInv, Raised, CurBB
<1> QED
  BY <1>1, <1>2, <1>3 DEF TriageInv

LEMMA NextTriage ==
  ASSUME DeterministicTarget, FrontierInv, TriageInv, [Next]_vars
  PROVE  TriageInv'
<1> USE DEF tables, entries, counts, outside, frame
<1> DEFINE Same == UNCHANGED <<virgin, total_hit>>
<1>a. ASSUME Same, pc' \notin {"check_cur", "check_virgin", "saved", "cal_run", "abort_calibration"}
      PROVE  TriageInv'
  BY <1>a DEF TriageInv, Within, Merged, Raised, Stale
<1>b. ASSUME UNCHANGED <<virgin, total_hit, updated, new_bits, q, cur_alarm_state, pc, row>>
      PROVE  TriageInv'
  BY <1>b DEF TriageInv, Within, Merged, Raised, Stale, Covered, CurBB
<1>c. FrameOK /\ total_alarm \in Int
  BY AlarmAssumption DEF FrontierInv, Shape, TypeOK
<1>1. ASSUME NEW x \in Inputs, SaveBoring(x) \/ SaveFault(x) PROVE TriageInv'
  BY <1>1, <1>a DEF SaveBoring, SaveFault, InFuzzLoop
<1>2. ASSUME NEW x \in Inputs, SaveNew(x) PROVE TriageInv'
  BY <1>2, SavedIsMerged
<1>3. ASSUME NEW x \in Inputs, Calibrate(x, "dry_run") \/ Calibrate(x, "fuzz_one")
      PROVE  TriageInv'
  BY <1>3 DEF Calibrate, TriageInv, Within, Merged, Raised, Stale
<1>4. CASE CheckCurRow \/ CheckVirginRow
  BY <1>4, RowKeepsTriage
<1>5. CASE CheckCurDone \/ CheckVirginDone
  <2>1. /\ pc \in {"check_cur", "check_virgin"} /\ pc' \in {"cal_return", "saved"}
        /\ UNCHANGED <<virgin, total_hit, q, cur_alarm_state>>
    BY <1>5 DEF CheckCurDone, CheckVirginDone, AfterChecks
  <2> QED
    BY <2>1 DEF TriageInv, Within, Merged, Raised, Stale, Covered, CurBB
<1>6. CASE CheckVirginSkip
  <2>1. /\ pc = "check_virgin" /\ pc' = pc /\ row' = row + 1
        /\ UNCHANGED <<virgin, total_hit, updated, q, cur_alarm_state>>
    BY <1>6 DEF CheckVirginSkip
  <2>2. Stale' \subseteq Stale
    <3>1. \A a \in updated : a \in Int /\ row \in Int
      BY <1>c DEF FrameOK, Alarms
    <3>2. Stale = {a \in updated : a >= row} /\ Stale' = {a \in updated : a >= row + 1}
      BY <2>1 DEF Stale
    <3> QED
      BY <3>1, <3>2
  <2> QED
    BY <2>1, <2>2 DEF TriageInv, Within, Merged, Raised, Covered, CurBB
<1>7. CASE CalibrateSaved
  BY <1>7, CalibratedIsMerged
<1>8. CASE CalRunAborts
  <2>1. PICK p \in Progress, f \in Faults : RunTarget(q, p, f) /\ cur_alarm_state' = p
    BY <1>8 DEF CalRunAborts
  <2>2. /\ pc = "cal_run" /\ pc' = "abort_calibration" /\ q \in Inputs
        /\ UNCHANGED <<virgin, total_hit, updated, new_bits, q>>
    BY <1>c, <1>8 DEF CalRunAborts, FrameOK
  <2>3. Within'
    BY <2>1, <2>2, RunsWithinReach DEF Within
  <2>4. Stale' = Stale
    BY <2>2 DEF Stale
  <2> QED
    BY <2>2, <2>3, <2>4 DEF TriageInv, Merged, Raised, Covered, CurBB
<1>9. CASE CalRunCompletes
  BY <1>9, CalRunIsMerged
<1>10. CASE AbortCalibration
  <2>1. /\ pc = "abort_calibration"
        /\ UNCHANGED <<virgin, total_hit, updated, new_bits, q, cur_alarm_state, row>>
        /\ \/ pc' = "check_virgin" /\ updated # {}
           \/ pc' = "check_cur" /\ new_bits > 0
           \/ pc' = "cal_return"
    BY <1>10 DEF AbortCalibration
  <2>2. Within' /\ Merged'
    BY <2>1 DEF TriageInv, Within, Merged, Covered
  <2>3. Stale' \subseteq Stale
    BY <2>1 DEF Stale
  <2> QED
    BY <2>1, <2>2, <2>3 DEF TriageInv, Raised, CurBB
<1>11. CASE CalReturnsToSave \/ CalReturnsToFuzzOne \/ CalReturnsToDryRun
  BY <1>11, <1>a DEF CalReturnsToSave, CalReturnsToFuzzOne, CalReturnsToDryRun, ToLoop
<1>12. CASE SwitchFault
  BY <1>12, <1>a DEF SwitchFault, ToLoop
<1>13. ASSUME NEW a \in Alarms, ChooseTarget(a) PROVE TriageInv'
  BY <1>13, <1>b DEF ChooseTarget
<1>14. CASE handle_stop_sig
  BY <1>14, <1>b DEF handle_stop_sig
<1>15. CASE StopFuzzing
  BY <1>15, <1>a DEF StopFuzzing
<1>16. CASE Stopped \/ UNCHANGED vars
  BY <1>16, <1>b DEF Stopped, vars
<1> QED
  BY <1>1, <1>2, <1>3, <1>4, <1>5, <1>6, <1>7, <1>8, <1>9, <1>10, <1>11,
     <1>12, <1>13, <1>14, <1>15, <1>16 DEF Next, DryRun, FuzzOneCalibrates

(* Heat, too, is only written by the binding checks.                        *)
LEMMA HeatWriters ==
  ASSUME [Next]_vars
  PROVE  CheckCurRow \/ CheckVirginRow \/ UNCHANGED heated
<1> USE DEF tables, entries, counts, outside, frame
<1>1. ASSUME NEW x \in Inputs, SaveBoring(x) \/ SaveNew(x) \/ SaveFault(x) PROVE UNCHANGED heated
  BY <1>1 DEF SaveBoring, SaveNew, SaveFault
<1>2. ASSUME NEW x \in Inputs, DryRun(x) \/ FuzzOneCalibrates(x) PROVE UNCHANGED heated
  BY <1>2 DEF DryRun, FuzzOneCalibrates, Calibrate
<1>3. CASE CheckCurDone \/ CheckVirginSkip \/ CheckVirginDone
  BY <1>3 DEF CheckCurDone, CheckVirginSkip, CheckVirginDone
<1>4. CASE CalibrateSaved \/ CalRunAborts \/ CalRunCompletes \/ AbortCalibration
  BY <1>4 DEF CalibrateSaved, CalRunAborts, CalRunCompletes, AbortCalibration
<1>5. CASE CalReturnsToSave \/ CalReturnsToFuzzOne \/ CalReturnsToDryRun
  BY <1>5 DEF CalReturnsToSave, CalReturnsToFuzzOne, CalReturnsToDryRun
<1>6. CASE SwitchFault
  BY <1>6 DEF SwitchFault
<1>7. ASSUME NEW a \in Alarms, ChooseTarget(a) PROVE UNCHANGED heated
  BY <1>7 DEF ChooseTarget
<1>8. CASE handle_stop_sig \/ StopFuzzing
  BY <1>8 DEF handle_stop_sig, StopFuzzing
<1>9. CASE Stopped \/ UNCHANGED vars
  BY <1>9 DEF Stopped, vars
<1> QED
  BY <1>1, <1>2, <1>3, <1>4, <1>5, <1>6, <1>7, <1>8, <1>9 DEF Next

LEMMA NextReach ==
  ASSUME DeterministicTarget, FrontierInv, ReachInv, [Next]_vars
  PROVE  ReachInv' /\ [Frontier!Next]_<<total_hit, exploit_queue>>
<1>1. TriageInv'
  BY NextTriage DEF ReachInv, TriageInv
<1>2. CASE CheckCurRow \/ CheckVirginRow
  <2>1. row \in Alarms /\ q \in Inputs
    <3>1. row \in 0 .. total_alarm /\ row < total_alarm /\ q \in Inputs
      BY <1>2 DEF CheckCurRow, CheckVirginRow, FrontierInv, Shape, TypeOK, FrameOK
    <3> QED
      BY <3>1, AlarmAssumption DEF Alarms
  <2>2. /\ HeatAndHitAreEarned'
        /\ \/ UNCHANGED <<total_hit, exploit_queue>>
           \/ Frontier!Join(row, q) \/ Frontier!Advance(row, q)
    BY <1>2, CurRowJoins, VirginRowAdvances
  <2> QED
    BY <1>1, <2>1, <2>2 DEF ReachInv, TriageInv, Frontier!Next
<1>3. CASE ~(CheckCurRow \/ CheckVirginRow)
  <2>1. UNCHANGED <<total_hit, exploit_state, exploit_queue, heated>>
    BY <1>3, QueueWriters, HeatWriters
  <2>2. HeatAndHitAreEarned'
    BY <2>1 DEF ReachInv, HeatAndHitAreEarned
  <2> QED
    BY <1>1, <2>1, <2>2 DEF ReachInv, TriageInv
<1> QED
  BY <1>2, <1>3

LEMMA InitReach == Init => ReachInv /\ Frontier!Init
<1> SUFFICES ASSUME Init PROVE ReachInv /\ Frontier!Init
  OBVIOUS
<1>1. Frontier!Init
  BY DEF Init, Frontier!Init
<1>2. HeatAndHitAreEarned
  BY DEF Init, HeatAndHitAreEarned
<1>3. Within /\ Merged /\ Raised
  BY DEF Init, Within, Merged, Raised, Stale
<1> QED
  BY <1>1, <1>2, <1>3 DEF ReachInv

LEMMA ReachInvariant ==
  ASSUME DeterministicTarget
  PROVE  Spec => []ReachInv /\ [][Frontier!Next]_<<total_hit, exploit_queue>>
<1>1. Init => ReachInv
  BY InitReach
<1>2. FrontierInv /\ ReachInv /\ [Next]_vars =>
        ReachInv' /\ [Frontier!Next]_<<total_hit, exploit_queue>>
  BY NextReach
<1> QED
  BY <1>1, <1>2, FrontierInvariant, PTL DEF Spec

(* The alarm choose_target picks by its heat has an entry to exploit, and   *)
(* an alarm is marked hit only when its every step is covered, if complete  *)
(* runs of an input never differ in progress.                               *)
THEOREM HeatIsEarned ==
  ASSUME DeterministicTarget
  PROVE  Spec => []HeatAndHitAreEarned
<1>1. ReachInv => HeatAndHitAreEarned
  BY DEF ReachInv
<1> QED
  BY <1>1, ReachInvariant, PTL

(* Under the same condition save_if_interesting, calibrate_case and the two *)
(* binding checks, with all their re-runs, implement ExploitFrontier: every *)
(* step pushes the frontier of an alarm and leaves one entry on its queue,  *)
(* or adds an entry that stands on the frontier, or changes neither.        *)
THEOREM QueuesFollowFrontier ==
  ASSUME DeterministicTarget
  PROVE  Spec => ImplementsFrontier
<1>1. Init => Frontier!Init
  BY InitReach
<1> QED
  BY <1>1, ReachInvariant, PTL DEF Spec, ImplementsFrontier, Frontier!Spec
=============================================================================
