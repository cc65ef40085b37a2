----------------------------- MODULE SeedTriage -----------------------------
(***************************************************************************)
(* How afl-fuzz decides what one execution taught it about the alarms.     *)
(*                                                                         *)
(* An alarm is an ordered list of basic blocks; a run of the target makes  *)
(* progress p[a] on alarm a: it has executed the first p[a] blocks of the  *)
(* list in order (module StepTrace models the runtime that counts them).   *)
(* The fuzzer keeps, per alarm, the steps any input has ever covered (the  *)
(* virgin table), how many they are (total_hit), and the exploit queue:    *)
(* the queue entries that stand on the frontier step.                      *)
(*                                                                         *)
(* The module follows one thread: common_fuzz_stuff or perform_dry_run or  *)
(* fuzz_one starts the triage of one input, save_if_interesting and        *)
(* calibrate_case run the target several more times, and the two           *)
(* check_*_uncov_step loops re-run it once more for every alarm on whose   *)
(* frontier the input stands.  Every such re-run overwrites the shared     *)
(* tables (cur_alarm_state) that the rest of the loop still reads.         *)
(*                                                                         *)
(* Abstractions: the edge bitmap is a free has_new_bits result; a          *)
(* checksum is "set" or not, and two runs may or may not have equal        *)
(* checksums; heat counters keep only whether they are zero.               *)
(***************************************************************************)
EXTENDS Integers, FiniteSets

CONSTANTS
  total_alarm,    \* number of alarms
  max_col_cnt,    \* longest alarm
  total_num,      \* total_num[a]: number of steps of alarm a
  Inputs,         \* every input the fuzzer may execute
  InitialInputs,  \* the seed corpus
  Runs,           \* Runs[x]: the complete runs of x, [prog, fault] records
  CAL_CHANCES,    \* calibration attempts before an entry is given up
  CalCycles       \* stage_max of a calibration

FAULT_NONE  == 0
FAULT_TMOUT == 1
FAULT_CRASH == 2
Faults == {FAULT_NONE, FAULT_TMOUT, FAULT_CRASH}

Alarms   == 0 .. (total_alarm - 1)
Progress == {p \in [Alarms -> 0 .. max_col_cnt] :
               \A a \in Alarms : p[a] <= total_num[a]}

ASSUME AlarmAssumption ==
  /\ total_alarm \in Nat
  /\ max_col_cnt \in Nat
  /\ total_num \in [Alarms -> 0 .. max_col_cnt]

ASSUME InputAssumption ==
  /\ IsFiniteSet(Inputs)
  /\ InitialInputs \subseteq Inputs
  /\ Runs \in [Inputs -> SUBSET [prog : Progress, fault : Faults]]

ASSUME CalAssumption ==
  /\ CAL_CHANCES \in Nat \ {0}
  /\ CalCycles \in Nat \ {0}

VARIABLES
  virgin,         \* [Alarms -> set of columns] virgin_bb_status_table
  total_hit,      \* [Alarms -> Nat]            virgin_alarm[].total_hit
  was_selected,   \* [Alarms -> BOOLEAN]        alarm_heat[].was_selected
  heated,         \* [Alarms -> set of columns] non-zero bb_heat_map entries
  exploit_index,  \* [Alarms -> Nat]
  exploit_state,  \* [Alarms -> BOOLEAN]
  exploit_queue,  \* [Alarms -> SUBSET Inputs]
  queue,          \* the entries of the main queue
  cal_failed,     \* [Inputs -> 0 .. CAL_CHANCES]
  exec_cksum,     \* the entries whose checksum is set
  has_new_step_cov,     \* the entries flagged as new step coverage
  queued_with_binding,  \* counter
  queued_with_step_cov, \* counter
  stored,         \* what went to crashes/ and hangs/
  cur_alarm_state,\* [Alarms -> Nat] shared memory written by the last run
  stop_soon,      \* Ctrl-C seen
  dry_left,       \* seeds perform_dry_run has not looked at yet
  pc, q, caller, in_cal, row, new_bits, updated, has_binding, stage_cur,
  fault, save_fault     \* the frames of the calls in progress

tables  == <<virgin, total_hit, was_selected, heated,
             exploit_index, exploit_state, exploit_queue>>
entries == <<queue, cal_failed, exec_cksum, has_new_step_cov>>
counts  == <<queued_with_binding, queued_with_step_cov, stored>>
outside == <<stop_soon, dry_left>>
frame   == <<q, caller, in_cal, row, new_bits, updated, has_binding,
             stage_cur, fault, save_fault>>
vars == <<tables, entries, counts, outside, cur_alarm_state, pc, frame>>

-----------------------------------------------------------------------------
(* One call of run_target on x: a complete run, or one cut short by the    *)
(* timeout or by the stop signal, which stops the progress at any point.   *)
(* After Ctrl-C the killed child is reported as FAULT_NONE.                *)
RunTarget(x, p, f) ==
  \E r \in Runs[x] :
    \/ p = r.prog /\ f = r.fault
    \/ /\ \A a \in Alarms : p[a] <= r.prog[a]
       /\ f = IF stop_soon THEN FAULT_NONE ELSE FAULT_TMOUT

(* A definition X_Slip, here and below, is X with a plausible programming  *)
(* mistake; no behaviour uses it, it tests that a property would notice.    *)
(* The columns of cur_bb_status_table that are 1 after progress p. *)
CurBB(p, a) == 0 .. (p[a] - 1)

VirginAfter_Overwrites(p) == [a \in Alarms |-> CurBB(p, a)]

(* has_new_step_coverage: the alarms it marks, and the table it leaves. *)
NewSteps(p)    == {a \in Alarms : ~(CurBB(p, a) \subseteq virgin[a])}
VirginAfter(p) == [a \in Alarms |-> virgin[a] \cup CurBB(p, a)]

(* The queue entry x is put on the exploit queue of alarm a at column j. *)
RestartsQueue_Reversed(a, j, is_hit, is_virgin) == exploit_index[a] > j

RestartsQueue_NotOnHit(a, j, is_hit, is_virgin) == exploit_index[a] < j

RestartsQueue(a, j, is_hit, is_virgin) ==
  exploit_index[a] < j \/ (exploit_index[a] = j /\ is_hit /\ is_virgin)

add_to_exploit_queue_ForgetsToInsert(x, a, j, is_hit, is_virgin) ==
  /\ exploit_state' = [exploit_state EXCEPT ![a] = @ \/ is_hit]
  /\ exploit_index' = [exploit_index EXCEPT ![a] = IF @ < j THEN j ELSE @]
  /\ exploit_queue' = IF RestartsQueue(a, j, is_hit, is_virgin)
                        THEN [exploit_queue EXCEPT ![a] = {}]
                        ELSE [exploit_queue EXCEPT ![a] = @ \cup {x}]

add_to_exploit_queue_HitsAtLastColumn(x, a, j, is_hit, is_virgin) ==
  /\ exploit_state' = [exploit_state EXCEPT ![a] = @ \/ j = total_num[a] - 1]
  /\ exploit_index' = [exploit_index EXCEPT ![a] = IF @ < j THEN j ELSE @]
  /\ exploit_queue' = IF RestartsQueue(a, j, is_hit, is_virgin)
                        THEN [exploit_queue EXCEPT ![a] = {x}]
                        ELSE [exploit_queue EXCEPT ![a] = @ \cup {x}]

add_to_exploit_queue(x, a, j, is_hit, is_virgin) ==
  IF exploit_state[a] /\ ~is_hit
    THEN UNCHANGED <<exploit_index, exploit_state, exploit_queue>>
    ELSE /\ exploit_state' = [exploit_state EXCEPT ![a] = @ \/ is_hit]
         /\ IF RestartsQueue(a, j, is_hit, is_virgin)
              THEN /\ exploit_index' = [exploit_index EXCEPT ![a] = j]
                   /\ exploit_queue' = [exploit_queue EXCEPT ![a] = {x}]
              ELSE /\ exploit_index' = exploit_index
                   /\ exploit_queue' = [exploit_queue EXCEPT ![a] = @ \cup {x}]

(* get_dyn_distance: the re-run, which leaves its own tables and fault. In *)
(* calibrate_case the fault is calibration's, otherwise it is the one      *)
(* save_if_interesting switches on.                                        *)
SetFault(f) ==
  IF in_cal THEN fault' = f /\ save_fault' = save_fault
            ELSE save_fault' = f /\ fault' = fault

get_dyn_distance(x) ==
  \E p \in Progress, f \in Faults :
    /\ RunTarget(x, p, f)
    /\ cur_alarm_state' = p
    /\ SetFault(f)

NoReRun == UNCHANGED <<cur_alarm_state, fault, save_fault>>
-----------------------------------------------------------------------------
TablesOK ==
  /\ virgin \in [Alarms -> SUBSET (0 .. max_col_cnt)]
  /\ total_hit \in [Alarms -> Nat]
  /\ was_selected \in [Alarms -> BOOLEAN]
  /\ heated \in [Alarms -> SUBSET (0 .. max_col_cnt)]
  /\ exploit_index \in [Alarms -> 0 .. max_col_cnt]
  /\ exploit_state \in [Alarms -> BOOLEAN]
  /\ exploit_queue \in [Alarms -> SUBSET Inputs]

EntriesOK ==
  /\ queue \in SUBSET Inputs
  /\ cal_failed \in [Inputs -> Nat]
  /\ exec_cksum \in SUBSET Inputs
  /\ has_new_step_cov \in SUBSET Inputs
  /\ queued_with_binding \in Nat
  /\ queued_with_step_cov \in Nat
  /\ stored \in SUBSET (Inputs \X {FAULT_TMOUT, FAULT_CRASH})
  /\ stop_soon \in BOOLEAN
  /\ dry_left \in SUBSET InitialInputs

FrameOK ==
  /\ cur_alarm_state \in Progress
  /\ pc \in {"idle", "check_cur", "check_virgin", "saved", "cal_run",
             "abort_calibration", "cal_return", "switch", "exit"}
  /\ q \in Inputs
  /\ caller \in {"dry_run", "save", "fuzz_one"}
  /\ in_cal \in BOOLEAN
  /\ row \in 0 .. total_alarm
  /\ new_bits \in 0 .. 2
  /\ updated \in SUBSET Alarms
  /\ has_binding \in BOOLEAN
  /\ stage_cur \in 0 .. (CalCycles - 1)
  /\ fault \in Faults
  /\ save_fault \in Faults

TypeOK == TablesOK /\ EntriesOK /\ FrameOK

Init ==
  /\ virgin = [a \in Alarms |-> {}]
  /\ total_hit = [a \in Alarms |-> 0]
  /\ was_selected = [a \in Alarms |-> FALSE]
  /\ heated = [a \in Alarms |-> {}]
  /\ exploit_index = [a \in Alarms |-> 0]
  /\ exploit_state = [a \in Alarms |-> FALSE]
  /\ exploit_queue = [a \in Alarms |-> {}]
  /\ queue = InitialInputs
  /\ cal_failed = [x \in Inputs |-> 0]
  /\ exec_cksum = {}
  /\ has_new_step_cov = {}
  /\ queued_with_binding = 0 /\ queued_with_step_cov = 0
  /\ stored = {}
  /\ cur_alarm_state = [a \in Alarms |-> 0]
  /\ stop_soon = FALSE
  /\ dry_left = InitialInputs
  /\ pc = "idle"
  /\ q \in InitialInputs
  /\ caller = "dry_run" /\ in_cal = FALSE /\ row = 0
  /\ new_bits = 0 /\ updated = {} /\ has_binding = FALSE /\ stage_cur = 0
  /\ fault = FAULT_NONE /\ save_fault = FAULT_NONE

-----------------------------------------------------------------------------
(* The locals of a call are gone when it returns to the fuzzing loop.       *)
ToLoop ==
  /\ pc' = "idle"
  /\ in_cal' = FALSE /\ row' = 0 /\ new_bits' = 0 /\ updated' = {}
  /\ has_binding' = FALSE /\ stage_cur' = 0
  /\ fault' = FAULT_NONE /\ save_fault' = FAULT_NONE

InFuzzLoop == pc = "idle" /\ dry_left = {} /\ ~stop_soon

(* common_fuzz_stuff runs a new input x and save_if_interesting drops it:   *)
(* no new bits, no new step.                                                *)
SaveBoring(x) ==
  /\ InFuzzLoop
  /\ x \in Inputs \ queue
  /\ \E p \in Progress :
       /\ RunTarget(x, p, FAULT_NONE)
       /\ NewSteps(p) = {}
       /\ cur_alarm_state' = p
  /\ UNCHANGED <<tables, entries, counts, outside, pc, frame>>

(* ... or queues it, and goes to one of the two binding checks.             *)
SaveNew(x) ==
  /\ InFuzzLoop
  /\ x \in Inputs \ queue
  /\ \E p \in Progress, hnb \in 0 .. 2 :
       /\ RunTarget(x, p, FAULT_NONE)
       /\ hnb > 0 \/ NewSteps(p) # {}
       /\ cur_alarm_state' = p
       /\ virgin' = VirginAfter(p)
       /\ updated' = NewSteps(p)
       /\ new_bits' = hnb
       /\ queue' = queue \cup {x}
       /\ IF NewSteps(p) # {}
            THEN /\ has_new_step_cov' = has_new_step_cov \cup {x}
                 /\ queued_with_step_cov' = queued_with_step_cov + 1
                 /\ pc' = "check_virgin"
            ELSE /\ UNCHANGED <<has_new_step_cov, queued_with_step_cov>>
                 /\ pc' = "check_cur"
  /\ q' = x /\ caller' = "save" /\ row' = 0 /\ has_binding' = FALSE
  /\ UNCHANGED <<total_hit, was_selected, heated, exploit_index,
                 exploit_state, exploit_queue, cal_failed, exec_cksum,
                 queued_with_binding, stored, outside, in_cal, stage_cur,
                 fault, save_fault>>

(* ... or the run crashed or timed out, and only the switch is left.        *)
SaveFault(x) ==
  /\ InFuzzLoop
  /\ x \in Inputs \ queue
  /\ \E p \in Progress, f \in {FAULT_TMOUT, FAULT_CRASH} :
       /\ RunTarget(x, p, f)
       /\ cur_alarm_state' = p
       /\ save_fault' = f
  /\ pc' = "switch" /\ q' = x /\ caller' = "save"
  /\ UNCHANGED <<tables, entries, counts, outside, in_cal, row, new_bits,
                 updated, has_binding, stage_cur, fault>>

-----------------------------------------------------------------------------
(* One alarm of check_cur_uncov_step.                                       *)
CheckCurRow ==
  /\ pc = "check_cur" /\ row < total_alarm
  /\ LET c == cur_alarm_state[row]
     IN \/ /\ c = 0
           /\ UNCHANGED <<exploit_index, exploit_state, exploit_queue,
                          heated, has_binding>>
           /\ NoReRun
        \/ /\ c > 0 /\ c < total_num[row] /\ c = total_hit[row]
           /\ add_to_exploit_queue(q, row, c, FALSE, FALSE)
           /\ heated' = [heated EXCEPT ![row] = @ \cup {c}]
           /\ has_binding' = TRUE
           /\ get_dyn_distance(q)
        \/ /\ c > 0 /\ c < total_num[row] /\ c # total_hit[row]
           /\ heated' = [heated EXCEPT ![row] = @ \cup {c}]
           /\ UNCHANGED <<exploit_index, exploit_state, exploit_queue,
                          has_binding>>
           /\ NoReRun
        \/ /\ c > 0 /\ c = total_num[row]
           /\ add_to_exploit_queue(q, row, c - 1, TRUE, FALSE)
           /\ heated' = [heated EXCEPT ![row] = @ \cup {c - 1}]
           /\ has_binding' = TRUE
           /\ NoReRun
  /\ row' = row + 1
  /\ UNCHANGED <<virgin, total_hit, was_selected, entries, counts, outside,
                 pc, q, caller, in_cal, new_bits, updated, stage_cur>>

AfterChecks == IF in_cal THEN "cal_return" ELSE "saved"

CheckCurDone_CountsCalibrationOnly ==
  /\ pc = "check_cur" /\ row = total_alarm
  /\ queued_with_binding' =
       queued_with_binding + IF has_binding /\ in_cal THEN 1 ELSE 0
  /\ pc' = AfterChecks
  /\ UNCHANGED <<tables, entries, queued_with_step_cov, stored, outside,
                 cur_alarm_state, frame>>

CheckCurDone ==
  /\ pc = "check_cur" /\ row = total_alarm
  /\ queued_with_binding' = queued_with_binding + IF has_binding THEN 1 ELSE 0
  /\ pc' = AfterChecks
  /\ UNCHANGED <<tables, entries, queued_with_step_cov, stored, outside,
                 cur_alarm_state, frame>>

(* The first column of alarm a no input has covered yet.                    *)
FirstUncovered(a) ==
  CHOOSE j \in 0 .. total_num[a] :
    j \notin virgin[a] /\ \A k \in 0 .. (j - 1) : k \in virgin[a]

(* One alarm of check_virgin_uncov_step.                                    *)
CheckVirginSkip ==
  /\ pc = "check_virgin" /\ row < total_alarm
  /\ row \notin updated
  /\ row' = row + 1
  /\ UNCHANGED <<tables, entries, counts, outside, cur_alarm_state, pc, q,
                 caller, in_cal, new_bits, updated, has_binding, stage_cur,
                 fault, save_fault>>

CheckVirginRow ==
  /\ pc = "check_virgin" /\ row < total_alarm
  /\ row \in updated
  /\ LET hit == Cardinality(virgin[row])
     IN /\ total_hit' = [total_hit EXCEPT ![row] = hit]
        /\ \/ /\ hit = 0
              /\ UNCHANGED <<exploit_index, exploit_state, exploit_queue,
                             heated>>
              /\ NoReRun
           \/ /\ hit > 0 /\ hit < total_num[row]
              /\ LET j == FirstUncovered(row)
                 IN /\ add_to_exploit_queue(q, row, j, FALSE, TRUE)
                    /\ heated' = [heated EXCEPT ![row] = @ \cup {j}]
              /\ get_dyn_distance(q)
           \/ /\ hit > 0 /\ hit = total_num[row]
              /\ add_to_exploit_queue(q, row, hit - 1, TRUE, TRUE)
              /\ heated' = [heated EXCEPT ![row] = @ \cup {hit - 1}]
              /\ NoReRun
  /\ was_selected' = [was_selected EXCEPT ![row] = FALSE]
  /\ row' = row + 1
  /\ UNCHANGED <<virgin, entries, counts, outside, pc, q, caller, in_cal,
                 new_bits, updated, has_binding, stage_cur>>

CheckVirginDone ==
  /\ pc = "check_virgin" /\ row = total_alarm
  /\ queued_with_binding' = queued_with_binding + 1
  /\ pc' = AfterChecks
  /\ UNCHANGED <<tables, entries, queued_with_step_cov, stored, outside,
                 cur_alarm_state, frame>>
-----------------------------------------------------------------------------
(* save_if_interesting sets the checksum of the new entry from the last     *)
(* run, and calibrate_case, finding it set, first feeds that same trace to  *)
(* the virgin tables again.                                                 *)
CalibrateSaved ==
  /\ pc = "saved"
  /\ \E hnb \in 0 .. 2 : new_bits' = hnb
  /\ exec_cksum' = exec_cksum \cup {q}
  /\ cal_failed' = [cal_failed EXCEPT ![q] = @ + 1]
  /\ virgin' = VirginAfter(cur_alarm_state)
  /\ updated' = NewSteps(cur_alarm_state)
  /\ in_cal' = TRUE /\ stage_cur' = 0 /\ fault' = FAULT_NONE
  /\ has_binding' = FALSE /\ row' = 0
  /\ pc' = "cal_run"
  /\ UNCHANGED <<total_hit, was_selected, heated, exploit_index,
                 exploit_state, exploit_queue, queue, has_new_step_cov,
                 counts, outside, cur_alarm_state, q, caller, save_fault>>

(* calibrate_case on a queue entry, from perform_dry_run or, for an entry   *)
(* whose calibration failed before, from fuzz_one, which clears exec_cksum. *)
Calibrate(x, who) ==
  /\ pc = "idle" /\ ~stop_soon
  /\ q' = x /\ caller' = who
  /\ exec_cksum' = exec_cksum \ {x}
  /\ cal_failed' = [cal_failed EXCEPT ![x] = @ + 1]
  /\ in_cal' = TRUE /\ stage_cur' = 0 /\ fault' = FAULT_NONE
  /\ new_bits' = 0 /\ updated' = {} /\ has_binding' = FALSE /\ row' = 0
  /\ pc' = "cal_run"
  /\ UNCHANGED <<tables, queue, has_new_step_cov, counts, outside,
                 cur_alarm_state, save_fault>>

DryRun(x) == x \in dry_left /\ Calibrate(x, "dry_run")

FuzzOneCalibrates(x) ==
  /\ dry_left = {} /\ x \in queue
  /\ cal_failed[x] > 0 /\ cal_failed[x] < CAL_CHANCES
  /\ Calibrate(x, "fuzz_one")

CalRunAborts_Returns ==
  /\ pc = "cal_run"
  /\ \E p \in Progress, f \in Faults :
       /\ RunTarget(q, p, f)
       /\ stop_soon \/ f # FAULT_NONE
       /\ cur_alarm_state' = p
       /\ fault' = f
  /\ pc' = "cal_return"
  /\ UNCHANGED <<tables, entries, counts, outside, q, caller, in_cal, row,
                 new_bits, updated, has_binding, stage_cur, save_fault>>

(* A calibration run that ends the loop early.                              *)
CalRunAborts ==
  /\ pc = "cal_run"
  /\ \E p \in Progress, f \in Faults :
       /\ RunTarget(q, p, f)
       /\ stop_soon \/ f # FAULT_NONE
       /\ cur_alarm_state' = p
       /\ fault' = f
  /\ pc' = "abort_calibration"
  /\ UNCHANGED <<tables, entries, counts, outside, q, caller, in_cal, row,
                 new_bits, updated, has_binding, stage_cur, save_fault>>

(* A calibration run that completes. Its trace is looked at only when its   *)
(* checksum differs from the entry's; the last of them clears cal_failed.   *)
CalRunCompletes ==
  /\ pc = "cal_run" /\ ~stop_soon
  /\ \E p \in Progress, hnb \in 0 .. 2 :
       /\ RunTarget(q, p, FAULT_NONE)
       /\ cur_alarm_state' = p
       /\ \/ /\ q \in exec_cksum    \* same checksum
             /\ UNCHANGED <<virgin, updated, new_bits, exec_cksum>>
          \/ /\ virgin' = VirginAfter(p)
             /\ updated' = updated \cup NewSteps(p)
             /\ new_bits' = IF hnb > new_bits THEN hnb ELSE new_bits
             /\ exec_cksum' = exec_cksum \cup {q}
  /\ fault' = FAULT_NONE
  /\ IF stage_cur + 1 = CalCycles
       THEN /\ cal_failed' = [cal_failed EXCEPT ![q] = 0]
            /\ stage_cur' = 0
            /\ pc' = "abort_calibration"
       ELSE /\ stage_cur' = stage_cur + 1
            /\ UNCHANGED <<cal_failed, pc>>
  /\ UNCHANGED <<total_hit, was_selected, heated, exploit_index,
                 exploit_state, exploit_queue, queue, has_new_step_cov,
                 counts, outside, q, caller, in_cal, row, has_binding,
                 save_fault>>

(* The label abort_calibration: reached by every calibration, it decides    *)
(* which of the binding checks the collected news deserve.                  *)
AbortCalibration ==
  /\ pc = "abort_calibration"
  /\ \/ /\ updated # {}
        /\ has_new_step_cov' = has_new_step_cov \cup {q}
        /\ queued_with_step_cov' = queued_with_step_cov + 1
        /\ pc' = "check_virgin"
     \/ /\ updated = {} /\ new_bits > 0
        /\ pc' = "check_cur"
        /\ UNCHANGED <<has_new_step_cov, queued_with_step_cov>>
     \/ /\ updated = {} /\ new_bits = 0
        /\ pc' = "cal_return"
        /\ UNCHANGED <<has_new_step_cov, queued_with_step_cov>>
  /\ UNCHANGED <<tables, queue, cal_failed, exec_cksum, queued_with_binding,
                 stored, outside, cur_alarm_state, frame>>
-----------------------------------------------------------------------------
(* calibrate_case returns to save_if_interesting ...                        *)
CalReturnsToSave ==
  /\ pc = "cal_return" /\ caller = "save"
  /\ pc' = "switch"
  /\ UNCHANGED <<tables, entries, counts, outside, cur_alarm_state, frame>>

(* ... to fuzz_one, which abandons the entry or goes on fuzzing it ...      *)
CalReturnsToFuzzOne ==
  /\ pc = "cal_return" /\ caller = "fuzz_one"
  /\ ToLoop
  /\ UNCHANGED <<tables, entries, counts, outside, cur_alarm_state, q, caller>>

(* ... or to perform_dry_run, which gives up an entry that faults (with     *)
(* -t nn+ and AFL_SKIP_CRASHES) and the session when all of them do.        *)
CalReturnsToDryRun ==
  /\ pc = "cal_return" /\ caller = "dry_run"
  /\ cal_failed' = IF fault # FAULT_NONE /\ ~stop_soon
                     THEN [cal_failed EXCEPT ![q] = CAL_CHANCES]
                     ELSE cal_failed
  /\ dry_left' = dry_left \ {q}
  /\ \/ /\ dry_left' = {}
        /\ \A x \in InitialInputs : cal_failed'[x] = CAL_CHANCES
        /\ pc' = "exit"
        /\ UNCHANGED frame
     \/ /\ \/ dry_left' # {}
           \/ \E x \in InitialInputs : cal_failed'[x] # CAL_CHANCES
        /\ ToLoop
        /\ UNCHANGED <<q, caller>>
  /\ UNCHANGED <<tables, queue, exec_cksum, has_new_step_cov, counts,
                 stop_soon, cur_alarm_state>>

(* The switch (fault) that ends save_if_interesting. Whether the trace is   *)
(* unique among the stored crashes or hangs, and the limits on their        *)
(* number, are left open: a sample is stored or it is not.                  *)
MayStore(x, f) == stored' \in {stored, stored \cup {<<x, f>>}}

SwitchFault ==
  /\ pc = "switch"
  /\ \/ /\ save_fault = FAULT_NONE
        /\ UNCHANGED <<stored, cur_alarm_state>>
     \/ /\ save_fault = FAULT_CRASH
        /\ MayStore(q, FAULT_CRASH)
        /\ UNCHANGED cur_alarm_state
     \/ /\ save_fault = FAULT_TMOUT     \* exec_tmout is generous already
        /\ MayStore(q, FAULT_TMOUT)
        /\ UNCHANGED cur_alarm_state
     \/ /\ save_fault = FAULT_TMOUT     \* re-run with hang_tmout
        /\ \E p \in Progress, f \in Faults :
             /\ RunTarget(q, p, f)
             /\ cur_alarm_state' = p
             /\ IF stop_soon \/ f = FAULT_NONE
                  THEN stored' = stored
                  ELSE MayStore(q, f)
  /\ ToLoop
  /\ UNCHANGED <<tables, entries, queued_with_binding, queued_with_step_cov,
                 outside, q, caller>>
-----------------------------------------------------------------------------
(* choose_target marks the alarm it hands to the exploitation phase: an     *)
(* unselected alarm with heat, after unselecting all when there is none.    *)
(* Its loop does not end while no alarm has heat. (Which of the alarms has  *)
(* the lowest heat is left open here.)                                      *)
Unselected(a) == heated[a] # {} /\ ~was_selected[a]

ChooseTarget(a) ==
  /\ InFuzzLoop
  /\ heated[a] # {}
  /\ \/ /\ Unselected(a)
        /\ was_selected' = [was_selected EXCEPT ![a] = TRUE]
     \/ /\ \A b \in Alarms : ~Unselected(b)
        /\ was_selected' = [b \in Alarms |-> b = a]
  /\ UNCHANGED <<virgin, total_hit, heated, exploit_index, exploit_state,
                 exploit_queue, entries, counts, outside, cur_alarm_state,
                 pc, frame>>

handle_stop_sig ==
  /\ ~stop_soon /\ pc # "exit"
  /\ stop_soon' = TRUE
  /\ UNCHANGED <<tables, entries, counts, dry_left, cur_alarm_state, pc,
                 frame>>

StopFuzzing ==
  /\ pc = "idle" /\ stop_soon
  /\ pc' = "exit"
  /\ UNCHANGED <<tables, entries, counts, outside, cur_alarm_state, frame>>

Stopped == pc = "exit" /\ UNCHANGED vars

Next ==
  \/ \E x \in Inputs : SaveBoring(x) \/ SaveNew(x) \/ SaveFault(x)
  \/ \E x \in Inputs : DryRun(x) \/ FuzzOneCalibrates(x)
  \/ CheckCurRow \/ CheckCurDone
  \/ CheckVirginSkip \/ CheckVirginRow \/ CheckVirginDone
  \/ CalibrateSaved
  \/ CalRunAborts \/ CalRunCompletes \/ AbortCalibration
  \/ CalReturnsToSave \/ CalReturnsToFuzzOne \/ CalReturnsToDryRun
  \/ SwitchFault
  \/ \E a \in Alarms : ChooseTarget(a)
  \/ handle_stop_sig \/ StopFuzzing \/ Stopped

Spec == Init /\ [][Next]_vars
-----------------------------------------------------------------------------
(* The alarms whose virgin steps a call in progress has raised but whose    *)
(* total_hit and exploit queue it has not refreshed yet.                    *)
Stale ==
  IF pc \in {"cal_run", "abort_calibration"} THEN updated
  ELSE IF pc = "check_virgin" THEN {a \in updated : a >= row}
  ELSE {}

(* The covered steps of an alarm are always a prefix of its step list,      *)
(* although they are merged from many runs, some of them cut short: the     *)
(* first uncovered column of check_virgin_uncov_step is then total_hit.     *)
VirginIsPrefix ==
  \A a \in Alarms : \E k \in 0 .. total_num[a] : virgin[a] = 0 .. (k - 1)

(* total_hit counts the covered steps: no path through save_if_interesting  *)
(* or calibrate_case, aborted ones included, forgets an alarm it raised.    *)
HitCountsVirgin ==
  \A a \in Alarms \ Stale : total_hit[a] = Cardinality(virgin[a])

(* exploit_index points at the frontier column as long as the alarm is not  *)
(* marked as hit and at the last column once it is, whatever tables the     *)
(* re-runs in between left behind; an alarm whose every step is counted as  *)
(* covered is marked.                                                       *)
IndexIsFrontier ==
  \A a \in Alarms :
    /\ ~exploit_state[a] => /\ exploit_index[a] = total_hit[a]
                            /\ total_hit[a] > 0 => total_hit[a] < total_num[a]
    /\ exploit_state[a] => /\ total_num[a] > 0
                           /\ exploit_index[a] = total_num[a] - 1

(* An alarm some input has a step of can be exploited: its queue has an     *)
(* entry for rank_queue to rebuild its heaps from.                          *)
ReachedAlarmHasSeeds ==
  \A a \in Alarms :
    total_hit[a] > 0 \/ exploit_state[a] => exploit_queue[a] # {}

(* run_exploit ends its cycle after queued_with_binding entries: the cycle  *)
(* is long enough for every entry on the exploit queues.                    *)
CycleCoversSeeds ==
  pc \notin {"check_cur", "check_virgin"} =>
    Cardinality(UNION {exploit_queue[a] : a \in Alarms})
      <= queued_with_binding

(* Covered steps are never forgotten, and the frontier column never moves   *)
(* back.                                                                    *)
NeverForgets ==
  [][\A a \in Alarms : /\ virgin[a] \subseteq virgin'[a]
                       /\ exploit_index[a] <= exploit_index'[a]
                       /\ exploit_state[a] => exploit_state'[a]]_vars

(* For a target whose complete runs never differ, the exploit queues are    *)
(* those of ExploitFrontier: runs cut short by a timeout or by Ctrl-C       *)
(* between the checks change nothing of that.                               *)
Reach == [x \in Inputs |-> (CHOOSE r \in Runs[x] : TRUE).prog]

Frontier == INSTANCE ExploitFrontier
              WITH frontier <- total_hit, seeds <- exploit_queue

ImplementsFrontier == Frontier!Spec

(* Heat is only ever put on an alarm that has seeds, so that the alarm      *)
(* choose_target picks has an entry to exploit; and an alarm is marked as   *)
(* hit only when its every step is covered (deterministic targets).         *)
HeatAndHitAreEarned ==
  \A a \in Alarms :
    /\ heated[a] # {} => exploit_queue[a] # {}
    /\ exploit_state[a] => total_hit[a] = total_num[a]
=============================================================================
