------------------------------ MODULE FuzzOne ------------------------------
(***************************************************************************)
(* One call of fuzz_one (lyso/repo/afl-fuzz.c) that takes its entry:       *)
(* calibration if it failed before, trimming, the score, deterministic     *)
(* stages, havoc and splicing, and the way out.  TrimCase, DetStages and   *)
(* Havoc are its parts, this module puts them in order.                    *)
(*                                                                         *)
(* Havoc works on lengths.  When it starts, the contents of the buffers    *)
(* and the target are forgotten.                                           *)
(***************************************************************************)
EXTENDS DetStages, Havoc, PerfScore

CONSTANTS
  Inputs,         \* the inputs an entry may hold
  Dictionaries,   \* the user's tokens (-x): sequences of tokens, by length
  AutoTokens,     \* what a_extras may hold already
  Entries,        \* the figures calculate_score may find
  Divisors,       \* the values of havoc_div
  CAL_CHANCES,
  NoTarget        \* the target, once forgotten

\* Tokens come in the order of their length (load_extras, maybe_add_auto); of the
\* automatic ones only those that are used do.
Ordered(tokens) == \A k \in 1 .. Len(tokens) - 1 : Len(tokens[k]) <= Len(tokens[k + 1])
Used(autos) == [k \in 1 .. Smaller(Len(autos), USE_AUTO_EXTRAS) |-> autos[k].data]

ASSUME FuzzAssumption ==
  /\ \A b \in Inputs : b \in Seq(Byte) /\ Len(b) \in 1 .. MAX_FILE
  /\ \A tokens \in Dictionaries : tokens \in Seq(Seq(Byte)) /\ Ordered(tokens)
  /\ \A autos \in AutoTokens :
       autos \in Seq([data : Seq(Byte), hit_cnt : Nat]) /\ Ordered(Used(autos))
  /\ Divisors \subseteq Nat \ {0} /\ CAL_CHANCES \in Nat

VARIABLES
  pc,           \* the part of fuzz_one that runs
  cal_failed, was_fuzzed, trim_done, passed_det,   \* of queue_cur
  skip_deterministic,
  stop_soon,
  ret_val       \* 2 before the return

entry == <<cal_failed, was_fuzzed, trim_done, passed_det>>
control == <<pc, entry, skip_deterministic, stop_soon, ret_val>>
vars == <<control, trimVars, detVars, havocVars>>

NoDet ==
  /\ out_buf = <<>> /\ orig = <<>> /\ last_len = 0
  /\ stage = 0 /\ i = 0 /\ j = 0 /\ eff_map = {}
  /\ a_collect = <<>> /\ prev_cksum = 0 /\ tried = {} /\ skipped = {}

NoHavoc ==
  /\ at = "off" /\ spliced = FALSE /\ overrun = FALSE
  /\ q_len = 0 /\ len = 0 /\ temp_len = 0 /\ out_size = 0 /\ left = 0
  /\ doing_det = FALSE /\ orig_perf = 0 /\ perf_score = 0 /\ havoc_div = 1
  /\ stage_cur = 0 /\ stage_max = 0 /\ finds = 0 /\ havoc_finds = 0 /\ splice_cycle = 0

Init ==
  /\ pc = "calibration" /\ stop_soon = FALSE /\ ret_val = 2
  /\ cal_failed \in 0 .. CAL_CHANCES
  /\ was_fuzzed \in BOOLEAN /\ trim_done \in BOOLEAN /\ passed_det \in BOOLEAN
  /\ skip_deterministic \in BOOLEAN
  /\ target \in Targets /\ file \in Inputs
  /\ in_buf = file /\ exec_cksum = Cksum(target, file) /\ trim = NoTrim
  /\ no_arith \in BOOLEAN /\ extras \in Dictionaries /\ a_extras \in AutoTokens
  /\ NoDet /\ NoHavoc

\* abandon_entry frees the buffers; nothing but the entry is read from there on.
Forget ==
  /\ target' = NoTarget /\ in_buf' = <<>> /\ file' = <<>> /\ exec_cksum' = 0 /\ trim' = NoTrim
  /\ no_arith' = FALSE /\ extras' = <<>> /\ a_extras' = <<>>
  /\ out_buf' = <<>> /\ orig' = <<>> /\ last_len' = 0
  /\ stage' = 0 /\ i' = 0 /\ j' = 0 /\ eff_map' = {}
  /\ a_collect' = <<>> /\ prev_cksum' = 0 /\ tried' = {} /\ skipped' = {}

Leave(res) ==
  /\ pc' = "abandon_entry" /\ ret_val' = res
  /\ Forget
  /\ at' = "off" /\ spliced' = FALSE /\ overrun' = FALSE
  /\ q_len' = 0 /\ len' = 0 /\ temp_len' = 0 /\ out_size' = 0 /\ left' = 0
  /\ doing_det' = FALSE /\ orig_perf' = 0 /\ perf_score' = 0 /\ havoc_div' = 1
  /\ stage_cur' = 0 /\ stage_max' = 0 /\ finds' = 0 /\ havoc_finds' = 0 /\ splice_cycle' = 0

\* calibrate_case failed when the entry was found, and may fail again; or it succeeds,
\* and the entry is abandoned for FAULT_NOBITS or for the fault of a check's re-run.
Calibrate ==
  /\ pc = "calibration"
  /\ \/ /\ cal_failed = 0
        /\ pc' = "trimming"
        /\ UNCHANGED <<cal_failed, stop_soon, ret_val, trimVars, detVars, havocVars>>
     \/ /\ cal_failed \in 1 .. CAL_CHANCES - 1
        /\ cal_failed' = 0
        /\ pc' = "trimming"
        /\ UNCHANGED <<stop_soon, ret_val, trimVars, detVars, havocVars>>
     \/ /\ cal_failed > 0
        /\ cal_failed' \in IF cal_failed < CAL_CHANCES THEN {0, cal_failed + 1} ELSE {cal_failed}
        /\ stop_soon' \in {FALSE, cal_failed < CAL_CHANCES}
        /\ Leave(1)
  /\ UNCHANGED <<was_fuzzed, trim_done, passed_det, skip_deterministic>>

BeginTrim ==
  /\ pc = "trimming" /\ trim = NoTrim /\ ~trim_done
  /\ IF Len(in_buf) < TRIM_MIN_LEN
       THEN trim_done' = TRUE /\ UNCHANGED trim
       ELSE StartTrim /\ UNCHANGED trim_done
  /\ UNCHANGED <<pc, cal_failed, was_fuzzed, passed_det, skip_deterministic, stop_soon, ret_val,
                 target, in_buf, file, exec_cksum, detVars, havocVars>>

TrimStep ==
  /\ pc = "trimming"
  /\ \/ (TrimRun \/ TrimPass) /\ UNCHANGED trim_done
     \/ TrimEnd /\ trim_done' = TRUE
  /\ UNCHANGED <<pc, cal_failed, was_fuzzed, passed_det, skip_deterministic, stop_soon, ret_val,
                 detVars, havocVars>>

\* Ctrl-C: the shorter input is not written back.
TrimStopped ==
  /\ pc = "trimming" /\ trim # NoTrim
  /\ stop_soon' = TRUE
  /\ Leave(1)
  /\ UNCHANGED <<entry, skip_deterministic>>

\* The score, and which stages the entry gets.
SkipsDet == skip_deterministic \/ was_fuzzed \/ passed_det

Score ==
  /\ pc = "trimming" /\ trim_done
  /\ \E s \in Entries : orig_perf' \in calculate_score(s)
  /\ perf_score' = orig_perf'
  /\ \E det \in {FALSE, ~SkipsDet} :   \* the checksum may be another master's
       /\ doing_det' = det
       /\ IF det THEN StartDet ELSE UNCHANGED detVars
       /\ pc' = IF det THEN "deterministic" ELSE "random"
  /\ UNCHANGED <<entry, skip_deterministic, stop_soon, ret_val, trimVars, at, buffers, left,
                 havoc_div, stage_cur, stage_max, finds, havoc_finds, splice_cycle>>

Deterministic ==
  /\ pc = "deterministic" /\ DetNext
  /\ UNCHANGED <<control, trimVars, havocVars>>

\* skip_extras: mark_as_det_done.
DetDone ==
  /\ pc = "deterministic" /\ stage > Len(Stages)
  /\ passed_det' = TRUE
  /\ pc' = "random"
  /\ UNCHANGED <<cal_failed, was_fuzzed, trim_done, skip_deterministic, stop_soon, ret_val,
                 trimVars, detVars, havocVars>>

\* havoc_stage, entered for the first time.  out_buf has the size the input had
\* before it was trimmed, or the size of the input if it was trimmed earlier.
EnterHavoc ==
  /\ pc = "random" /\ at = "off"
  /\ at' = "havoc_stage"
  /\ q_len' = Len(in_buf) /\ len' = Len(in_buf)
  /\ \E size \in {Len(b) : b \in Inputs} : size >= Len(in_buf) /\ out_size' = size
  /\ havoc_div' \in Divisors
  /\ Forget
  /\ UNCHANGED <<control, spliced, temp_len, overrun, left, doing_det, orig_perf, perf_score,
                 stage_cur, stage_max, finds, havoc_finds, splice_cycle>>

Random ==
  /\ pc = "random" /\ HavocNext
  /\ UNCHANGED <<control, trimVars, detVars>>

\* No more splicing: the entry is done.
AllDone ==
  /\ pc = "random" /\ at = "splicing" /\ EndsHere
  /\ Leave(0)
  /\ UNCHANGED <<entry, skip_deterministic, stop_soon>>

\* common_fuzz_stuff returns 1: Ctrl-C, SIGUSR1, or too many timeouts in a row.
Abandon ==
  /\ pc \in {"deterministic", "random"}
  /\ (pc = "deterministic" /\ tried # {in_buf}) \/ at = "run"
  /\ stop_soon' \in BOOLEAN
  /\ Leave(1)
  /\ UNCHANGED <<entry, skip_deterministic>>

\* abandon_entry.
Return ==
  /\ pc = "abandon_entry"
  /\ was_fuzzed' = (was_fuzzed \/ (~stop_soon /\ cal_failed = 0))
  /\ pc' = "returned"
  /\ UNCHANGED <<cal_failed, trim_done, passed_det, skip_deterministic, stop_soon, ret_val,
                 trimVars, detVars, havocVars>>

Returned == pc = "returned" /\ UNCHANGED vars

Next == Calibrate \/ BeginTrim \/ TrimStep \/ TrimStopped \/ Score \/ Deterministic \/ DetDone
          \/ EnterHavoc \/ Random \/ AllDone \/ Abandon \/ Return \/ Returned

Spec == Init /\ [][Next]_vars

---------------------------------------------------------------------------
(* Properties *)

\* When trimming is over the file holds what is in memory, and the target makes of
\* it what it made of the input before.
TrimKeepsTrace ==
  pc \in {"trimming", "deterministic"} /\ trim_done =>
    file = in_buf /\ Cksum(target, file) = exec_cksum
=============================================================================
