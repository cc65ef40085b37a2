----------------------------- MODULE QueueScore -----------------------------
(***************************************************************************)
(* Which entries of the main queue are favored, and the counters fuzz_one  *)
(* schedules by.                                                           *)
(*                                                                         *)
(* update_bitmap_score keeps, for every byte of the bitmap and every step  *)
(* of an alarm, the best entry that covers it (top_rated,                  *)
(* top_rated_alarm), with a reference count and a copy of the trace for    *)
(* the winners of bytes.  cull_queue_default picks favored entries from    *)
(* the winners when a slot has changed hands, and recounts the pending     *)
(* ones; fuzz_one counts them down.  trim_case shortens an entry between   *)
(* the two and scores it again.                                            *)
(*                                                                         *)
(* A run is the set of bytes it touches; an entry whose calibration runs   *)
(* differ has several.  The product exec_us * len is one number, factor.   *)
(***************************************************************************)
EXTENDS Integers, FiniteSets, Functions

CONSTANTS
  NBits,          \* size of the bitmap
  Steps,          \* the steps of all alarms
  Entries,        \* entries the fuzzer may find
  Traces,         \* Traces[q]: the traces runs of q may leave
  StepsOf,        \* StepsOf[q]: the steps q covers
  MaxFactor,      \* bound on exec_us * len
  CAL_CHANCES,
  NoEntry, NoTrace \* the null pointers

Bits == 1 .. NBits

ASSUME ScoreAssumption ==
  /\ NBits \in Nat /\ MaxFactor \in Nat \ {0} /\ CAL_CHANCES \in Nat \ {0}
  /\ IsFiniteSet(Entries) /\ IsFiniteSet(Steps)
  /\ Traces \in [Entries -> SUBSET SUBSET Bits]
  /\ StepsOf \in [Entries -> SUBSET Steps]
  /\ NoEntry \notin Entries /\ \A t \in SUBSET Bits : t # NoTrace

VARIABLES
  queue,           \* set of entries added to the queue
  rated,           \* [top |-> winner of each bit, ref |-> tc_ref, mini |-> trace_mini]
  top_rated_alarm, \* winner of each step
  bitmap_score_changed,
  alarm_score_changed,
  exec_cksum,      \* the trace the entry was first seen with
  factor,          \* exec_us * len
  cal_failed,
  trim_done, was_fuzzed, favored, alarm_favored,  \* sets of entries
  pending_not_fuzzed,
  pending_favored,
  pending_alarm_favored,
  fuzzing,         \* queue_cur while fuzz_one mutates it
  written_off      \* history: the entries the dry run scored and wrote off

scores   == <<rated, top_rated_alarm, bitmap_score_changed, alarm_score_changed>>
flags    == <<was_fuzzed, favored, alarm_favored>>
counters == <<pending_not_fuzzed, pending_favored, pending_alarm_favored>>
vars     == <<queue, scores, exec_cksum, factor, cal_failed, trim_done, flags,
              counters, fuzzing, written_off>>

-----------------------------------------------------------------------------
(* A definition X_Slip is X with a plausible programming mistake; no        *)
(* behaviour uses it, it tests that a property would notice.                *)

(* update_bitmap_score, one byte at a time: the winner of bit i loses a     *)
(* reference, and its trace with the last one; q gains one, and a trace     *)
(* with the first one.                                                      *)
Lose_KeepsTrace(r, i) == [r EXCEPT !.ref[r.top[i]] = @ - 1]

Lose(r, i) ==
  IF r.top[i] = NoEntry THEN r
  ELSE [r EXCEPT !.ref[r.top[i]] = @ - 1,
                 !.mini[r.top[i]] = IF r.ref[r.top[i]] = 1 THEN NoTrace ELSE @]

Win(r, i, q, trace) ==
  [r EXCEPT !.top[i] = q, !.ref[q] = @ + 1,
            !.mini[q] = IF @ = NoTrace THEN trace ELSE @]

Beats(f, p, fs) == p = NoEntry \/ f <= fs[p]

RateBit(r, i, q, trace, fs) ==
  IF i \in trace /\ Beats(fs[q], r.top[i], fs) THEN Win(Lose(r, i), i, q, trace) ELSE r

RateBits(q, trace, fs) ==
  LET r[i \in 0 .. NBits] == IF i = 0 THEN rated ELSE RateBit(r[i - 1], i, q, trace, fs)
  IN r[NBits]

WonBits(q, trace, fs)  == {i \in trace : Beats(fs[q], rated.top[i], fs)}
WonSteps(q, steps, fs) == {s \in steps : Beats(fs[q], top_rated_alarm[s], fs)}

update_bitmap_score_Quiet(q, trace, steps, fs) ==
  /\ rated' = RateBits(q, trace, fs)
  /\ top_rated_alarm' =
       [s \in Steps |-> IF s \in WonSteps(q, steps, fs) THEN q ELSE top_rated_alarm[s]]
  /\ UNCHANGED bitmap_score_changed
  /\ alarm_score_changed' = (alarm_score_changed \/ WonSteps(q, steps, fs) # {})

(* fs holds the factors, q's new one included.                              *)
update_bitmap_score(q, trace, steps, fs) ==
  /\ rated' = RateBits(q, trace, fs)
  /\ top_rated_alarm' =
       [s \in Steps |-> IF s \in WonSteps(q, steps, fs) THEN q ELSE top_rated_alarm[s]]
  /\ bitmap_score_changed' = (bitmap_score_changed \/ WonBits(q, trace, fs) # {})
  /\ alarm_score_changed' = (alarm_score_changed \/ WonSteps(q, steps, fs) # {})

-----------------------------------------------------------------------------
TypeOK ==
  /\ queue \subseteq Entries
  /\ rated \in [top  : [Bits -> Entries \cup {NoEntry}],
                ref  : [Entries -> Nat],
                mini : [Entries -> {NoTrace} \cup SUBSET Bits]]
  /\ top_rated_alarm \in [Steps -> Entries \cup {NoEntry}]
  /\ bitmap_score_changed \in BOOLEAN /\ alarm_score_changed \in BOOLEAN
  /\ exec_cksum \in [Entries -> {NoTrace} \cup SUBSET Bits]
  /\ factor \in [Entries -> 0 .. MaxFactor]
  /\ cal_failed \in [Entries -> 0 .. CAL_CHANCES]
  /\ \A S \in {trim_done, was_fuzzed, favored, alarm_favored} : S \subseteq queue
  /\ \A n \in {pending_not_fuzzed, pending_favored, pending_alarm_favored} : n \in Nat
  /\ fuzzing \in queue \cup {NoEntry}
  /\ written_off \subseteq queue

Init ==
  /\ queue = {}
  /\ rated = [top  |-> [i \in Bits |-> NoEntry],
              ref  |-> [q \in Entries |-> 0],
              mini |-> [q \in Entries |-> NoTrace]]
  /\ top_rated_alarm = [s \in Steps |-> NoEntry]
  /\ bitmap_score_changed = FALSE /\ alarm_score_changed = FALSE
  /\ exec_cksum = [q \in Entries |-> NoTrace]
  /\ factor = [q \in Entries |-> 0]
  /\ cal_failed = [q \in Entries |-> 0]
  /\ trim_done = {} /\ was_fuzzed = {} /\ favored = {} /\ alarm_favored = {}
  /\ pending_not_fuzzed = 0 /\ pending_favored = 0 /\ pending_alarm_favored = 0
  /\ fuzzing = NoEntry /\ written_off = {}

Calibrated_StaysFailed(q) ==
  \E first, last \in Traces[q] : \E f \in 1 .. MaxFactor :
    /\ exec_cksum' = [exec_cksum EXCEPT ![q] = first]
    /\ factor' = [factor EXCEPT ![q] = f]
    /\ cal_failed' = [cal_failed EXCEPT ![q] = 1]
    /\ update_bitmap_score(q, last, StepsOf[q], factor')

(* calibrate_case: the first run without a checksum sets it, the last one   *)
(* is scored.                                                               *)
Calibrated(q) ==
  \E first, last \in Traces[q] : \E f \in 1 .. MaxFactor :
    /\ exec_cksum' = [exec_cksum EXCEPT ![q] = first]
    /\ factor' = [factor EXCEPT ![q] = f]
    /\ cal_failed' = [cal_failed EXCEPT ![q] = 0]
    /\ update_bitmap_score(q, last, StepsOf[q], factor')

(* add_to_queue.                                                            *)
add_to_queue(q) ==
  /\ q \notin queue
  /\ queue' = queue \cup {q}
  /\ pending_not_fuzzed' = pending_not_fuzzed + 1
  /\ UNCHANGED <<pending_favored, pending_alarm_favored>>

(* save_if_interesting, in the middle of fuzz_one too, and perform_dry_run: *)
(* the new entry is calibrated at once.                                     *)
Save(q) ==
  /\ add_to_queue(q) /\ Calibrated(q)
  /\ UNCHANGED <<trim_done, flags, fuzzing, written_off>>

InDryRun == /\ fuzzing = NoEntry /\ trim_done = {}
            /\ favored = {} /\ alarm_favored = {}

(* The calibration in perform_dry_run scores the entry, then a re-run of    *)
(* its checks times out or crashes, and the entry is written off.           *)
SaveThenWriteOff(q) ==
  /\ InDryRun /\ add_to_queue(q)
  /\ \E trace \in Traces[q] : \E f \in 1 .. MaxFactor :
       /\ exec_cksum' = [exec_cksum EXCEPT ![q] = trace]
       /\ factor' = [factor EXCEPT ![q] = f]
       /\ update_bitmap_score(q, trace, StepsOf[q], factor')
  /\ cal_failed' = [cal_failed EXCEPT ![q] = CAL_CHANCES]
  /\ written_off' = written_off \cup {q}
  /\ UNCHANGED <<trim_done, flags, fuzzing>>

(* The calibration fails; a failing input of the dry run is written off.    *)
(* (What exec_cksum is then is not kept: it is reset before it is read.)    *)
SaveUncalibrated(q) ==
  /\ add_to_queue(q)
  /\ \E n \in {1} \cup IF InDryRun THEN {CAL_CHANCES} ELSE {} :
       cal_failed' = [cal_failed EXCEPT ![q] = n]
  /\ UNCHANGED <<scores, exec_cksum, factor, trim_done, flags, fuzzing,
                 written_off>>

(* cull_queue_default: an entry per byte no earlier pick has in its trace.  *)
Pick(w, i) ==
  LET q == rated.top[i]
  IN IF q # NoEntry /\ i \notin w.temp_v
       THEN [temp_v  |-> w.temp_v \cup rated.mini[q],
             favored |-> w.favored \cup {q},
             pending |-> IF q \in was_fuzzed THEN w.pending ELSE w.pending + 1]
       ELSE w

Winners ==
  LET w[i \in 0 .. NBits] ==
        IF i = 0 THEN [temp_v |-> {}, favored |-> {}, pending |-> 0] ELSE Pick(w[i - 1], i)
  IN w[NBits]

cull_queue_default ==
  /\ fuzzing = NoEntry
  /\ bitmap_score_changed \/ alarm_score_changed
  /\ IF bitmap_score_changed
       THEN favored' = Winners.favored /\ pending_favored' = Winners.pending
       ELSE UNCHANGED <<favored, pending_favored>>
  /\ IF alarm_score_changed
       THEN /\ alarm_favored' = Range(top_rated_alarm) \ {NoEntry}
            /\ pending_alarm_favored' =
                 Cardinality({s \in Steps : top_rated_alarm[s]
                                              \notin was_fuzzed \cup {NoEntry}})
       ELSE UNCHANGED <<alarm_favored, pending_alarm_favored>>
  /\ bitmap_score_changed' = FALSE /\ alarm_score_changed' = FALSE
  /\ UNCHANGED <<queue, rated, top_rated_alarm, exec_cksum, factor, cal_failed,
                 trim_done, was_fuzzed, pending_not_fuzzed, fuzzing, written_off>>
-----------------------------------------------------------------------------
(* The end of fuzz_one, of an abandoned call too.                           *)
Less(n, b) == IF b THEN n - 1 ELSE n

MarkFuzzed_CountsAlways(q) ==
  /\ was_fuzzed' = was_fuzzed \cup {q}
  /\ pending_not_fuzzed' = Less(pending_not_fuzzed, q \notin was_fuzzed)
  /\ pending_favored' = Less(pending_favored, q \in favored)
  /\ pending_alarm_favored' = Less(pending_alarm_favored, q \in alarm_favored)
MarkFuzzed(q) ==
  /\ was_fuzzed' = was_fuzzed \cup {q}
  /\ pending_not_fuzzed' = Less(pending_not_fuzzed, q \notin was_fuzzed)
  /\ pending_favored' = Less(pending_favored, q \in favored \ was_fuzzed)
  /\ pending_alarm_favored' =
       Less(pending_alarm_favored, q \in alarm_favored \ was_fuzzed)

(* fuzz_one on an entry whose calibration failed before.  It succeeds, and  *)
(* the entry is mutated, or abandoned all the same, for FAULT_NOBITS or for *)
(* the fault of a re-run in the checks, and then counts as fuzzed.          *)
Recalibrate(q) ==
  /\ fuzzing = NoEntry /\ q \in queue /\ cal_failed[q] \in 1 .. CAL_CHANCES - 1
  /\ Calibrated(q)
  /\ \/ fuzzing' = q /\ UNCHANGED <<flags, counters>>
     \/ MarkFuzzed(q) /\ UNCHANGED <<favored, alarm_favored, fuzzing>>
  /\ UNCHANGED <<queue, trim_done, written_off>>

(* It fails again, and the entry is abandoned.                              *)
RecalibrationFails(q) ==
  /\ fuzzing = NoEntry /\ q \in queue /\ cal_failed[q] \in 1 .. CAL_CHANCES - 1
  /\ cal_failed' = [cal_failed EXCEPT ![q] = @ + 1]
  /\ exec_cksum' = [exec_cksum EXCEPT ![q] = NoTrace]
  /\ UNCHANGED <<queue, scores, factor, trim_done, flags, counters, fuzzing,
                 written_off>>

(* Out of chances: abandoned at every visit.                                *)
Abandon(q) ==
  /\ fuzzing = NoEntry /\ q \in queue /\ cal_failed[q] = CAL_CHANCES
  /\ UNCHANGED vars

Start(q) ==
  /\ fuzzing = NoEntry /\ q \in queue /\ cal_failed[q] = 0
  /\ fuzzing' = q
  /\ UNCHANGED <<queue, scores, exec_cksum, factor, cal_failed, trim_done, flags,
                 counters, written_off>>

(* trim_case: nothing could be removed, or the entry is shorter and is      *)
(* scored with the trace that was saved when it first shrank, which is the  *)
(* one of exec_cksum, and with the steps the last run happened to cover.    *)
TrimFruitless(q) ==
  /\ fuzzing = q /\ q \notin trim_done
  /\ trim_done' = trim_done \cup {q}
  /\ UNCHANGED <<queue, scores, exec_cksum, factor, cal_failed, flags, counters,
                 fuzzing, written_off>>

Trim(q) ==
  /\ fuzzing = q /\ q \notin trim_done
  /\ trim_done' = trim_done \cup {q}
  /\ \E f \in 1 .. factor[q] : factor' = [factor EXCEPT ![q] = f]
  /\ \E steps \in SUBSET Steps :
       update_bitmap_score(q, exec_cksum[q], steps, factor')
  /\ UNCHANGED <<queue, exec_cksum, cal_failed, flags, counters, fuzzing, written_off>>

Finish(q) ==
  /\ fuzzing = q /\ q \in trim_done
  /\ MarkFuzzed(q)
  /\ fuzzing' = NoEntry
  /\ UNCHANGED <<queue, scores, exec_cksum, factor, cal_failed, trim_done,
                 favored, alarm_favored, written_off>>

Next ==
  \/ cull_queue_default
  \/ \E q \in Entries :
       \/ Save(q) \/ SaveThenWriteOff(q) \/ SaveUncalibrated(q)
       \/ Recalibrate(q) \/ RecalibrationFails(q) \/ Abandon(q) \/ Start(q)
       \/ TrimFruitless(q) \/ Trim(q) \/ Finish(q)

Spec == Init /\ [][Next]_vars
-----------------------------------------------------------------------------
(* tc_ref counts the slots an entry holds, and a winner has its trace: the  *)
(* pointer cull_queue_default follows is not null, and no trace is kept for *)
(* an entry that holds nothing.                                             *)
RefCounts ==
  \A q \in Entries :
    /\ rated.ref[q] = Cardinality({i \in Bits : rated.top[i] = q})
    /\ rated.mini[q] = NoTrace <=> rated.ref[q] = 0

(* While no slot has changed hands since the last cull, the favored entries *)
(* together cover every byte, and the alarm-favored ones every step, that   *)
(* any entry was ever rated for.  An entry rated again after trimming is    *)
(* the exception: its steps are those of the last trimming run.             *)
FavoredCoverBitmap ==
  /\ ~bitmap_score_changed =>
       \A i \in Bits : rated.top[i] # NoEntry =>
         rated.top[i] \in favored \/ \E q \in favored : i \in rated.mini[q]
  /\ ~alarm_score_changed =>
       \A s \in Steps : top_rated_alarm[s] # NoEntry =>
         \E q \in alarm_favored : s \in StepsOf[q] \/ q \in trim_done

Pending(S) == Cardinality(S \ was_fuzzed)

Deterministic(q) == Cardinality(Traces[q]) = 1

(* The counters cull_queue_default sets and fuzz_one counts down stay in    *)
(* step with the flags they count, so they never wrap below zero.  Nor do   *)
(* they stay up when nothing is pending: exactly so for the entries not     *)
(* fuzzed, and for the favored ones when the runs of each entry agree.  The *)
(* alarm counter goes up for every step and down for every entry; it may be *)
(* ahead by the steps an entry has won beyond its first.                    *)
PendingCountsHold ==
  /\ pending_not_fuzzed = Pending(queue)
  /\ pending_favored >= Pending(favored)
  /\ pending_alarm_favored >= Pending(alarm_favored)
  /\ (\A q \in queue : Deterministic(q)) => pending_favored = Pending(favored)
  /\ pending_alarm_favored - Pending(alarm_favored)
       <= Cardinality(Steps) - Cardinality(alarm_favored)

(* Whoever holds a slot, or is favored for one, is an entry that fuzz_one   *)
(* will mark fuzzed when it comes to it: it has not failed a calibration    *)
(* since it was scored.  The entries the dry run scored and then wrote off  *)
(* are the only ones of which this is not so.  They are never marked, and   *)
(* keep the pending counters up for good.                                   *)
FavoredCanBeFuzzed ==
  /\ \A q \in Range(rated.top) \cup Range(top_rated_alarm) \cup favored \cup alarm_favored :
       q # NoEntry => cal_failed[q] = 0 \/ q \in written_off
  /\ written_off \cap was_fuzzed = {}

=============================================================================
