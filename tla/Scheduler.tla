----------------------------- MODULE Scheduler -----------------------------
(***************************************************************************)
(* The main loop of afl-fuzz: which entry fuzz_one is called on next.      *)
(*                                                                         *)
(* In ALARM_EXPLORE mode the loop walks the queue from its first entry to  *)
(* its last, over and over.  After MAX_EXPLORE_TIME cull_queue switches to *)
(* ALARM_EXPLOIT mode, in which every call of it chooses a target alarm    *)
(* and fuzzes entries rank_queue picks for it, before the main loop goes   *)
(* on from wherever that left queue_cur.                                   *)
(*                                                                         *)
(* Abstractions: of a heat only whether it is zero is kept, so that any    *)
(* reached alarm may be the coolest; whether a timer has run out and a     *)
(* chance test (UR) are free choices; what rank_queue takes from heaps of  *)
(* an alarm is any entry (ExploitHeap has the heaps); the favored entries  *)
(* (QueueScore) show only as the freedom to skip; the counters that feed   *)
(* calculate_score and the status screen alone (queue_cycle,               *)
(* current_exploit_entry, exploit_wo_finds, cycles_wo_finds) are left out. *)
(***************************************************************************)
EXTENDS Integers, FiniteSets

CONSTANTS
  Alarms,
  InitialPaths,  \* entries perform_dry_run has queued
  MaxPaths,      \* bound on queued_paths
  CAL_CHANCES

ASSUME SchedulerAssumption ==
  /\ Alarms # {} /\ IsFiniteSet(Alarms)
  /\ InitialPaths \in Nat \ {0} /\ MaxPaths \in Nat /\ InitialPaths <= MaxPaths
  /\ CAL_CHANCES \in Nat \ {0}

VARIABLES
  queued_paths,  \* length of the queue; entry k has qid k - 1
  queue_cur,     \* the current entry, 0 for NULL
  current_entry, \* "Current queue entry ID"
  seek_to,       \* position to resume from
  was_fuzzed,    \* set of entries
  cal_failed,    \* [1 .. MaxPaths -> 0 .. CAL_CHANCES]
  hot,           \* the alarms with a non-zero bb_heat_map entry
  was_selected,  \* [Alarms -> BOOLEAN]
  alarm_mode,
  stop_soon,
  jumped,        \* history: run_exploit has moved queue_cur in this cycle
  pc

walk    == <<queue_cur, current_entry, seek_to, jumped>>
entries == <<queued_paths, was_fuzzed, cal_failed>>
targets == <<hot, was_selected>>
vars    == <<walk, entries, targets, alarm_mode, stop_soon, pc>>

Paths == 1 .. queued_paths
-----------------------------------------------------------------------------
TypeOK ==
  /\ queued_paths \in InitialPaths .. MaxPaths
  /\ queue_cur \in 0 .. queued_paths
  /\ current_entry \in 0 .. MaxPaths
  /\ seek_to \in 0 .. (queued_paths - 1)
  /\ was_fuzzed \subseteq Paths
  /\ cal_failed \in [1 .. MaxPaths -> 0 .. CAL_CHANCES]
  /\ hot \subseteq Alarms
  /\ was_selected \in [Alarms -> BOOLEAN]
  /\ alarm_mode \in {"explore", "exploit"}
  /\ stop_soon \in BOOLEAN /\ jumped \in BOOLEAN
  /\ pc \in {"cull", "choose", "rank", "exploit", "cycle", "fuzz", "exit"}

(* A definition X_Slip, here and below, is X with a plausible programming  *)
(* mistake; no behaviour uses it, it tests that a property would notice.   *)
find_start_position_Unchecked == 0 .. MaxPaths

(* The position a resumed session finds in fuzzer_stats; one the queue does *)
(* not have is ignored.                                                     *)
find_start_position == 0 .. (InitialPaths - 1)

(* perform_dry_run is done, and the first call of cull_queue finds no timer *)
(* run out.                                                                 *)
Init ==
  /\ queued_paths = InitialPaths
  /\ queue_cur = 0 /\ current_entry = 0
  /\ seek_to \in find_start_position
  /\ was_fuzzed = {}
  /\ cal_failed \in {c \in [1 .. MaxPaths -> {0, 1, CAL_CHANCES}] :
                       \A k \in (InitialPaths + 1) .. MaxPaths : c[k] = 0}
  /\ hot \in SUBSET Alarms
  /\ was_selected = [a \in Alarms |-> FALSE]
  /\ alarm_mode = "explore"
  /\ stop_soon = FALSE /\ jumped = FALSE
  /\ pc = "cycle"
-----------------------------------------------------------------------------
(* cull_queue: stay in the mode, or leave it when its time is over.         *)
CullQueue(mode) ==
  /\ pc = "cull"
  /\ alarm_mode' = mode
  /\ pc' = IF mode = "exploit" THEN "choose" ELSE "cycle"
  /\ UNCHANGED <<walk, entries, targets, stop_soon>>

StayInMode  == CullQueue(alarm_mode)
StartExploit == alarm_mode = "explore" /\ CullQueue("exploit")
StartExplore == alarm_mode = "exploit" /\ CullQueue("explore")

Candidates == {a \in hot : ~was_selected[a]}

(* choose_target takes the coolest alarm of those not selected yet; fuzzing *)
(* has changed the heats meanwhile, and that may be any of them.            *)
SelectTarget_NotMarked(a) ==
  /\ pc = "choose"
  /\ a \in Candidates
  /\ pc' = "rank"
  /\ UNCHANGED <<walk, entries, targets, alarm_mode, stop_soon>>

SelectTarget(a) ==
  /\ pc = "choose"
  /\ a \in Candidates
  /\ was_selected' = [was_selected EXCEPT ![a] = TRUE]
  /\ pc' = "rank"
  /\ UNCHANGED <<walk, entries, hot, alarm_mode, stop_soon>>

(* When there is none, it unselects them all and looks again.               *)
UnselectAll_OnlyCold ==
  /\ pc = "choose" /\ Candidates = {}
  /\ was_selected' = [a \in Alarms |-> was_selected[a] /\ a \in hot]
  /\ UNCHANGED <<walk, entries, hot, alarm_mode, stop_soon, pc>>

UnselectAll ==
  /\ pc = "choose" /\ Candidates = {}
  /\ was_selected' = [a \in Alarms |-> FALSE]
  /\ UNCHANGED <<walk, entries, hot, alarm_mode, stop_soon, pc>>
-----------------------------------------------------------------------------
(* fuzz_one returns at once for an entry that calibrates no more; one that  *)
(* failed is calibrated again; when it calibrates it is fuzzed, or at least *)
(* marked so.  A calibration that fails has run the target too.             *)
CalibrationAfter_RetriesForever(k) ==
  CASE cal_failed[k] = 0           -> {0}
    [] cal_failed[k] < CAL_CHANCES -> {0, cal_failed[k]}
    [] OTHER                       -> {cal_failed[k]}

CalibrationAfter(k) ==
  CASE cal_failed[k] = 0           -> {0}
    [] cal_failed[k] < CAL_CHANCES -> {0, cal_failed[k] + 1}
    [] OTHER                       -> {CAL_CHANCES}

(* What runs of the target may bring: heat on any alarm, and progress on    *)
(* one, which unselects it.                                                 *)
Progress ==
  /\ \E heated \in SUBSET Alarms : hot' = hot \cup heated
  /\ \E made \in SUBSET hot' :
       was_selected' = [a \in Alarms |-> was_selected[a] /\ a \notin made]

(* Mutating an entry may find new ones, calibrated or not.                  *)
Finds(cal) ==
  /\ \/ queued_paths' = queued_paths /\ cal_failed' = cal
     \/ /\ queued_paths < MaxPaths /\ queued_paths' = queued_paths + 1
        /\ \E c \in {0, 1} : cal_failed' = [cal EXCEPT ![queued_paths'] = c]
  /\ Progress

FuzzOne(k) ==
  \E c \in CalibrationAfter(k) :
    LET cal == [cal_failed EXCEPT ![k] = c]
    IN IF c = 0
         THEN /\ Finds(cal)
              /\ was_fuzzed' = IF stop_soon THEN was_fuzzed ELSE was_fuzzed \cup {k}
         ELSE /\ cal_failed' = cal
              /\ IF cal_failed[k] < CAL_CHANCES THEN Progress ELSE UNCHANGED targets
              /\ UNCHANGED <<queued_paths, was_fuzzed>>
-----------------------------------------------------------------------------
(* rank_queue moves queue_cur, and nothing else of the walk.                *)
Rank(k) ==
  /\ pc = "rank" /\ pc' = "exploit"
  /\ queue_cur' = k /\ jumped' = TRUE
  /\ UNCHANGED <<current_entry, seek_to, entries, targets, alarm_mode, stop_soon>>

RankHeap(k) == k \in Paths /\ Rank(k)

RankUnfuzzed ==
  \E k \in Paths \ was_fuzzed :
    (\A e \in Paths \ was_fuzzed : k <= e) /\ Rank(k)

RankAny == Paths = was_fuzzed /\ \E k \in Paths : Rank(k)

(* run_exploit fuzzes the entry, and goes on until its time is over.        *)
ExploitFuzz ==
  /\ pc = "exploit"
  /\ FuzzOne(queue_cur)
  /\ \/ ~stop_soon /\ pc' = "rank"
     \/ pc' = "cycle"
  /\ UNCHANGED <<walk, alarm_mode, stop_soon>>

(* The main loop, back from cull_queue.                                     *)
GoOn ==
  /\ pc = "cycle" /\ queue_cur # 0
  /\ pc' = "fuzz"
  /\ UNCHANGED <<walk, entries, targets, alarm_mode, stop_soon>>

StartCycle ==
  /\ pc = "cycle" /\ queue_cur = 0
  /\ queue_cur' = IF seek_to < queued_paths THEN 1 + seek_to ELSE 0
  /\ current_entry' = seek_to /\ seek_to' = 0
  /\ jumped' = FALSE
  /\ pc' = "fuzz"
  /\ UNCHANGED <<entries, targets, alarm_mode, stop_soon>>

(* queue_cur->next, after fuzz_one; the queue may have grown under it.      *)
NextEntry == IF queue_cur < queued_paths' THEN queue_cur + 1 ELSE 0

(* Nothing depends on a count beyond the queue's bound.                     *)
Counted(n) == IF n > MaxPaths THEN MaxPaths ELSE n

Advance_KeepsCount ==
  IF stop_soon
    THEN pc' = "exit" /\ UNCHANGED walk
    ELSE /\ pc' = "cull"
         /\ queue_cur' = NextEntry
         /\ current_entry' = IF queued_paths' = queued_paths THEN Counted(current_entry + 1)
                                                             ELSE current_entry
         /\ UNCHANGED <<seek_to, jumped>>

Advance ==
  IF stop_soon
    THEN pc' = "exit" /\ UNCHANGED walk
    ELSE /\ pc' = "cull"
         /\ queue_cur' = NextEntry
         /\ current_entry' = Counted(current_entry + 1)
         /\ UNCHANGED <<seek_to, jumped>>

MainFuzz ==
  /\ pc = "fuzz" /\ queue_cur # 0
  /\ FuzzOne(queue_cur)
  /\ Advance
  /\ UNCHANGED <<alarm_mode, stop_soon>>

(* In explore mode fuzz_one may skip the entry, 99 times in a hundred.      *)
MainSkip ==
  /\ pc = "fuzz" /\ queue_cur # 0 /\ alarm_mode = "explore"
  /\ UNCHANGED <<entries, targets, alarm_mode, stop_soon>>
  /\ Advance

handle_stop_sig ==
  /\ ~stop_soon /\ pc # "exit" /\ stop_soon' = TRUE
  /\ UNCHANGED <<walk, entries, targets, alarm_mode, pc>>

MainStep ==
  \/ StayInMode \/ StartExploit \/ StartExplore
  \/ \E a \in Alarms : SelectTarget(a)
  \/ UnselectAll
  \/ \E k \in Paths : RankHeap(k)
  \/ RankUnfuzzed \/ RankAny \/ ExploitFuzz
  \/ GoOn \/ StartCycle \/ MainFuzz \/ MainSkip

Next == MainStep \/ handle_stop_sig

Spec == Init /\ [][Next]_vars

(* The fuzzer's thread goes on, and no chance test of UR comes out the same *)
(* way forever.  Nothing is assumed of the timers.                          *)
Fairness ==
  /\ WF_vars(MainStep)
  /\ \A k \in 1 .. MaxPaths : SF_vars(MainFuzz /\ queue_cur = k)
  /\ SF_vars(RankUnfuzzed)

FairSpec == Spec /\ Fairness

(* When the thread can go on in choose_target: with a candidate, or with    *)
(* alarms to unselect.                                                      *)
ThreadEnabled ==
  pc = "choose" /\ (Candidates # {} \/ \E a \in Alarms : was_selected[a])
    => ENABLED <<MainStep>>_vars
-----------------------------------------------------------------------------
(* fuzz_one is never called without an entry, although seek_to comes from   *)
(* the statistics of another session and run_exploit moves queue_cur.       *)
FuzzesAnEntry == pc \in {"fuzz", "exploit"} => queue_cur \in Paths

(* "Current queue entry ID": current_entry, which the status screen and     *)
(* fuzzer_stats (where a resumed session starts from) show, is the position *)
(* of the entry in the queue, in every cycle run_exploit has not cut into.  *)
CurrentEntryIsPosition ==
  pc = "fuzz" /\ ~jumped => current_entry = queue_cur - 1

(* choose_target, which loops until it finds a candidate, finds one if any  *)
(* alarm was ever reached.  (It loops forever if none was.)                 *)
ChooseTargetReturns == (pc = "choose" /\ hot # {}) ~> (pc # "choose")

(* The coolest alarm goes first, and fuzzing changes the heats; still,      *)
(* once no alarm makes progress, every alarm that was reached is a target   *)
(* again and again, as long as there are targets to choose.                 *)
Quiet == <>[][\A a \in Alarms : was_selected[a] /\ ~was_selected'[a] => pc = "choose"]_vars
Chosen(a) == pc = "choose" /\ ~was_selected[a] /\ was_selected'[a]

NoAlarmStarves ==
  \A a \in Alarms :
    (Quiet /\ <>(a \in hot) /\ []<>(pc = "choose")) => []<><<Chosen(a)>>_vars

(* However the two modes alternate, and although run_exploit makes the walk *)
(* miss entries, a queued entry is fuzzed in the end, unless it or an older *)
(* one calibrates no more, choose_target hangs, or the user stops.          *)
NoEntryWaitsForever ==
  \A k \in 1 .. MaxPaths :
    (k \in Paths) ~> \/ k \in was_fuzzed
                     \/ \E e \in 1 .. k : cal_failed[e] = CAL_CHANCES
                     \/ pc = "choose" /\ hot = {}
                     \/ stop_soon
=============================================================================
