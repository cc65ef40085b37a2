-------------------------- MODULE Scheduler_proofs --------------------------
(***************************************************************************)
(* The walk of the queue keeps its place, for any queue, alarms and        *)
(* resumed position.  What FuzzesAnEntry and CurrentEntryIsPosition say at *)
(* fuzz_one alone is carried between two calls of it by WalkInv: away from *)
(* the end of a cycle, and until rank_queue moves queue_cur, the count and *)
(* the pointer agree.                                                      *)
(***************************************************************************)
EXTENDS Scheduler, TLAPS

WalkInv ==
  /\ TypeOK
  /\ FuzzesAnEntry
  /\ ~jumped /\ queue_cur # 0 => current_entry = queue_cur - 1

(* The ranges of TypeOK, as numbers.                                       *)
LEMMA Ranges ==
  ASSUME TypeOK
  PROVE  /\ InitialPaths \in Nat \ {0} /\ MaxPaths \in Nat
         /\ queued_paths \in Nat /\ InitialPaths <= queued_paths
         /\ queued_paths <= MaxPaths
         /\ queue_cur \in Nat /\ queue_cur <= queued_paths
         /\ current_entry \in Nat /\ current_entry <= MaxPaths
         /\ seek_to \in Nat /\ seek_to < queued_paths
         /\ was_fuzzed \subseteq 1 .. queued_paths
<1>1. InitialPaths \in Nat \ {0} /\ MaxPaths \in Nat
  BY SchedulerAssumption
<1>2. queued_paths \in InitialPaths .. MaxPaths
  BY DEF TypeOK
<1>3. queued_paths \in Nat /\ InitialPaths <= queued_paths /\ queued_paths <= MaxPaths
  BY <1>1, <1>2
<1>4. queue_cur \in 0 .. queued_paths /\ current_entry \in 0 .. MaxPaths
      /\ seek_to \in 0 .. (queued_paths - 1)
  BY DEF TypeOK
<1>5. was_fuzzed \subseteq 1 .. queued_paths
  BY DEF TypeOK, Paths
<1> QED BY <1>1, <1>3, <1>4, <1>5

(* A call of fuzz_one may queue entries, and takes none away.              *)
LEMMA FuzzOneKeeps ==
  ASSUME TypeOK, NEW k \in Paths, FuzzOne(k)
  PROVE  /\ queued_paths' \in InitialPaths .. MaxPaths
         /\ queued_paths <= queued_paths'
         /\ was_fuzzed' \subseteq 1 .. queued_paths'
         /\ cal_failed' \in [1 .. MaxPaths -> 0 .. CAL_CHANCES]
         /\ hot' \subseteq Alarms
         /\ was_selected' \in [Alarms -> BOOLEAN]
<1>1. PICK c \in CalibrationAfter(k) :
        LET cal == [cal_failed EXCEPT ![k] = c]
        IN IF c = 0
             THEN /\ Finds(cal)
                  /\ was_fuzzed' = IF stop_soon THEN was_fuzzed ELSE was_fuzzed \cup {k}
             ELSE /\ cal_failed' = cal
                  /\ IF cal_failed[k] < CAL_CHANCES THEN Progress ELSE UNCHANGED targets
                  /\ UNCHANGED <<queued_paths, was_fuzzed>>
  BY DEF FuzzOne
<1> DEFINE cal == [cal_failed EXCEPT ![k] = c]
<1>2. c \in 0 .. CAL_CHANCES
  <2>1. cal_failed[k] \in 0 .. CAL_CHANCES
    BY SchedulerAssumption DEF TypeOK, Paths
  <2>2. CAL_CHANCES \in Nat \ {0}
    BY SchedulerAssumption
  <2>3. CASE cal_failed[k] = 0
    BY <2>2, <2>3 DEF CalibrationAfter
  <2>4. CASE cal_failed[k] # 0 /\ cal_failed[k] < CAL_CHANCES
    BY <2>1, <2>2, <2>4 DEF CalibrationAfter
  <2>5. CASE cal_failed[k] = CAL_CHANCES
    BY <2>2, <2>5 DEF CalibrationAfter
  <2> QED BY <2>1, <2>2, <2>3, <2>4, <2>5
<1>3. cal \in [1 .. MaxPaths -> 0 .. CAL_CHANCES]
  BY <1>2 DEF TypeOK
<1>4. queued_paths \in InitialPaths .. MaxPaths /\ InitialPaths \in Nat \ {0}
      /\ MaxPaths \in Nat /\ CAL_CHANCES \in Nat \ {0}
  BY SchedulerAssumption DEF TypeOK
<1>5. CASE c = 0
  <2>1. Finds(cal)
        /\ was_fuzzed' = IF stop_soon THEN was_fuzzed ELSE was_fuzzed \cup {k}
    BY <1>1, <1>5
  <2>2. /\ queued_paths' \in InitialPaths .. MaxPaths /\ queued_paths <= queued_paths'
        /\ cal_failed' \in [1 .. MaxPaths -> 0 .. CAL_CHANCES]
    <3> HIDE DEF cal
    <3>1. CASE queued_paths' = queued_paths /\ cal_failed' = cal
      BY <1>3, <1>4, <3>1
    <3>2. CASE /\ queued_paths < MaxPaths /\ queued_paths' = queued_paths + 1
               /\ \E d \in {0, 1} : cal_failed' = [cal EXCEPT ![queued_paths'] = d]
      BY <1>3, <1>4, <3>2
    <3> QED BY <2>1, <3>1, <3>2 DEF Finds
  <2>3. hot' \subseteq Alarms /\ was_selected' \in [Alarms -> BOOLEAN]
    BY <2>1 DEF Finds, Progress, TypeOK
  <2>4. was_fuzzed' \subseteq 1 .. queued_paths'
    BY <1>4, <2>1, <2>2 DEF TypeOK, Paths
  <2> QED BY <2>2, <2>3, <2>4
<1>6. CASE c # 0
  <2>1. cal_failed' = cal /\ UNCHANGED <<queued_paths, was_fuzzed>>
    BY <1>1, <1>6
  <2>2. was_fuzzed \subseteq 1 .. queued_paths /\ queued_paths <= queued_paths
    BY Ranges
  <2>3. hot' \subseteq Alarms /\ was_selected' \in [Alarms -> BOOLEAN]
    <3>1. hot \subseteq Alarms /\ was_selected \in [Alarms -> BOOLEAN]
      BY DEF TypeOK
    <3>2. Progress \/ UNCHANGED targets
      BY <1>1, <1>6
    <3> QED BY <3>1, <3>2 DEF Progress, targets
  <2> HIDE DEF cal
  <2> QED BY <1>3, <1>4, <2>1, <2>2, <2>3
<1> QED BY <1>5, <1>6

(* A number below another is in the range the queue positions are in.      *)
LEMMA Below == \A a, b \in Nat : a < b => a \in 0 .. (b - 1)
<1> QED OBVIOUS

(* After fuzz_one the walk goes on to the entry that is next now.          *)
LEMMA AdvanceKeeps ==
  ASSUME WalkInv, Advance, queue_cur # 0,
         queued_paths' \in InitialPaths .. MaxPaths, queued_paths <= queued_paths'
  PROVE  /\ queue_cur' \in 0 .. queued_paths'
         /\ current_entry' \in 0 .. MaxPaths
         /\ seek_to' \in 0 .. (queued_paths' - 1)
         /\ jumped' \in BOOLEAN
         /\ pc' \in {"cull", "exit"}
         /\ ~jumped' /\ queue_cur' # 0 => current_entry' = queue_cur' - 1
<1>1. /\ InitialPaths \in Nat \ {0} /\ MaxPaths \in Nat
      /\ queued_paths \in Nat /\ queued_paths <= MaxPaths
      /\ queue_cur \in Nat /\ queue_cur <= queued_paths
      /\ current_entry \in Nat /\ current_entry <= MaxPaths
      /\ seek_to \in Nat /\ seek_to < queued_paths
      /\ jumped \in BOOLEAN
      /\ ~jumped /\ queue_cur # 0 => current_entry = queue_cur - 1
  BY Ranges DEF WalkInv, TypeOK
<1>0. queued_paths' \in Nat /\ queued_paths' <= MaxPaths /\ queued_paths <= queued_paths'
  BY <1>1
<1>2. CASE stop_soon
  <2>1. pc' = "exit" /\ UNCHANGED <<queue_cur, current_entry, seek_to, jumped>>
    BY <1>2 DEF Advance, walk
  <2>2. queue_cur' \in 0 .. queued_paths' /\ seek_to' \in 0 .. (queued_paths' - 1)
        /\ current_entry' \in 0 .. MaxPaths
    <3>1. queue_cur <= queued_paths' /\ seek_to < queued_paths'
      BY <1>0, <1>1
    <3>2. seek_to \in 0 .. (queued_paths' - 1)
      BY <1>0, <1>1, <3>1, Below
    <3>3. queue_cur' \in 0 .. queued_paths' /\ current_entry' \in 0 .. MaxPaths
      BY <1>0, <1>1, <2>1, <3>1
    <3> QED BY <2>1, <3>2, <3>3
  <2> QED BY <1>1, <2>1, <2>2
<1>3. CASE ~stop_soon
  <2>1. /\ pc' = "cull" /\ queue_cur' = NextEntry
        /\ current_entry' = Counted(current_entry + 1)
        /\ seek_to' = seek_to /\ jumped' = jumped
    BY <1>3 DEF Advance
  <2>2. (queue_cur' = queue_cur + 1 /\ queue_cur < queued_paths') \/ queue_cur' = 0
    BY <2>1 DEF NextEntry
  <2>3. /\ current_entry' \in 0 .. MaxPaths
        /\ queue_cur' \in 0 .. queued_paths'
        /\ seek_to' \in 0 .. (queued_paths' - 1)
    <3>1. seek_to < queued_paths'
      BY <1>0, <1>1
    <3>2. current_entry' \in 0 .. MaxPaths
      BY <1>1, <2>1 DEF Counted
    <3>3. queue_cur' \in 0 .. queued_paths'
      BY <1>0, <1>1, <2>2
    <3>4. seek_to' \in 0 .. (queued_paths' - 1)
      <4>1. seek_to' = seek_to
        BY <2>1
      <4>2. seek_to \in 0 .. (queued_paths' - 1)
        BY <1>0, <1>1, <3>1, Below
      <4> QED BY <4>1, <4>2
    <3> QED BY <3>2, <3>3, <3>4
  <2>4. ASSUME ~jumped', queue_cur' # 0
        PROVE  current_entry' = queue_cur' - 1
    <3>1. current_entry = queue_cur - 1 /\ queue_cur' = queue_cur + 1
          /\ queue_cur < queued_paths'
      BY <1>1, <2>1, <2>2, <2>4
    <3> QED BY <1>0, <1>1, <2>1, <3>1 DEF Counted
  <2> QED BY <1>1, <2>1, <2>2, <2>3, <2>4
<1> QED BY <1>2, <1>3

LEMMA WalkInit == Init => WalkInv
<1> SUFFICES ASSUME Init PROVE WalkInv
  OBVIOUS
<1>1. InitialPaths \in Nat \ {0} /\ MaxPaths \in Nat /\ InitialPaths <= MaxPaths
      /\ CAL_CHANCES \in Nat \ {0}
  BY SchedulerAssumption
<1>2. cal_failed \in [1 .. MaxPaths -> 0 .. CAL_CHANCES]
  BY <1>1 DEF Init
<1>3. TypeOK
  <2>1. queued_paths \in InitialPaths .. MaxPaths /\ queue_cur \in 0 .. queued_paths
        /\ current_entry \in 0 .. MaxPaths
    BY <1>1 DEF Init
  <2>2. seek_to \in 0 .. (queued_paths - 1)
    BY DEF Init, find_start_position
  <2>3. /\ was_fuzzed \subseteq Paths /\ hot \subseteq Alarms
        /\ was_selected \in [Alarms -> BOOLEAN]
        /\ alarm_mode = "explore" /\ stop_soon = FALSE /\ jumped = FALSE
        /\ pc = "cycle"
    BY DEF Init
  <2> QED BY <1>2, <2>1, <2>2, <2>3 DEF TypeOK
<1> QED BY <1>3 DEF Init, WalkInv, FuzzesAnEntry

LEMMA WalkNext == WalkInv /\ [Next]_vars => WalkInv'
<1> SUFFICES ASSUME WalkInv, [Next]_vars PROVE WalkInv'
  OBVIOUS
<1> USE DEF WalkInv
<1>0. InitialPaths \in Nat \ {0} /\ MaxPaths \in Nat /\ InitialPaths <= MaxPaths
  BY SchedulerAssumption
<1>1. ASSUME NEW mode \in {"explore", "exploit"}, CullQueue(mode)
      PROVE  WalkInv'
  BY <1>1 DEF CullQueue, walk, entries, targets, TypeOK, FuzzesAnEntry, Paths
<1>2. ASSUME NEW a \in Alarms, SelectTarget(a)
      PROVE  WalkInv'
  BY <1>2 DEF SelectTarget, walk, entries, TypeOK, FuzzesAnEntry, Paths
<1>3. CASE UnselectAll
  BY <1>3 DEF UnselectAll, walk, entries, TypeOK, FuzzesAnEntry, Paths
<1>4. ASSUME NEW k \in Paths, Rank(k)
      PROVE  WalkInv'
  BY <1>4 DEF Rank, entries, targets, TypeOK, FuzzesAnEntry, Paths
<1>5. CASE ExploitFuzz
  <2>1. queue_cur \in Paths
    BY <1>5 DEF ExploitFuzz, FuzzesAnEntry
  <2>2. FuzzOne(queue_cur)
    BY <1>5 DEF ExploitFuzz
  <2>3. /\ queued_paths' \in InitialPaths .. MaxPaths
        /\ queued_paths <= queued_paths'
        /\ was_fuzzed' \subseteq 1 .. queued_paths'
        /\ cal_failed' \in [1 .. MaxPaths -> 0 .. CAL_CHANCES]
        /\ hot' \subseteq Alarms
        /\ was_selected' \in [Alarms -> BOOLEAN]
    BY <2>1, <2>2, FuzzOneKeeps
  <2>4. /\ UNCHANGED <<queue_cur, current_entry, seek_to, jumped, alarm_mode, stop_soon>>
        /\ pc' \in {"rank", "cycle"}
    BY <1>5 DEF ExploitFuzz, walk
  <2>5. queue_cur' \in 0 .. queued_paths' /\ seek_to' \in 0 .. (queued_paths' - 1)
    <3>1. queued_paths' \in Nat
      BY <1>0, <2>3
    <3> QED BY <2>3, <2>4, <3>1, Ranges
  <2>6. TypeOK'
    BY <2>3, <2>4, <2>5 DEF TypeOK, Paths
  <2> QED BY <2>4, <2>6 DEF FuzzesAnEntry
<1>6. CASE GoOn
  BY <1>6 DEF GoOn, walk, entries, targets, TypeOK, FuzzesAnEntry, Paths
<1>7. CASE StartCycle
  <2>1. seek_to < queued_paths /\ seek_to \in Nat /\ queued_paths \in Nat
        /\ queued_paths <= MaxPaths
    BY Ranges
  <2>2. /\ queue_cur' = 1 + seek_to /\ current_entry' = seek_to /\ seek_to' = 0
        /\ jumped' = FALSE /\ pc' = "fuzz"
        /\ UNCHANGED <<entries, targets, alarm_mode, stop_soon>>
    BY <1>7, <2>1 DEF StartCycle
  <2>3. UNCHANGED <<queued_paths, was_fuzzed, cal_failed, hot, was_selected>>
    BY <2>2 DEF entries, targets
  <2>4. /\ queue_cur' \in 0 .. queued_paths' /\ current_entry' \in 0 .. MaxPaths
        /\ seek_to' \in 0 .. (queued_paths' - 1)
        /\ queue_cur' \in 1 .. queued_paths' /\ current_entry' = queue_cur' - 1
    BY <1>0, <2>1, <2>2, <2>3
  <2>5. TypeOK'
    BY <2>2, <2>3, <2>4 DEF TypeOK, Paths
  <2> QED BY <2>2, <2>4, <2>5 DEF FuzzesAnEntry, Paths
<1>8. CASE MainFuzz
  <2>1. queue_cur \in Paths /\ queue_cur # 0 /\ FuzzOne(queue_cur) /\ Advance
        /\ UNCHANGED <<alarm_mode, stop_soon>>
    BY <1>8 DEF MainFuzz, FuzzesAnEntry
  <2>2. /\ queued_paths' \in InitialPaths .. MaxPaths
        /\ queued_paths <= queued_paths'
        /\ was_fuzzed' \subseteq 1 .. queued_paths'
        /\ cal_failed' \in [1 .. MaxPaths -> 0 .. CAL_CHANCES]
        /\ hot' \subseteq Alarms
        /\ was_selected' \in [Alarms -> BOOLEAN]
    BY <2>1, FuzzOneKeeps
  <2>3. /\ queue_cur' \in 0 .. queued_paths'
        /\ current_entry' \in 0 .. MaxPaths
        /\ seek_to' \in 0 .. (queued_paths' - 1)
        /\ jumped' \in BOOLEAN
        /\ pc' \in {"cull", "exit"}
        /\ ~jumped' /\ queue_cur' # 0 => current_entry' = queue_cur' - 1
    BY <2>1, <2>2, AdvanceKeeps
  <2>4. TypeOK'
    BY <2>1, <2>2, <2>3 DEF TypeOK, Paths
  <2> QED BY <2>3, <2>4 DEF FuzzesAnEntry
<1>9. CASE MainSkip
  <2>1. queue_cur # 0 /\ Advance /\ UNCHANGED <<entries, targets, alarm_mode, stop_soon>>
    BY <1>9 DEF MainSkip
  <2>2. queued_paths' \in InitialPaths .. MaxPaths /\ queued_paths <= queued_paths'
    BY <1>0, <2>1 DEF TypeOK, entries
  <2>3. /\ queue_cur' \in 0 .. queued_paths'
        /\ current_entry' \in 0 .. MaxPaths
        /\ seek_to' \in 0 .. (queued_paths' - 1)
        /\ jumped' \in BOOLEAN
        /\ pc' \in {"cull", "exit"}
        /\ ~jumped' /\ queue_cur' # 0 => current_entry' = queue_cur' - 1
    BY <2>1, <2>2, AdvanceKeeps
  <2>4. TypeOK'
    BY <2>1, <2>2, <2>3 DEF TypeOK, Paths, entries, targets
  <2> QED BY <2>3, <2>4 DEF FuzzesAnEntry
<1>10. CASE handle_stop_sig
  BY <1>10 DEF handle_stop_sig, walk, entries, targets, TypeOK, FuzzesAnEntry, Paths
<1>11. CASE UNCHANGED vars
  BY <1>11 DEF vars, walk, entries, targets, TypeOK, FuzzesAnEntry, Paths
<1>12. CASE StayInMode \/ StartExploit \/ StartExplore
  BY <1>1, <1>12 DEF StayInMode, StartExploit, StartExplore, TypeOK
<1>13. CASE (\E k \in Paths : RankHeap(k)) \/ RankUnfuzzed \/ RankAny
  BY <1>4, <1>13 DEF RankHeap, RankUnfuzzed, RankAny
<1> QED
  BY <1>2, <1>3, <1>5, <1>6, <1>7, <1>8, <1>9, <1>10, <1>11, <1>12, <1>13
     DEF Next, MainStep

LEMMA WalkInvariant == Spec => []WalkInv
<1> QED BY WalkInit, WalkNext, PTL DEF Spec

(* The scheduler's variables keep their types; current_entry stays within  *)
(* the queue's bound whatever run_exploit does to queue_cur.               *)
THEOREM SchedulerTypes == Spec => []TypeOK
<1> QED BY WalkInvariant, PTL DEF WalkInv

(* fuzz_one dereferences queue_cur unchecked; it is never NULL, in either   *)
(* mode, wherever a resumed session starts.                                *)
THEOREM NeverFuzzesNull == Spec => []FuzzesAnEntry
<1> QED BY WalkInvariant, PTL DEF WalkInv

(* current_entry is the position of queue_cur until run_exploit moves it:   *)
(* the number the statistics, and a resumed session, go by.                *)
THEOREM WalkKeepsPlace == Spec => []CurrentEntryIsPosition
<1>1. TypeOK /\ FuzzesAnEntry /\ WalkInv => CurrentEntryIsPosition
  BY SchedulerAssumption
     DEF WalkInv, TypeOK, FuzzesAnEntry, Paths, CurrentEntryIsPosition
<1>2. WalkInv => CurrentEntryIsPosition
  BY <1>1 DEF WalkInv
<1> QED BY <1>2, WalkInvariant, PTL

-----------------------------------------------------------------------------
(* choose_target returns.  While it loops only Ctrl-C comes in between; when *)
(* no alarm with heat is left to choose it has unselected one, so the second *)
(* pass finds a candidate.                                                   *)

Unchosen == pc = "choose" /\ hot # {} /\ Candidates = {}
Choosable == pc = "choose" /\ hot # {} /\ Candidates # {}

\* What may happen while choose_target loops.
LEMMA ChooseSteps ==
  ASSUME TypeOK, pc = "choose", hot # {}, [Next]_vars
  PROVE  /\ Unchosen => (Unchosen \/ Choosable)' /\ (<<MainStep>>_vars => Choosable')
         /\ Choosable => (Choosable \/ pc # "choose")' /\ (<<MainStep>>_vars => (pc # "choose")')
<1> USE DEF Unchosen, Choosable
<1>1. ASSUME NEW a \in Alarms, SelectTarget(a)
      PROVE  Candidates # {} /\ pc' = "rank"
  BY <1>1 DEF SelectTarget
<1>2. ASSUME UnselectAll
      PROVE  Candidates = {} /\ Choosable'
  <2>1. PICK a \in Alarms : a \in hot
    BY DEF TypeOK
  <2>2. pc' = "choose" /\ hot' = hot /\ ~was_selected'[a] /\ Candidates = {}
    BY <1>2 DEF UnselectAll
  <2> QED BY <2>1, <2>2 DEF Candidates
<1>3. MainStep => (\E a \in Alarms : SelectTarget(a)) \/ UnselectAll
  BY DEF MainStep, StayInMode, StartExploit, StartExplore, CullQueue, RankHeap, RankUnfuzzed,
         RankAny, Rank, ExploitFuzz, GoOn, StartCycle, MainFuzz, MainSkip
<1>4. ASSUME handle_stop_sig \/ UNCHANGED vars
      PROVE  UNCHANGED <<pc, hot, was_selected>>
  BY <1>4 DEF handle_stop_sig, vars, targets
<1>5. UNCHANGED <<pc, hot, was_selected>> => UNCHANGED <<pc, hot, Candidates>>
  BY DEF Candidates
<1> QED BY <1>1, <1>2, <1>3, <1>4, <1>5 DEF Next

\* choose_target loops without a bound; once any alarm was reached, two passes of
\* it are enough, however many alarms were selected before.  When the thread can go
\* on is left to TLC (ThreadEnabled).
THEOREM TargetIsFound == FairSpec /\ []ThreadEnabled => ChooseTargetReturns
<1> DEFINE Sound == TypeOK /\ ThreadEnabled
<1>1. FairSpec /\ []ThreadEnabled => []Sound /\ [][Next]_vars /\ WF_vars(MainStep)
  BY SchedulerTypes, PTL DEF FairSpec, Spec, Fairness
<1>2. FairSpec /\ []ThreadEnabled => (Unchosen ~> Choosable)
  <2>1. Sound /\ Unchosen => ENABLED <<MainStep>>_vars
    <3>1. Sound /\ Unchosen => \E a \in Alarms : was_selected[a]
      BY DEF Unchosen, TypeOK, Candidates
    <3> QED BY <3>1 DEF Unchosen, ThreadEnabled
  <2>2. Sound /\ Unchosen /\ [Next]_vars => (Unchosen \/ Choosable)'
    BY ChooseSteps DEF Unchosen
  <2>3. Sound /\ Unchosen /\ [Next]_vars /\ <<MainStep>>_vars => Choosable'
    BY ChooseSteps DEF Unchosen
  <2> QED BY <1>1, <2>1, <2>2, <2>3, PTL
<1>3. FairSpec /\ []ThreadEnabled => (Choosable ~> pc # "choose")
  <2>1. Sound /\ Choosable => ENABLED <<MainStep>>_vars
    BY DEF Choosable, ThreadEnabled
  <2>2. Sound /\ Choosable /\ [Next]_vars => (Choosable \/ pc # "choose")'
    BY ChooseSteps DEF Choosable
  <2>3. Sound /\ Choosable /\ [Next]_vars /\ <<MainStep>>_vars => (pc # "choose")'
    BY ChooseSteps DEF Choosable
  <2> QED BY <1>1, <2>1, <2>2, <2>3, PTL
<1>4. pc = "choose" /\ hot # {} => Unchosen \/ Choosable
  BY DEF Unchosen, Choosable
<1> QED BY <1>2, <1>3, <1>4, PTL DEF ChooseTargetReturns
=============================================================================
