---------------------------- MODULE ExploitHeap ----------------------------
(***************************************************************************)
(* The three rankings of an exploit queue, and rank_queue picking from     *)
(* them.                                                                   *)
(*                                                                         *)
(* add_to_exploit_queue pushes an entry, for one alarm, on two binary      *)
(* heaps (by distance to the alarm's frontier block and by binding count)  *)
(* and on an array of entries not fuzzed yet.  The callers set distance    *)
(* and binding_cnt of an entry after the push, in place, and other alarms  *)
(* change binding_cnt while the entry sits in the heap: the heaps are      *)
(* never repaired, only emptied and rebuilt.  An entry may be on the       *)
(* queues of several alarms, which share its exploit_was_fuzzed flag.      *)
(*                                                                         *)
(* rank_queue is one loop; a step of the model is one iteration of one of  *)
(* its inner loops.  Positions count from 1 where the source's count from  *)
(* 0, so that the parent of position p is p \div 2.                        *)
(***************************************************************************)
EXTENDS Integers, Sequences, FiniteSets, SequencesExt

CONSTANTS
  Alarms,
  Entries,         \* entries of the main queue, all in it from the start
  Reaches,         \* Reaches[q]: the alarms entry q covers a step of
  capacity,        \* ARR_SIZE
  MAX_DISTANCE,
  Distances,       \* results of get_dyn_distance
  VirginBindings,  \* what check_virgin_uncov_step adds to binding_cnt (5)
  Restarts,        \* whether a binding may restart the queue (BOOLEAN)
  MaxSeeds,        \* MaxSeeds[i]: bound on the length of an exploit queue
  MaxBindings      \* bound on binding_cnt

ASSUME HeapAssumption ==
  /\ IsFiniteSet(Alarms) /\ IsFiniteSet(Entries)
  /\ Reaches \in [Entries -> SUBSET Alarms]
  /\ capacity \in Nat \ {0}
  /\ MAX_DISTANCE \in Nat
  /\ Distances \subseteq 0 .. MAX_DISTANCE
  /\ Restarts \subseteq BOOLEAN
  /\ VirginBindings \in Nat /\ MaxSeeds \in [Alarms -> Nat] /\ MaxBindings \in Nat

VARIABLES
  exploit_queue,      \* [Alarms -> list of entries, newest first]
  distance_favored,   \* [Alarms -> heap of entries]
  overlap_favored,    \* [Alarms -> heap of entries]
  unfuzzed_favored,   \* [Alarms -> array of entries]
  rank_queue_cnt,     \* [Alarms -> Nat]
  distance,           \* [Entries -> [Alarms -> Nat]]
  binding_cnt,        \* [Entries -> Nat]
  was_fuzzed,         \* set of entries
  exploit_was_fuzzed, \* set of entries
  at,                 \* where rank_queue is, "idle" outside of it
  target,             \* the alarm rank_queue ranks for
  fresh               \* history: the alarms whose heaps were rebuilt after
                      \* the last change of a distance or a binding count

heaps == <<distance_favored, overlap_favored, unfuzzed_favored>>
keys  == <<distance, binding_cnt>>
flags == <<was_fuzzed, exploit_was_fuzzed>>
vars  == <<exploit_queue, heaps, rank_queue_cnt, keys, flags, at, target, fresh>>

-----------------------------------------------------------------------------
(* The heap: key is [Entries -> Nat]; both comparators, distance_cmp and   *)
(* overlap_cmp, want the parent's key below the child's, although the      *)
(* comment on the second one asks for a decreasing order.                  *)
distance_cmp(v1, v2) == v1 < v2
overlap_cmp(v1, v2)  == v2 > v1

(* Mode 0 is the heap by distance, mode 1 the one by binding count.        *)
is_higher(v1, v2, mode) ==
  IF mode = 0 THEN distance_cmp(v1, v2) ELSE overlap_cmp(v1, v2)

Parent(p) == p \div 2

(* The positions from p up to the root.                                    *)
Line[p \in Nat \ {0}] == IF p = 1 THEN {1} ELSE {p} \cup Line[Parent(p)]

(* heap_push without the capacity test: the new entry rises to position s, *)
(* the first on its way up whose parent has higher priority.               *)
SiftUp(h, x, key, mode) ==
  LET n == Len(h) + 1
      path == {p \in Line[n] : \A o \in Line[n] :
                 o > p => ~is_higher(key[h[Parent(o)]], key[x], mode)}
      s == Min(path)
  IN [p \in 1 .. n |-> IF p = s THEN x
                       ELSE IF p \in path THEN h[Parent(p)]
                       ELSE h[p]]

(* heap_pop: the last entry x goes to the root and sinks, under a child    *)
(* whose key is not above its own and, of two such, the higher one.        *)
SiftDown(h, key, mode) ==
  LET n == Len(h) - 1
      x == h[n + 1]
      sinks(c) == c <= n /\ ~is_higher(key[x], key[h[c]], mode)
      next(p) == LET l == 2 * p
                     r == 2 * p + 1
                 IN IF sinks(l) /\ sinks(r)
                      THEN IF is_higher(key[h[l]], key[h[r]], mode) THEN l ELSE r
                    ELSE IF sinks(l) THEN l
                    ELSE IF sinks(r) THEN r
                    ELSE p
      path == {p \in 1 .. n : \A o \in Line[p] \ {1} : next(Parent(o)) = o}
  IN [p \in 1 .. n |-> IF p \notin path THEN h[p]
                       ELSE IF next(p) = p THEN x
                       ELSE h[next(p)]]

(* A definition X_Slip, here and below, is X with a plausible programming  *)
(* mistake; no behaviour uses it, it tests that a property would notice.   *)
Takes_SkipsEither(h, q, ewf) == ~(q \in was_fuzzed \/ q \in ewf) /\ Len(h) < capacity

(* The guard of heap_push: fuzzed entries and full arrays are skipped.     *)
Takes(h, q, ewf) == ~(q \in was_fuzzed /\ q \in ewf) /\ Len(h) < capacity

PushOverlap_NoRise(h, q, bind, ewf) ==
  IF Takes(h, q, ewf) THEN Append(h, q) ELSE h

PushDistance(h, q, i, ewf) ==
  IF Takes(h, q, ewf)
    THEN SiftUp(h, q, [e \in Entries |-> distance[e][i]], 0) ELSE h
PushOverlap(h, q, bind, ewf) ==
  IF Takes(h, q, ewf) THEN SiftUp(h, q, bind, 1) ELSE h
PushUnfuzzed(h, q, ewf) ==
  IF Takes(h, q, ewf) THEN Append(h, q) ELSE h

(* Mode 2 is a plain array whose last entry fills the hole.                *)
FillHole(h) ==
  LET n == Len(h) - 1 IN [p \in 1 .. n |-> IF p = 1 THEN h[n + 1] ELSE h[p]]

PopDistance_DropsLast(i) == Front(distance_favored[i])

PopDistance(i) ==
  SiftDown(distance_favored[i], [e \in Entries |-> distance[e][i]], 0)
PopOverlap(i)  == SiftDown(overlap_favored[i], binding_cnt, 1)
PopUnfuzzed(i) == FillHole(unfuzzed_favored[i])
-----------------------------------------------------------------------------
TypeOK ==
  /\ exploit_queue \in [Alarms -> Seq(Entries)]
  /\ \A h \in {distance_favored, overlap_favored, unfuzzed_favored} :
       /\ h \in [Alarms -> Seq(Entries)]
       /\ \A i \in Alarms : Len(h[i]) <= capacity
  /\ rank_queue_cnt \in [Alarms -> Nat]
  /\ distance \in [Entries -> [Alarms -> 0 .. MAX_DISTANCE]]
  /\ binding_cnt \in [Entries -> 0 .. MaxBindings]
  /\ was_fuzzed \subseteq Entries /\ exploit_was_fuzzed \subseteq Entries
  /\ at \in {"idle", "top", "unfuzzed", "distance", "then_overlap",
             "overlap", "then_distance", "rebuild"}
  /\ target \in Alarms
  /\ fresh \subseteq Alarms

Init ==
  /\ exploit_queue = [i \in Alarms |-> <<>>]
  /\ distance_favored = [i \in Alarms |-> <<>>]
  /\ overlap_favored = [i \in Alarms |-> <<>>]
  /\ unfuzzed_favored = [i \in Alarms |-> <<>>]
  /\ rank_queue_cnt = [i \in Alarms |-> 0]
  /\ distance = [q \in Entries |-> [i \in Alarms |-> MAX_DISTANCE]]
  /\ binding_cnt = [q \in Entries |-> 0]
  /\ was_fuzzed = {} /\ exploit_was_fuzzed = {}
  /\ at = "idle" /\ target \in Alarms
  /\ fresh = {}

Saturated(n) == IF n > MaxBindings THEN MaxBindings ELSE n

(* destroy_exploit_queue and reset_heap, when the frontier moved.           *)
reset_heap_Dropped(h, i, restart) == h[i]

reset_heap(h, i, restart)            == IF restart THEN <<>> ELSE h[i]
destroy_exploit_queue(i, restart)    == IF restart THEN <<>> ELSE exploit_queue[i]

(* add_to_exploit_queue(q, i, ...) as the two checks call it: binding_cnt  *)
(* has grown by before, and after the pushes it grows by after and the     *)
(* distance is set to d.                                                   *)
Bind(i, q, restart, before, after, d) ==
  LET bind   == [binding_cnt EXCEPT ![q] = Saturated(@ + before)]
      old(h) == reset_heap(h, i, restart)
  IN /\ at = "idle" /\ i \in Reaches[q]
     /\ restart \/ Len(exploit_queue[i]) < MaxSeeds[i]
     /\ exploit_queue' = [exploit_queue EXCEPT ![i] = <<q>> \o destroy_exploit_queue(i, restart)]
     /\ distance_favored' = [distance_favored EXCEPT
          ![i] = PushDistance(old(distance_favored), q, i, exploit_was_fuzzed)]
     /\ overlap_favored' = [overlap_favored EXCEPT
          ![i] = PushOverlap(old(overlap_favored), q, bind, exploit_was_fuzzed)]
     /\ unfuzzed_favored' = [unfuzzed_favored EXCEPT
          ![i] = PushUnfuzzed(old(unfuzzed_favored), q, exploit_was_fuzzed)]
     /\ rank_queue_cnt' = [rank_queue_cnt EXCEPT ![i] = IF restart THEN 1 ELSE @ + 1]
     /\ binding_cnt' = [bind EXCEPT ![q] = Saturated(@ + after)]
     /\ distance' = [distance EXCEPT ![q][i] = d]
     /\ fresh' = {}
     /\ UNCHANGED <<flags, at, target>>

(* check_cur_uncov_step short of the last step: the re-run's distance.      *)
BindCur(i, q) ==
  \E restart \in Restarts, d \in Distances : Bind(i, q, restart, 1, 0, d)
(* check_virgin_uncov_step short of the last step.                          *)
BindVirgin(i, q) ==
  \E restart \in Restarts, d \in Distances :
    Bind(i, q, restart, 0, VirginBindings, d)
(* Either of them on the last step.                                         *)
BindHit(i, q) ==
  \E restart \in Restarts, n \in {1, VirginBindings} :
    Bind(i, q, restart, 0, n, 0)

(* check_cur_uncov_step counts a binding to an alarm whose frontier the     *)
(* entry does not stand on, and queues nothing.                             *)
CountBinding(q) ==
  /\ at = "idle"
  /\ binding_cnt' = [binding_cnt EXCEPT ![q] = Saturated(@ + 1)]
  /\ fresh' = {}
  /\ UNCHANGED <<exploit_queue, heaps, rank_queue_cnt, distance, flags, at,
                 target>>

(* On an alarm that is marked hit, add_to_exploit_queue rejects an entry    *)
(* short of the last step, and its callers go on all the same.              *)
Rejected(i, q) ==
  /\ at = "idle" /\ i \in Reaches[q]
  /\ \E n \in {1, VirginBindings} :
       binding_cnt' = [binding_cnt EXCEPT ![q] = Saturated(@ + n)]
  /\ \E d \in Distances : distance' = [distance EXCEPT ![q][i] = d]
  /\ fresh' = {}
  /\ UNCHANGED <<exploit_queue, heaps, rank_queue_cnt, flags, at, target>>

(* fuzz_one, of either phase, ends with an entry it had not fuzzed yet.     *)
FuzzOne(q) ==
  /\ at = "idle" /\ q \notin was_fuzzed
  /\ was_fuzzed' = was_fuzzed \cup {q}
  /\ UNCHANGED <<exploit_queue, heaps, rank_queue_cnt, keys,
                 exploit_was_fuzzed, at, target, fresh>>
-----------------------------------------------------------------------------
(* rank_queue(i), for an alarm choose_target has found heat on.             *)
RankQueue(i) ==
  /\ at = "idle" /\ exploit_queue[i] # <<>>
  /\ at' = "top" /\ target' = i
  /\ UNCHANGED <<exploit_queue, heaps, rank_queue_cnt, keys, flags, fresh>>

(* The random branches of an iteration.                                     *)
Branch(to) ==
  /\ at = "top" /\ at' = to
  /\ UNCHANGED <<exploit_queue, heaps, rank_queue_cnt, keys, flags, target,
                 fresh>>
TryUnfuzzed == Branch("unfuzzed")
TryDistance == Branch("distance")
TryOverlap  == Branch("overlap")

(* The branch that takes an entry of the main queue instead.                *)
PickFromQueue ==
  /\ at = "top" /\ at' = "idle"
  /\ UNCHANGED <<exploit_queue, heaps, rank_queue_cnt, keys, flags, target,
                 fresh>>

(* heap_top, heap_pop, and the test whether the entry is taken.             *)
TakeTop(h, ok) ==
  /\ h # <<>>
  /\ IF ok THEN /\ exploit_was_fuzzed' = exploit_was_fuzzed \cup {h[1]}
               /\ at' = "idle"
           ELSE UNCHANGED <<exploit_was_fuzzed, at>>
  /\ UNCHANGED <<exploit_queue, rank_queue_cnt, keys, was_fuzzed, target, fresh>>

RankUnfuzzed ==
  /\ at = "unfuzzed"
  /\ LET h == unfuzzed_favored[target]
     IN TakeTop(h, h[1] \notin was_fuzzed /\ h[1] \notin exploit_was_fuzzed)
  /\ unfuzzed_favored' = [unfuzzed_favored EXCEPT ![target] = PopUnfuzzed(target)]
  /\ UNCHANGED <<distance_favored, overlap_favored>>

(* The distance heap passes over fuzzed entries when it is the first of the *)
(* two to be tried.                                                         *)
RankDistance ==
  /\ at \in {"distance", "then_distance"}
  /\ LET h == distance_favored[target]
     IN TakeTop(h, /\ h[1] \notin exploit_was_fuzzed
                   /\ at = "distance" => h[1] \notin was_fuzzed)
  /\ distance_favored' = [distance_favored EXCEPT ![target] = PopDistance(target)]
  /\ UNCHANGED <<overlap_favored, unfuzzed_favored>>

RankOverlap ==
  /\ at \in {"overlap", "then_overlap"}
  /\ LET h == overlap_favored[target]
     IN TakeTop(h, h[1] \notin exploit_was_fuzzed)
  /\ overlap_favored' = [overlap_favored EXCEPT ![target] = PopOverlap(target)]
  /\ UNCHANGED <<distance_favored, unfuzzed_favored>>

(* A heap is empty: go to the other one, or to the end of the iteration.    *)
HeapEmpty ==
  /\ \/ at = "unfuzzed" /\ unfuzzed_favored[target] = <<>> /\ at' = "rebuild"
     \/ at = "distance" /\ distance_favored[target] = <<>> /\ at' = "then_overlap"
     \/ at = "overlap" /\ overlap_favored[target] = <<>> /\ at' = "then_distance"
     \/ at = "then_overlap" /\ overlap_favored[target] = <<>> /\ at' = "rebuild"
     \/ at = "then_distance" /\ distance_favored[target] = <<>> /\ at' = "rebuild"
  /\ UNCHANGED <<exploit_queue, heaps, rank_queue_cnt, keys, flags, target,
                 fresh>>

(* A rebuild makes the entries of the queue eligible again.                 *)
Eligible_Forgotten(qs) == exploit_was_fuzzed

Eligible(qs) == exploit_was_fuzzed \ Range(qs)

(* Every entry of a queue pushed on an empty heap, the newest one first.    *)
DistanceHeap(i, qs, ewf) ==
  LET built[k \in 0 .. Len(qs)] ==
        IF k = 0 THEN <<>> ELSE PushDistance(built[k - 1], qs[k], i, ewf)
  IN built[Len(qs)]
OverlapHeap(qs, bind, ewf) ==
  LET built[k \in 0 .. Len(qs)] ==
        IF k = 0 THEN <<>> ELSE PushOverlap(built[k - 1], qs[k], bind, ewf)
  IN built[Len(qs)]

(* The end of an iteration without a pick: both heaps are rebuilt when both *)
(* are empty.                                                               *)
Rebuild ==
  /\ at = "rebuild" /\ at' = "top"
  /\ IF distance_favored[target] = <<>> /\ overlap_favored[target] = <<>>
       THEN LET qs  == exploit_queue[target]
                ewf == Eligible(qs)
            IN /\ exploit_was_fuzzed' = ewf
               /\ distance_favored' =
                    [distance_favored EXCEPT ![target] = DistanceHeap(target, qs, ewf)]
               /\ overlap_favored' =
                    [overlap_favored EXCEPT ![target] = OverlapHeap(qs, binding_cnt, ewf)]
               /\ fresh' = fresh \cup {target}
       ELSE UNCHANGED <<exploit_was_fuzzed, distance_favored, overlap_favored, fresh>>
  /\ UNCHANGED <<exploit_queue, unfuzzed_favored, rank_queue_cnt, keys,
                 was_fuzzed, target>>

RankStep ==
  \/ RankUnfuzzed \/ RankDistance \/ RankOverlap \/ HeapEmpty \/ Rebuild

Next ==
  \/ \E i \in Alarms, q \in Entries :
       BindCur(i, q) \/ BindVirgin(i, q) \/ BindHit(i, q) \/ Rejected(i, q)
  \/ \E q \in Entries : CountBinding(q) \/ FuzzOne(q)
  \/ \E i \in Alarms : RankQueue(i)
  \/ TryUnfuzzed \/ TryDistance \/ TryOverlap \/ PickFromQueue
  \/ RankStep

Spec == Init /\ [][Next]_vars

(* rank_queue is a thread that goes on, and UR(100) does not avoid the      *)
(* branch that starts with the overlap heap forever, for any alarm.         *)
Fairness ==
  /\ WF_vars(RankStep)
  /\ \A i \in Alarms : SF_vars(TryOverlap /\ target = i)

FairSpec == Spec /\ Fairness
-----------------------------------------------------------------------------
Seeds(i) == Range(exploit_queue[i])

(* The heaps of an alarm rank entries of its exploit queue only, although   *)
(* destroy_exploit_queue and the heaps are separate, and rank_queue_cnt,    *)
(* which calculate_score divides the energy by, is the length of the queue. *)
HeapsRankSeeds ==
  \A i \in Alarms :
    /\ Range(distance_favored[i]) \cup Range(overlap_favored[i])
         \cup Range(unfuzzed_favored[i]) \subseteq Seeds(i)
    /\ rank_queue_cnt[i] = Len(exploit_queue[i])

(* No entry of a heap ranks higher than its parent, for the comparator the  *)
(* heap was given.                                                          *)
NoneOutranks(h, key, mode) ==
  \A p \in 2 .. Len(h) : ~is_higher(key[h[p]], key[h[Parent(p)]], mode)

(* The heaps rank_queue has rebuilt respect their comparators until a key   *)
(* changes in place, however many entries were popped since.  That is about *)
(* the sifting and holds for either direction of a comparator; it does not  *)
(* say that the one of the overlap heap is the one that was meant.  As it   *)
(* is, the entry that overlaps least is on top (HeapSorts in                *)
(* MCExploitHeap), against the comment "rank overlap in decreasing order".  *)
RebuiltHeapsAreOrdered ==
  \A i \in fresh :
    /\ NoneOutranks(distance_favored[i], [e \in Entries |-> distance[e][i]], 0)
    /\ NoneOutranks(overlap_favored[i], binding_cnt, 1)

Count(h, e) == Cardinality({p \in 1 .. Len(h) : h[p] = e})

LosesOnlyTop(h, after, e) ==
  Count(after, e) >= Count(h, e) - IF h # <<>> /\ h[1] = e THEN 1 ELSE 0

(* Ordered or not, sifting an entry loses no other one: what leaves a heap  *)
(* is the entry rank_queue looks at, or everything at a restart.            *)
OnlyTheTopLeaves ==
  [][\A i \in Alarms, e \in Entries :
       \/ Len(exploit_queue'[i]) <= 1
       \/ /\ LosesOnlyTop(distance_favored[i], distance_favored'[i], e)
          /\ LosesOnlyTop(overlap_favored[i], overlap_favored'[i], e)]_vars

(* As long as the alarms share no entries, and a queue fits its heaps, no   *)
(* seed is lost between two rebuilds: it has been picked or is still ranked.*)
SeedsAreRankedOrFuzzed ==
  \A i \in Alarms :
    Len(exploit_queue[i]) <= capacity =>
      Seeds(i) \ exploit_was_fuzzed \subseteq Range(overlap_favored[i])

(* rank_queue ends its loop.                                                *)
RankQueueReturns == at = "top" ~> at = "idle"

(* Alarms share their entries' flags, and one alarm's pick makes the others *)
(* pass over the entry, while their heaps go on changing; still, once the   *)
(* queue of an alarm has settled, and as long as the alarm is ranked again  *)
(* and again, every entry of that queue is fuzzed again and again.          *)
Picks(q) == q \in exploit_was_fuzzed' \ exploit_was_fuzzed

Settles(i) ==
  <>[][exploit_queue'[i] = exploit_queue[i] /\ Len(exploit_queue[i]) <= capacity]_vars

NoSeedStarves ==
  \A q \in Entries : \A i \in Reaches[q] :
    (/\ Settles(i)
     /\ []<>(at = "top" /\ target = i /\ q \in Seeds(i)))
      => []<><<Picks(q)>>_vars

=============================================================================
