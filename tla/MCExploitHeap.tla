--------------------------- MODULE MCExploitHeap ---------------------------
(***************************************************************************)
(* Instances of ExploitHeap.                                               *)
(***************************************************************************)
EXTENDS ExploitHeap

CONSTANTS a0, a1, q1, q2

(* Both entries reach the one alarm ...                                    *)
MCReachesOne == [q \in {q1, q2} |-> {a0}]
(* ... or the one shares q1 with another one.                              *)
MCReachesTwo == [q \in {q1, q2} |-> IF q = q1 THEN {a0, a1} ELSE {a0}]

MCMaxSeedsOne == [i \in {a0} |-> 4]
MCMaxSeedsTwo == [i \in {a0, a1} |-> IF i = a0 THEN 2 ELSE 1]

(* Pushed one by one and popped, any five entries come out in the order of *)
(* their keys, none lost and none twice: the nearest first, and, although  *)
(* the comment above overlap_cmp says decreasing order, the one that       *)
(* overlaps least first as well.                                           *)
PushAll(n, key, mode) ==
  FoldLeft(LAMBDA h, x : SiftUp(h, x, key, mode), <<>>, [x \in 1 .. n |-> x])

PopAll(n, key, mode) ==
  FoldLeft(LAMBDA s, x : [heap |-> SiftDown(s.heap, key, mode),
                          out  |-> Append(s.out, s.heap[1])],
           [heap |-> PushAll(n, key, mode), out |-> <<>>], [x \in 1 .. n |-> x]).out

ASSUME HeapSorts ==
  \A mode \in {0, 1} : \A n \in 1 .. 5 : \A key \in [1 .. n -> 0 .. 3] :
    LET out == PopAll(n, key, mode)
    IN /\ Range(out) = 1 .. n
       /\ \A p \in 2 .. n : key[out[p - 1]] <= key[out[p]]

(* Entries are interchangeable.                                            *)
Symmetry == Permutations(Entries)
=============================================================================
