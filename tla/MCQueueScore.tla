---------------------------- MODULE MCQueueScore ----------------------------
(***************************************************************************)
(* Three entries over three bytes and two steps; q3's runs differ.         *)
(***************************************************************************)
EXTENDS QueueScore

CONSTANTS q1, q2, q3, s1, s2

MCTraces ==
  [q \in Entries |-> CASE q = q1 -> {{1, 2}} [] q = q2 -> {{2, 3}} [] OTHER -> {{1}, {1, 3}}]

MCStepsOf == [q \in Entries |-> IF q = q1 THEN {s1, s2} ELSE {s1}]
=============================================================================
