----------------------------- MODULE MCStepTrace -----------------------------
(***************************************************************************)
(* Runs of up to six blocks out of four, one of which occurs twice in the  *)
(* list of an alarm and in the lists of two.                               *)
(***************************************************************************)
EXTENDS StepTrace

CONSTANTS b1, b2, b3, b4, a1, a2

MCNewId == [b \in Blocks |-> CASE b = b1 -> 1 [] b = b2 -> 2 [] b = b3 -> 3 [] OTHER -> 4]

MCAlarmTable == [i \in Alarms |-> IF i = a1 THEN <<b1, b2, b1>> ELSE <<b2, b3>>]
=============================================================================
