---------------------------- MODULE MCSeedTriage ----------------------------
(***************************************************************************)
(* Instances of SeedTriage: two alarms of two and one steps.               *)
(***************************************************************************)
EXTENDS SeedTriage

MCTotalNum == [a \in 0 .. 1 |-> IF a = 0 THEN 2 ELSE 1]

Ok(p0, p1) == [prog |-> [a \in 0 .. 1 |-> IF a = 0 THEN p0 ELSE p1],
               fault |-> 0]

(* Inputs 1 (the seed), 2 and 3 of a deterministic target.                  *)
MCRunsDet == [x \in 1 .. 3 |->
  CASE x = 1 -> {Ok(0, 0)} [] x = 2 -> {Ok(1, 0)} [] x = 3 -> {Ok(2, 1)}]

(* Inputs 1 (the seed) and 2 of a target whose runs differ or crash.         *)
MCRunsVar == [x \in 1 .. 2 |->
  IF x = 1 THEN {Ok(1, 0)}
           ELSE {Ok(1, 0), Ok(2, 1), [prog |-> Ok(0, 1).prog, fault |-> 2]}]
=============================================================================
