-------------------------- MODULE ExploitFrontier --------------------------
(***************************************************************************)
(* What the exploit queues of afl-fuzz promise for a deterministic target. *)
(*                                                                         *)
(* Every alarm has a frontier, the largest number of its steps any input   *)
(* covered, and a queue of inputs that stand exactly on it.  A new input   *)
(* either pushes the frontier and is alone on the queue, or joins the      *)
(* inputs that are already there.  Nothing ever moves a frontier back and  *)
(* no queue is emptied.  Module SeedTriage implements this with the calls  *)
(* of the source.                                                          *)
(***************************************************************************)
EXTENDS Integers

CONSTANTS
  Alarms,
  Inputs,
  Reach     \* Reach[x][a]: the steps of alarm a that input x covers

VARIABLES
  frontier, \* [Alarms -> Nat]
  seeds     \* [Alarms -> SUBSET Inputs]

Init ==
  /\ frontier = [a \in Alarms |-> 0]
  /\ seeds = [a \in Alarms |-> {}]

Advance(a, x) ==
  /\ Reach[x][a] > frontier[a]
  /\ frontier' = [frontier EXCEPT ![a] = Reach[x][a]]
  /\ seeds' = [seeds EXCEPT ![a] = {x}]

Join(a, x) ==
  /\ frontier[a] > 0
  /\ Reach[x][a] = frontier[a]
  /\ frontier' = frontier
  /\ seeds' = [seeds EXCEPT ![a] = @ \cup {x}]

Next == \E a \in Alarms, x \in Inputs : Advance(a, x) \/ Join(a, x)

Spec == Init /\ [][Next]_<<frontier, seeds>>
=============================================================================
