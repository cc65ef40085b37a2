----------------------------- MODULE MCScheduler -----------------------------
(***************************************************************************)
(* An instance of Scheduler: its constants are given in the configuration. *)
(***************************************************************************)
EXTENDS Scheduler
=============================================================================
