---------------------------- MODULE MCForkServer ----------------------------
(***************************************************************************)
(* An instance of ForkServer: MaxRuns is given in the configuration.       *)
(***************************************************************************)
EXTENDS ForkServer
=============================================================================
