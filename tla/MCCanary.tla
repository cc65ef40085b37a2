------------------------------ MODULE MCCanary ------------------------------
(* Two canaries, as many as a buffer has room for, and three processes. *)
EXTENDS Canary

CONSTANTS b1, b2
=============================================================================
