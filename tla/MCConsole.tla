------------------------------- MODULE MCConsole -------------------------------
(* An instance of Console for TLC. *)
EXTENDS Console, TLC

CONSTANTS i1, i2, t1
=============================================================================
