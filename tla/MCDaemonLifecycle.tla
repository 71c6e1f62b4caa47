--------------------------- MODULE MCDaemonLifecycle ---------------------------
(* An instance of DaemonLifecycle for TLC. *)
EXTENDS DaemonLifecycle, TLC

CONSTANTS d1, d2, c1, c2
=============================================================================
