---------------------------- MODULE MCDaemonClient ----------------------------
(* An instance of DaemonClient for TLC, with the three libraries side by side. *)
EXTENDS DaemonClient, TLC

CONSTANTS k1, k2, k3

Three == {k1, k2, k3}
=============================================================================
