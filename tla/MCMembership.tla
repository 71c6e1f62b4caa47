----------------------------- MODULE MCMembership -----------------------------
(* Instances of Membership for TLC. *)
EXTENDS Membership

CONSTANTS beating, distant
=============================================================================
