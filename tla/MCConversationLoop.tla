-------------------------- MODULE MCConversationLoop --------------------------
(* Who is there, and a conversation with one of them, for TLC. `part` says which of *)
(* the two moves: the other stays as it begins. An observer that does has nothing   *)
(* to do that is fair, so that only the loop's fairness depends on it.              *)
EXTENDS ConversationLoop, MCMembership, TLC

VARIABLE part
partVars == <<part, vars, membershipVars>>

PartsInit ==
  /\ Init /\ MembershipInit
  /\ \/ part = "members" /\ ~up
     \/ part = "loop" /\ kind = "list"

PartsNext ==
  \/ part = "members" /\ MembershipNext /\ UNCHANGED <<part, vars>>
  \/ part = "loop" /\ Next /\ UNCHANGED <<part, membershipVars>>

PartsSpec ==
  /\ PartsInit /\ [][PartsNext]_partVars
  /\ MembershipFairness /\ (part = "loop" => Fairness)
=============================================================================
