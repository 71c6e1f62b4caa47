------------------------------- MODULE MCClients -------------------------------
(* The programs on the daemon's socket, for TLC: a client library, and the gateway *)
(* over many of them, with two and one requests of two agents. `part` says which    *)
(* of the two moves, the other stays as it begins, and what is fair is asked of the *)
(* one that moves.                                                                 *)
EXTENDS MCDaemonClient, Gateway

CONSTANTS a1, a2, r1, r2, r3

AgentNames == {a1, a2}
TheRequests == {r1, r2, r3}
AgentOf == [r \in TheRequests |-> IF r = r3 THEN a2 ELSE a1]

VARIABLE part
clientVars == <<part, vars, gatewayVars>>

ClientsInit ==
  /\ Init /\ GatewayInit
  /\ part = "library" \/ (part = "gateway" /\ library = "rust")

ClientsNext ==
  \/ part = "library" /\ Next /\ UNCHANGED <<part, gatewayVars>>
  \/ part = "gateway" /\ GatewayNext /\ UNCHANGED <<part, vars>>

ClientsFairness ==
  /\ part = "library" => Fairness
  /\ part = "gateway" => GatewayFairness

ClientsSpec == ClientsInit /\ [][ClientsNext]_clientVars /\ ClientsFairness
=============================================================================
