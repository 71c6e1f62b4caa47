------------------------------- MODULE MCTraffic -------------------------------
(* An instance of Traffic for TLC: s1 and s2 of agent send, s2 for a worker of    *)
(* the other node, a scenario p1, and d1 injected, the two of them for everyone.  *)
(* What the workers pass over, to keep it small, nobody would wait for.           *)
EXTENDS Traffic

CONSTANTS s1, s2, p1, d1, here, away, worker, remote

MCHome == [a \in Tasks \cup Agents |-> IF a = remote THEN away ELSE here]
MCWay == [t \in Tasks |-> CASE t \in {s1, s2} -> "send" [] t = p1 -> "scenario" [] t = d1 -> "inject"]
MCTarget == [t \in Tasks |-> CASE t = s1 -> Listener [] t = s2 -> remote [] OTHER -> Everyone]
MCAnswers == [w \in Workers |-> IF w = remote THEN {s2} ELSE {p1}]
=============================================================================
