------------------------------ MODULE MCRegistry ------------------------------
(***************************************************************************)
(* Instances of Registry for TLC.                                          *)
(***************************************************************************)
EXTENDS Registry, TLC

CONSTANTS h1, h2, s1, s2, ann

OneNode   == {h1}
TwoNodes  == {h1, h2}
Two       == {s1, s2}
OneName   == {ann}

\* One agent that registers time and again at the same node...
HomeSame  == [s \in Sessions |-> h1]
\* ...or moves to another node for its second session.
HomeMoves == [s \in Sessions |-> IF s = s2 THEN h2 ELSE h1]
NameSame  == [s \in Sessions |-> ann]
=============================================================================
