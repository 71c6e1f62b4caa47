----------------------------- MODULE MCContinuity -----------------------------
(* Instances of Continuity for TLC: an agent that registers time and again at one *)
(* node, each time with another model.                                            *)
EXTENDS Continuity

CONSTANTS h1, s1, s2, ann

MCHome  == [s \in Sessions |-> h1]
MCName  == [s \in Sessions |-> ann]
MCModel == [s \in Sessions |-> s]
=============================================================================
