-------------------------- MODULE MCTaskOrchestrator --------------------------
(***************************************************************************)
(* Instances of TaskOrchestrator for TLC.                                  *)
(***************************************************************************)
EXTENDS TaskOrchestrator, TLC

\* Connections, uuids and tasks are interchangeable as long as no liveness
\* property is checked.
Symmetry == Permutations(Conns) \cup Permutations(Uuids) \cup Permutations(Tasks)
=============================================================================
