-------------------------- MODULE MCTaskLifecycle --------------------------
(***************************************************************************)
(* Instances of TaskLifecycle for TLC.                                     *)
(***************************************************************************)
EXTENDS TaskLifecycle, TLC

Symmetry == Permutations(Tasks) \cup Permutations(WorkerIds)
=============================================================================
