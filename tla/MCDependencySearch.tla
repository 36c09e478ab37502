------------------------- MODULE MCDependencySearch -------------------------
(***************************************************************************)
(* Instances of DependencyGraph and DependencySearch for TLC.              *)
(***************************************************************************)
EXTENDS DependencySearch

Symmetry == Permutations(Tasks)
=============================================================================
