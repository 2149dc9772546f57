-------------------------- MODULE MCComponentEdits --------------------------
(* Bounded instances of ComponentEdits. *)
EXTENDS ComponentEdits, TLC

Symmetry == Permutations(Editors) \cup Permutations(Runs) \cup Permutations(Apps)
=============================================================================
