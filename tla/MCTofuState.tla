----------------------------- MODULE MCTofuState -----------------------------
(* TLC instances of TofuState. *)
EXTENDS TofuState, TLC

Symmetry == Permutations(Reqs) \cup Permutations(Steps \cap Writers) \cup Permutations(LockIDs)
              \cup Permutations(Lineages) \cup Permutations(Digests)

=============================================================================
