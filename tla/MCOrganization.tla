---------------------------- MODULE MCOrganization ----------------------------
(* TLC instance of Organization: the people are interchangeable. *)
EXTENDS Organization, TLC

Symmetry == Permutations(Users) \cup Permutations(Invites) \cup Permutations(Requests)
=============================================================================
