----------------------------- MODULE MCRunGraph -----------------------------
(***************************************************************************)
(* Every workflow of a few components over three stages, and every run of  *)
(* it.  Components are interchangeable.                                    *)
(***************************************************************************)
EXTENDS RunGraph, TLC

Symmetry == Permutations(Components \ Gateable)
=============================================================================
