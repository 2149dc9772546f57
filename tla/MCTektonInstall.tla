--------------------------- MODULE MCTektonInstall ---------------------------
(***************************************************************************)
(* TLC instances of TektonInstall.                                         *)
(***************************************************************************)
EXTENDS TektonInstall
=============================================================================
