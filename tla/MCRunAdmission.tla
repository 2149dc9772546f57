---------------------------- MODULE MCRunAdmission ----------------------------
(***************************************************************************)
(* TLC instance of RunAdmission: a pull request's start beside a user's or *)
(* the drift scheduler's, with one failing call of the queue, of the       *)
(* database and of GitHub.                                                 *)
(***************************************************************************)
EXTENDS RunAdmission
=============================================================================
