----------------------------- MODULE MCScheduler -----------------------------
(***************************************************************************)
(* Model checking of Scheduler: Init ranges over every acyclic node list   *)
(* of N nodes, in every order and with unknown ids, gates and              *)
(* continue-on-failure flags.                                              *)
(***************************************************************************)
EXTENDS Scheduler
=============================================================================
