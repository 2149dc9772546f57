---------------------------- MODULE MCWorkflowRun ----------------------------
(***************************************************************************)
(* Small workflows for WorkflowRun: a chain, steps that are all parallel,  *)
(* and two parallel steps that a third one waits for.                      *)
(***************************************************************************)
EXTENDS WorkflowRun

Chain == [n \in Steps |-> {m \in Steps : m = n - 1}]
Parallel == [n \in Steps |-> {}]
Join == [n \in Steps |-> IF n = 3 THEN {1, 2} ELSE {}]
=============================================================================
