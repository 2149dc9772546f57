-------------------------------- MODULE DagRun --------------------------------
(***************************************************************************)
(* What a workflow run promises about its steps, with no goroutines, no    *)
(* sweeps and no channels: every step changes state once, by one of six    *)
(* atomic rules.  Scheduler implements it.                                 *)
(***************************************************************************)
CONSTANTS Nodes, Unknown

VARIABLES dependsOn, contOnFail, gated,   \* the run's frozen node list
          state,                          \* node -> the step's status
          moot                            \* nodes made unnecessary by a result

vars == <<dependsOn, contOnFail, gated, state, moot>>

Passed(d) ==
  \/ state[d] = "succeeded"
  \/ state[d] = "failed" /\ contOnFail[d]

Blocks(d) ==
  \/ state[d] = "skipped"
  \/ state[d] = "failed" /\ ~contOnFail[d]

Waiting(n) == state[n] = "pending"

DepsPassed(n) == \A d \in dependsOn[n] : d \in Nodes /\ Passed(d)

Become(n, s) ==
  /\ state' = [state EXCEPT ![n] = s]
  /\ UNCHANGED <<dependsOn, contOnFail, gated>>

Init ==
  /\ state = [n \in Nodes |-> "pending"]
  /\ moot = {}

\* All dependencies passed and the gate is open.
Run(n) ==
  /\ Waiting(n) /\ DepsPassed(n) /\ ~gated[n] /\ n \notin moot
  /\ Become(n, "running") /\ UNCHANGED moot

\* A running step ends; only a success may make dependents unnecessary.
Finish(n) ==
  /\ state[n] = "running"
  /\ \E s \in {"succeeded", "failed", "skipped"} : Become(n, s)
  /\ \/ UNCHANGED moot
     \/ /\ state'[n] = "succeeded"
        /\ \E M \in SUBSET {m \in Nodes : n \in dependsOn[m]} : moot' = moot \cup M

Skip(n) ==
  /\ Waiting(n)
  /\ \E d \in dependsOn[n] : d \in Nodes /\ Blocks(d)
  /\ Become(n, "skipped") /\ UNCHANGED moot

Complete(n) ==
  /\ Waiting(n) /\ DepsPassed(n) /\ n \in moot
  /\ Become(n, "succeeded") /\ UNCHANGED moot

AwaitApproval(n) ==
  /\ Waiting(n) /\ DepsPassed(n) /\ gated[n] /\ n \notin moot
  /\ Become(n, "awaiting_approval") /\ UNCHANGED moot

\* A dependency outside the node list can never settle.
Reject(n) ==
  /\ Waiting(n) /\ Unknown \in dependsOn[n]
  /\ Become(n, "failed") /\ UNCHANGED moot

Next ==
  \E n \in Nodes : \/ Run(n) \/ Finish(n) \/ Skip(n)
                   \/ Complete(n) \/ AwaitApproval(n) \/ Reject(n)

Spec == Init /\ [][Next]_vars
=============================================================================
