------------------------------ MODULE RunGraph ------------------------------
(***************************************************************************)
(* From an authored workflow to the steps of a run and back to the board   *)
(* that shows it: stageDependencies (stages.go), snapshotComponents and    *)
(* expandExecutionNodes (runs.go), the scoped and state-operation          *)
(* snapshots (scoped.go, stateops.go), the worker's node list (worker.go)  *)
(* and RunStages (runstages.go) of lib/workflows.                          *)
(*                                                                         *)
(* The steps themselves follow the rules of DagRun, which Scheduler        *)
(* implements: this module composes the expansion with those rules and     *)
(* asks what the run does to components and stages, which the scheduler    *)
(* has never heard of.  An attempt that ends, a decision and the resume    *)
(* job are one action each; WorkflowRun has their interleavings.           *)
(*                                                                         *)
(* A Helm and a Manifest component expand alike: "helm" stands for both.   *)
(***************************************************************************)
EXTENDS Integers, FiniteSets, FiniteSetsExt

CONSTANTS Components,  \* the authored components
          Gateable,    \* the components that may require an approval
          Stages,      \* number of stages; some may be empty
          NoUnit       \* an id that is not in the node list

ASSUME GraphAssumption ==
  Stages \in Nat \ {0} /\ IsFiniteSet(Components) /\ Gateable \subseteq Components

Own(c) == <<c, "own">>       \* the authored id: plan unit, or the whole component
Apply(c) == <<c, "apply">>   \* deriveApplyID
Units == Components \X {"own", "apply"}

WholeActions == {"deploy", "uninstall", "preview", "drift"}

VARIABLES
  stage, type, cof, gate, \* the workflow: stage and type of a component, the
                          \* components that continue on failure, the gated ones
  action,                 \* the run's action
  scoped,                 \* a component-scoped run or a state operation
  snap,                   \* the snapshot: unit -> graph node
  state,                  \* the step rows: unit -> status, "absent" if none
  moot,                   \* apply units whose plan has no changes
  approved,               \* units whose gate was decided (approved_at)
  status                  \* the run's status

workflow == <<stage, type, cof, gate>>
runGraph == <<action, scoped, snap>>
vars == <<stage, type, cof, gate, action, scoped, snap, state, moot, approved, status>>

-----------------------------------------------------------------------------
(* The snapshot *)

ReadOnly(a) == a \in {"preview", "drift"}

\* Mutant: an empty stage cuts the chain.
stageDependencies_Adjacent(c) == {b \in Components : stage[b] = stage[c] - 1}

\* Every component of the nearest earlier stage that is not empty.
stageDependencies(c) ==
  {b \in Components : /\ stage[b] < stage[c]
                      /\ \A m \in Components : ~(stage[b] < stage[m] /\ stage[m] < stage[c])}

componentNode(c) ==
  [dependsOn |-> {}, contOnFail |-> c \in cof, requiresApproval |-> c \in gate,
   stage |-> stage[c]]

HasApply(c, a) == type[c] = "terraform" /\ ~ReadOnly(a)

\* What a dependent of c waits for.
remap(c, a) == IF HasApply(c, a) THEN Apply(c) ELSE Own(c)

\* Mutant: the gate stays with the plan unit.
applyNode_Ungated(c, n) == [n EXCEPT !.dependsOn = {Own(c)}, !.requiresApproval = FALSE]

applyNode(c, n) == [n EXCEPT !.dependsOn = {Own(c)}]

\* Mutant: the plan unit keeps the component's continue-on-failure.
planNode_Continues(c, n, a) ==
  [n EXCEPT !.dependsOn = {remap(d, a) : d \in @}, !.requiresApproval = FALSE]

planNode(c, n, a) ==
  [n EXCEPT !.dependsOn = {remap(d, a) : d \in @}, !.requiresApproval = FALSE,
            !.contOnFail = ReadOnly(a) /\ @]

expandExecutionNodes(nodes, a) ==
  LET kept == {c \in DOMAIN nodes : a = "drift" => type[c] = "terraform"}
      units == {Own(c) : c \in kept} \cup {Apply(c) : c \in {d \in kept : HasApply(d, a)}}
  IN [u \in units |->
        LET c == u[1]
            n == nodes[c]
        IN CASE u = Apply(c) -> applyNode(c, n)
             [] u = Own(c) /\ type[c] = "terraform" -> planNode(c, n, a)
             [] OTHER -> [n EXCEPT !.dependsOn = {remap(d, a) : d \in @}]]

snapshotComponents(a) ==
  expandExecutionNodes(
    [c \in Components |-> [componentNode(c) EXCEPT !.dependsOn = stageDependencies(c)]], a)

scopedSnapshot(c, a) ==
  expandExecutionNodes(
    [d \in {c} |-> [componentNode(c) EXCEPT !.contOnFail = FALSE,
                                            !.requiresApproval = @ \/ a = "uninstall"]], a)

stateOpSnapshot(c) ==
  [u \in {Own(c)} |-> [componentNode(c) EXCEPT !.contOnFail = FALSE, !.requiresApproval = TRUE]]

-----------------------------------------------------------------------------
(* The node list of an attempt *)

InRun == DOMAIN snap

\* Mutant: a read-only run keeps the snapshot's dependencies.
DependsOn_AsRecorded(u) ==
  IF u \in InRun
  THEN {IF d \in InRun THEN d ELSE NoUnit : d \in snap[u].dependsOn} ELSE {}

DependsOn(u) ==
  IF u \in InRun /\ ~ReadOnly(action)
  THEN {IF d \in InRun THEN d ELSE NoUnit : d \in snap[u].dependsOn} ELSE {}

ContOnFail(u) == u \in InRun /\ snap[u].contOnFail

Gated(u) == u \in InRun /\ snap[u].requiresApproval /\ ~ReadOnly(action) /\ u \notin approved

Dag == INSTANCE DagRun WITH
  Nodes <- Units, Unknown <- NoUnit,
  dependsOn <- [u \in Units |-> DependsOn(u)],
  contOnFail <- [u \in Units |-> ContOnFail(u)],
  gated <- [u \in Units |-> Gated(u)]

-----------------------------------------------------------------------------
(* Starting a run *)

InFlight == {"pending", "running", "awaiting_approval"}

createRun(a, s, graph) ==
  /\ status = "none"
  /\ action' = a /\ scoped' = s /\ snap' = graph
  /\ state' = [u \in Units |-> IF u \in DOMAIN graph THEN "pending" ELSE "absent"]
  /\ status' = "running"
  /\ UNCHANGED <<workflow, moot, approved>>

BeginRun(a) ==
  /\ a = "drift" => \E c \in Components : type[c] = "terraform"
  /\ createRun(a, FALSE, snapshotComponents(a))

BeginComponentRun(c, a) ==
  /\ type[c] # "terraform" => a = "uninstall"
  /\ createRun(a, TRUE, scopedSnapshot(c, a))

BeginStateOp(c) ==
  /\ type[c] = "terraform"
  /\ createRun("state_op", TRUE, stateOpSnapshot(c))

-----------------------------------------------------------------------------
(* Driving it *)

Driving == status = "running" /\ UNCHANGED <<workflow, runGraph, approved, status>>

Launch(u) == Driving /\ Dag!Run(u)

\* sweep() goes through the node list from its head, and the list has the
\* stages in order: what is blocked in an earlier stage is skipped first.
sweepsFirst(u, v) == snap[u].stage < snap[v].stage
Blocked(u) == state[u] = "pending" /\ \E d \in DependsOn(u) : d \in Units /\ Dag!Blocks(d)

Skip(u) ==
  /\ Driving /\ Dag!Skip(u)
  /\ \A v \in InRun : Blocked(v) => ~sweepsFirst(v, u)

CompleteApply(u) == Driving /\ Dag!Complete(u)
Park(u) == Driving /\ Dag!AwaitApproval(u)

\* A plan with no changes completes its apply unit.
noChangeCompletes(u) ==
  {v \in InRun : v = Apply(u[1]) /\ u = Own(u[1]) /\ action \in {"deploy", "uninstall"}}

runComponent(u) ==
  /\ Driving
  /\ Dag!Finish(u)
  /\ state'[u] \in {"succeeded", "failed"}
  /\ moot' \in {moot, moot \cup noChangeCompletes(u)}

\* schedule() has reached its fixpoint and has heard from every goroutine.
Returned ==
  /\ status = "running"
  /\ \A u \in InRun :
       /\ state[u] # "running"
       /\ ~Blocked(u)
       /\ state[u] = "pending" => ~Dag!DepsPassed(u)

HardFailed == \E u \in InRun : state[u] = "failed" /\ ~ContOnFail(u)
SoftFailed == \E u \in InRun : state[u] = "failed" /\ ContOnFail(u)
Parked == {u \in InRun : state[u] = "awaiting_approval"}

Suspend ==
  /\ Returned /\ ~HardFailed /\ Parked # {}
  /\ status' = "awaiting_approval"
  /\ UNCHANGED <<workflow, runGraph, state, moot, approved>>

Final == CASE HardFailed -> "failed"
           [] ~HardFailed /\ SoftFailed -> "partial"
           [] OTHER -> "succeeded"

\* The run settles; SettleStuckComponentRuns closes what it leaves open.
Settle ==
  /\ Returned /\ (HardFailed \/ Parked = {})
  /\ status' = Final
  /\ state' = [u \in Units |->
       IF status' \in {"failed", "partial"} /\ state[u] \in InFlight THEN "skipped" ELSE state[u]]
  /\ UNCHANGED <<workflow, runGraph, moot, approved>>

Decide(u, s) ==
  /\ status = "awaiting_approval" /\ state[u] = "awaiting_approval"
  /\ state' = [state EXCEPT ![u] = s]
  /\ approved' = approved \cup {u}
  /\ UNCHANGED <<workflow, runGraph, moot, status>>

Approve(u) == Decide(u, "pending")
RejectGate(u) == Decide(u, "failed")

\* The resume job of a decided gate: gates still undecided park again.
Resume ==
  /\ status = "awaiting_approval"
  /\ \E u \in approved : state[u] # "awaiting_approval"
  /\ status' = "running"
  /\ UNCHANGED <<workflow, runGraph, state, moot, approved>>

-----------------------------------------------------------------------------
(* The board: RunStages *)

Jobs == {u[1] : u \in InRun}

\* Mutant: a success outranks work that is still to do.
combineStatus_Settled(S) ==
  CASE "failed" \in S -> "failed"
    [] S = {"pending"} -> "pending"
    [] "succeeded" \in S -> "succeeded"
    [] "awaiting_approval" \in S -> "awaiting_approval"
    [] "running" \in S -> "running"
    [] OTHER -> "skipped"

combineStatus(S) ==
  CASE "failed" \in S -> "failed"
    [] "failed" \notin S /\ "awaiting_approval" \in S -> "awaiting_approval"
    [] S \cap {"failed", "awaiting_approval"} = {} /\ "running" \in S -> "running"
    [] S = {"pending"} -> "pending"
    [] S \cap {"failed", "awaiting_approval", "running"} = {} /\ "pending" \in S /\ S # {"pending"} -> "running"
    [] S \subseteq {"skipped", "succeeded"} /\ "skipped" \in S -> "skipped"
    [] OTHER -> "succeeded"

ComponentStatus(c) == combineStatus({state[u] : u \in {v \in InRun : v[1] = c}})

StageOf(c) == snap[Own(c)].stage

StageStatus(s) == combineStatus({ComponentStatus(c) : c \in {d \in Jobs : StageOf(d) = s}})

\* Mutant: an edge to an apply unit is not an edge to its component.
JobDeps_OwnOnly(c) ==
  {d \in Jobs \ {c} : \E u \in InRun : u[1] = c /\ Own(d) \in snap[u].dependsOn}

JobDeps(c) ==
  {d \in Jobs \ {c} :
     \E u, v \in InRun : u[1] = c /\ v[1] = d /\ v \in snap[u].dependsOn}

\* The stages of a snapshot that records none.
longestPathDepths ==
  LET depth[c \in Jobs] ==
        IF JobDeps(c) = {} THEN 0 ELSE 1 + Max({depth[d] : d \in JobDeps(c)})
  IN depth

-----------------------------------------------------------------------------
(* Specification *)

\* loadStages: the workflow as it is authored, no run yet.
Init ==
  /\ stage \in [Components -> 1 .. Stages]
  /\ type \in [Components -> {"terraform", "helm"}]
  /\ cof \in SUBSET Components
  /\ gate \in SUBSET Gateable
  /\ action = "none" /\ scoped = FALSE /\ snap = << >>
  /\ state = [u \in Units |-> "absent"]
  /\ moot = {} /\ approved = {}
  /\ status = "none"

Begin ==
  \/ \E a \in WholeActions : BeginRun(a)
  \/ \E c \in Components, a \in {"deploy", "uninstall"} : BeginComponentRun(c, a)
  \/ \E c \in Components : BeginStateOp(c)

Drive(u) ==
  \/ Launch(u) \/ runComponent(u) \/ Skip(u) \/ CompleteApply(u) \/ Park(u)

Next ==
  \/ Begin
  \/ \E u \in Units : Drive(u) \/ Approve(u) \/ RejectGate(u)
  \/ Suspend \/ Settle \/ Resume

Spec == Init /\ [][Next]_vars

-----------------------------------------------------------------------------
(* Properties *)

Started(c) ==
  \E u \in InRun : u[1] = c /\ state[u] \notin {"pending", "skipped"}

\* c is through: all of its units succeeded, or the last one failed and the
\* component continues on failure.
Through(c) ==
  \A u \in {v \in InRun : v[1] = c} :
    \/ state[u] = "succeeded"
    \/ state[u] = "failed" /\ c \in cof /\ u = remap(c, action)

\* Stages run in order (stages.go): nothing of a stage begins before every
\* component of every earlier stage is through, apply included, although a
\* component waits only for the stage just before it.
StagesInOrder ==
  ~ReadOnly(action) =>
    \A b, c \in Jobs : StageOf(b) < StageOf(c) /\ Started(c) => Through(b)

\* The failure of u stops what comes after it: the component does not continue
\* on failure, or it is an OpenTofu component that failed at its plan.
Stops(u) ==
  /\ state[u] = "failed"
  /\ ~ReadOnly(action)
  /\ u[1] \notin cof \/ scoped \/ u # remap(u[1], action)

\* What a run comes to is what its components did.  A step is skipped only
\* because of a failure that stops the run, at the same stage or an earlier one
\* (a preview or a drift check skips nothing); the run has succeeded when all
\* steps did, is partial when every other one failed with continue on failure,
\* and failed when a failure stopped it or failed a read-only run.
OutcomeExplained ==
  /\ \A u \in InRun : state[u] = "skipped" =>
       \E v \in InRun : Stops(v) /\ StageOf(v[1]) <= StageOf(u[1])
  /\ status = "succeeded" => \A u \in InRun : state[u] = "succeeded"
  /\ status = "partial" => \A u \in InRun :
       state[u] = "succeeded" \/ (state[u] = "failed" /\ u[1] \in cof /\ ~Stops(u))
  /\ status = "partial" => \E u \in InRun : state[u] = "failed"
  /\ status = "failed" => \E u \in InRun : state[u] = "failed" /\ (Stops(u) \/ u[1] \notin cof)

\* No attempt is given a dependency on a step that its run does not have,
\* although a drift check drops components that others depend on: the
\* scheduler would fail such a step without running it (DagRun!Reject).
DependenciesAreInTheRun == \A u \in InRun : DependsOn(u) \subseteq InRun

\* A unit that changes something: everything but a plan.
Changes(u) == type[u[1]] = "terraform" => u = Apply(u[1]) \/ action = "state_op"

MustApprove(c) == c \in gate \/ (scoped /\ action = "uninstall") \/ action = "state_op"

\* Nothing is changed behind a closed gate: a gated component, a component
\* uninstall and a state operation change things only after an approval.
ChangesWaitForApproval ==
  [][\A u \in Units : state'[u] = "running" /\ state[u] # "running" =>
       ReadOnly(action) \/ ~Changes(u) \/ ~MustApprove(u[1]) \/ u \in approved]_vars

\* The board tells the truth: a stage is shown succeeded only when every step
\* of its components succeeded, and it is not shown at work, or done, while an
\* earlier one is pending, at work or parked.
BoardTellsTheTruth ==
  /\ \A c \in Jobs : StageStatus(StageOf(c)) = "succeeded" =>
       \A u \in InRun : u[1] = c => state[u] = "succeeded"
  /\ ~ReadOnly(action) =>
       \A b, c \in Jobs :
         StageOf(b) < StageOf(c) /\ StageStatus(StageOf(c)) # "pending" =>
           StageStatus(StageOf(b)) \in {"succeeded", "failed", "skipped"}

\* The stages derived from the recorded dependencies are the recorded ones.
DerivedStagesAgree ==
  action # "drift" =>
    \A b, c \in Jobs : longestPathDepths[b] <= longestPathDepths[c] <=> StageOf(b) <= StageOf(c)
=============================================================================
