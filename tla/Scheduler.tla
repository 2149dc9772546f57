------------------------------ MODULE Scheduler ------------------------------
(***************************************************************************)
(* The in-process DAG scheduler of a workflow run: schedule() of           *)
(* lib/workflows/scheduler.go.                                             *)
(*                                                                         *)
(* The main goroutine sweeps the node list to a fixpoint while it holds    *)
(* the mutex, then waits on the done channel; every launched node has a    *)
(* goroutine of its own that queues on the semaphore, runs the node        *)
(* outside the mutex, settles it under the mutex and finally hands its id  *)
(* to the main goroutine.  The context may be cancelled at any time.       *)
(*                                                                         *)
(* The node list (dependencies, continue-on-failure flags, closed gates)   *)
(* is an argument of schedule(): it is chosen in Init and never changes.   *)
(***************************************************************************)
EXTENDS Integers, FiniteSets

CONSTANTS N,           \* number of nodes; a node is its index in the list
          Concurrency  \* size of the semaphore

ASSUME SchedulerAssumption == N \in Nat \ {0} /\ Concurrency \in Nat \ {0}

Nodes == 1 .. N

Unknown == 0           \* a dependency id that is not in the node list

Terminal == {"succeeded", "failed", "skipped"}

VARIABLES
  dependsOn,    \* node -> set of ids (Unknown included) it depends on
  contOnFail,   \* node -> ContinueOnFailure
  gated,        \* node -> RequiresApproval && !Approved
  results,      \* node -> terminal status, or "none" while unsettled
  parked,       \* nodes waiting for an approval
  completed,    \* nodes made moot by a dependency's result
  worker,       \* node -> state of the goroutine launch() started for it
  main,         \* where the main goroutine is; it holds mu in "sweep"
  cursor,       \* sweep: the node of the list looked at next
  progressed,   \* sweep: this pass changed something
  launched,     \* sweep: nodes launched by this sweep
  pending,      \* goroutines the main loop still has to hear from
  ctxDone,      \* the context is cancelled
  status        \* what schedule() returned

nodeList == <<dependsOn, contOnFail, gated>>
sweepVars == <<cursor, progressed, launched>>
vars == <<dependsOn, contOnFail, gated, results, parked, completed, worker,
          main, cursor, progressed, launched, pending, ctxDone, status>>

-----------------------------------------------------------------------------
(* Readiness *)

Settled(n) == results[n] # "none"

inflight(n) == worker[n] \in {"queued", "running"}

\* Mutant: any failure counts as a pass, ContinueOnFailure or not.
depPassed_AnyFailure(d) == results[d] \in {"succeeded", "failed"}

depPassed(d) ==
  \/ results[d] = "succeeded"
  \/ results[d] = "failed" /\ contOnFail[d]

depBlocks(d) ==
  \/ results[d] = "failed" /\ ~contOnFail[d]
  \/ results[d] = "skipped"

HasUnknownDep(n) == Unknown \in dependsOn[n]

Blocked(n) == \E d \in dependsOn[n] \cap Nodes : depBlocks(d)

Ready(n) == \A d \in dependsOn[n] : d \in Nodes /\ depPassed(d)

\* The sweep has something to do for n.
Sweepable(n) ==
  /\ ~Settled(n)
  /\ ~inflight(n)
  /\ n \notin parked
  /\ HasUnknownDep(n) \/ Blocked(n) \/ Ready(n)

HardFailed == \E n \in Nodes : results[n] = "failed" /\ ~contOnFail[n]
SoftFailed == \E n \in Nodes : results[n] = "failed" /\ contOnFail[n]

FinalStatus ==
  CASE HardFailed -> "failed"
    [] ~HardFailed /\ parked # {} -> "suspended"
    [] ~HardFailed /\ parked = {} /\ SoftFailed -> "partial"
    [] OTHER -> "succeeded"

-----------------------------------------------------------------------------
(* The main goroutine: one sweep step per visited node *)

Visiting(n) == main = "sweep" /\ cursor = n

StepCursor == cursor' = cursor + 1 /\ UNCHANGED <<main, pending, ctxDone, status>>

\* continue: settled, in flight, parked, or waiting for a dependency.
Pass(n) ==
  /\ Visiting(n)
  /\ ~Sweepable(n)
  /\ StepCursor
  /\ UNCHANGED <<nodeList, results, parked, completed, worker, progressed, launched>>

\* Mutant: an unknown dependency skips the node.
Verdict_SkipsUnknown(n, s) ==
  \/ s = "skipped" /\ (HasUnknownDep(n) \/ Blocked(n))
  \/ s = "succeeded" /\ Ready(n) /\ n \in completed

\* The status the sweep itself gives a node.  When a list holds an unknown
\* and a blocking dependency the one met first decides.
Verdict(n, s) ==
  \/ s = "failed" /\ HasUnknownDep(n)
  \/ s = "skipped" /\ Blocked(n)
  \/ s = "succeeded" /\ Ready(n) /\ n \in completed

\* Mutant: the sweep does not ask for another pass.
Progress_None == UNCHANGED progressed

Progress == progressed' = TRUE

\* markSettled without running the node.
SettleInPlace(n) ==
  /\ Visiting(n)
  /\ Sweepable(n)
  /\ \E s \in Terminal :
       /\ Verdict(n, s)
       /\ results' = [results EXCEPT ![n] = s]
  /\ Progress
  /\ StepCursor
  /\ UNCHANGED <<nodeList, parked, completed, worker, launched>>

\* A ready node behind a closed gate parks.
Park(n) ==
  /\ Visiting(n)
  /\ Sweepable(n)
  /\ Ready(n) /\ n \notin completed /\ gated[n]
  /\ parked' = parked \cup {n}
  /\ Progress
  /\ StepCursor
  /\ UNCHANGED <<nodeList, results, completed, worker, launched>>

\* Any other ready node gets a goroutine; progressed is left alone.
Launch(n) ==
  /\ Visiting(n)
  /\ Sweepable(n)
  /\ Ready(n) /\ n \notin completed /\ ~gated[n]
  /\ worker' = [worker EXCEPT ![n] = "queued"]
  /\ launched' = launched + 1
  /\ StepCursor
  /\ UNCHANGED <<nodeList, results, parked, completed, progressed>>

\* End of a pass that changed something: go round again.
NextPass ==
  /\ main = "sweep" /\ cursor = N + 1 /\ progressed
  /\ cursor' = 1 /\ progressed' = FALSE
  /\ UNCHANGED <<nodeList, results, parked, completed, worker, main, launched,
                 pending, ctxDone, status>>

\* Mutant: the count is overwritten instead of increased.
NowPending_Overwrites == launched

NowPending == pending + launched

\* Fixpoint: wait for the goroutines, or return when none is left.
SweepEnd ==
  /\ main = "sweep" /\ cursor = N + 1 /\ ~progressed
  /\ pending' = NowPending
  /\ launched' = 0
  /\ IF NowPending > 0
     THEN main' = "select" /\ UNCHANGED status
     ELSE main' = "returned" /\ status' = FinalStatus
  /\ UNCHANGED <<nodeList, results, parked, completed, worker, cursor,
                 progressed, ctxDone>>

\* case <-done: hear from one goroutine and sweep again.
Receive(n) ==
  /\ main = "select"
  /\ worker[n] = "settled"
  /\ worker' = [worker EXCEPT ![n] = "received"]
  /\ pending' = pending - 1
  /\ main' = "sweep" /\ cursor' = 1 /\ progressed' = FALSE
  /\ UNCHANGED <<nodeList, results, parked, completed, launched, ctxDone, status>>

\* case <-ctx.Done(): stop sweeping.
ObserveCancel ==
  /\ main = "select" /\ ctxDone
  /\ main' = "drain"
  /\ UNCHANGED <<nodeList, results, parked, completed, worker, sweepVars,
                 pending, ctxDone, status>>

DrainOne(n) ==
  /\ main = "drain"
  /\ worker[n] = "settled"
  /\ worker' = [worker EXCEPT ![n] = "received"]
  /\ pending' = pending - 1
  /\ IF pending = 1
     THEN main' = "returned" /\ status' = "failed"
     ELSE UNCHANGED <<main, status>>
  /\ UNCHANGED <<nodeList, results, parked, completed, sweepVars, ctxDone>>

-----------------------------------------------------------------------------
(* The goroutine of a launched node *)

\* Mutant: a goroutine never gives its place back.
SemaphoreHeld_NoRelease == {n \in Nodes : worker[n] \in {"running", "settled", "received"}}

SemaphoreHeld == {n \in Nodes : worker[n] \in {"running", "settled"}}

\* sem <- struct{}{} and emit(running).
Start(n) ==
  /\ worker[n] = "queued"
  /\ Cardinality(SemaphoreHeld) < Concurrency
  /\ worker' = [worker EXCEPT ![n] = "running"]
  /\ UNCHANGED <<nodeList, results, parked, completed, main, sweepVars,
                 pending, ctxDone, status>>

\* What a node can end with: any other status runFn returns becomes "failed".
Outcomes == Terminal

\* runFn returned: settle under mu.  A success may complete other nodes.
Settle(n) ==
  /\ worker[n] = "running"
  /\ main # "sweep"
  /\ \E s \in Outcomes, moot \in SUBSET {m \in Nodes : n \in dependsOn[m]} :
       /\ s # "succeeded" => moot = {}
       /\ results' = [results EXCEPT ![n] = s]
       /\ completed' = completed \cup moot
  /\ worker' = [worker EXCEPT ![n] = "settled"]
  /\ UNCHANGED <<nodeList, parked, main, sweepVars, pending, ctxDone, status>>

\* The job's timeout, a cancellation or a worker shutdown.
CancelCtx ==
  /\ main # "returned" /\ ~ctxDone
  /\ ctxDone' = TRUE
  /\ UNCHANGED <<nodeList, results, parked, completed, worker, main, sweepVars,
                 pending, status>>

-----------------------------------------------------------------------------
(* Specification *)

Acyclic(deps) ==
  \E rank \in [Nodes -> Nodes] :
    \A n \in Nodes : \A d \in deps[n] \cap Nodes : rank[d] < rank[n]

Init ==
  /\ dependsOn \in [Nodes -> SUBSET (Nodes \cup {Unknown})]
  /\ Acyclic(dependsOn)
  /\ contOnFail \in [Nodes -> BOOLEAN]
  /\ gated \in [Nodes -> BOOLEAN]
  /\ results = [n \in Nodes |-> "none"]
  /\ parked = {}
  /\ completed = {}
  /\ worker = [n \in Nodes |-> "idle"]
  /\ main = "sweep"
  /\ cursor = 1
  /\ progressed = FALSE
  /\ launched = 0
  /\ pending = 0
  /\ ctxDone = FALSE
  /\ status = "none"

Main ==
  \/ \E n \in Nodes : Pass(n) \/ SettleInPlace(n) \/ Park(n) \/ Launch(n)
  \/ NextPass
  \/ SweepEnd
  \/ \E n \in Nodes : Receive(n) \/ DrainOne(n)
  \/ ObserveCancel

Next ==
  \/ Main
  \/ \E n \in Nodes : Start(n) \/ Settle(n)
  \/ CancelCtx

\* The Go runtime keeps scheduling every goroutine, and runFn returns (every
\* Kubernetes wait in it is bounded by the job's context).  Nobody has to
\* cancel the context.
Fairness ==
  /\ WF_vars(Main)
  /\ \A n \in Nodes : WF_vars(Start(n)) /\ WF_vars(Settle(n))

Spec == Init /\ [][Next]_vars

FairSpec == Spec /\ Fairness

-----------------------------------------------------------------------------
(* Properties *)

\* The maps, counters and goroutine states of schedule() have their types: no
\* status that is not terminal is recorded, and no counter goes below zero.
TypeOK ==
  /\ dependsOn \in [Nodes -> SUBSET (Nodes \cup {Unknown})]
  /\ contOnFail \in [Nodes -> BOOLEAN]
  /\ gated \in [Nodes -> BOOLEAN]
  /\ results \in [Nodes -> Terminal \cup {"none"}]
  /\ parked \in SUBSET Nodes
  /\ completed \in SUBSET Nodes
  /\ worker \in [Nodes -> {"idle", "queued", "running", "settled", "received"}]
  /\ main \in {"sweep", "select", "drain", "returned"}
  /\ cursor \in 1 .. N + 1
  /\ progressed \in BOOLEAN
  /\ launched \in Nat
  /\ pending \in Nat
  /\ ctxDone \in BOOLEAN
  /\ status \in {"none", "succeeded", "failed", "partial", "suspended"}

\* A node's goroutine exists only when every dependency had passed and its
\* gate was open, and that stays true for as long as it runs: whatever
\* interleaving of settles, sweeps and cancellation happens, no node is ever
\* deployed ahead of an unfinished, hard-failed or skipped dependency.
RunsOnlyWhenReady ==
  \A n \in Nodes : worker[n] # "idle" =>
    /\ ~gated[n]
    /\ \A d \in dependsOn[n] :
         /\ d \in Nodes
         /\ results[d] \in {"succeeded", "failed"}
         /\ results[d] = "failed" => contOnFail[d]

\* A node the scheduler settles without running it has its reason in the
\* final picture: skipped means a dependency blocks, succeeded means a
\* dependency's result completed it and all dependencies passed.
SettledInPlaceIsJustified ==
  \A n \in Nodes : worker[n] = "idle" =>
    /\ results[n] = "skipped" => Blocked(n)
    /\ results[n] = "succeeded" => n \in completed /\ Ready(n)
    /\ results[n] = "failed" => HasUnknownDep(n)

\* pending counts exactly the goroutines that have not handed in their id,
\* so schedule() returns with no goroutine left behind and never waits for
\* one that does not exist.
Outstanding == {n \in Nodes : worker[n] \in {"queued", "running", "settled"}}

NoGoroutineLeaks ==
  /\ pending + launched = Cardinality(Outstanding)
  /\ main = "returned" => Outstanding = {}

\* schedule() returns when it is done.  At a return that was not cut short by
\* the context the sweep has nothing left to do, so every unsettled node is
\* parked or waits for an unsettled dependency; and a run reported "succeeded"
\* or "partial" has settled every node, and has a skipped one only if some
\* executed node said so of itself.
ReturnsWhenDone ==
  /\ main = "returned" => \/ \A n \in Nodes : ~Sweepable(n)
                          \/ ctxDone /\ status = "failed"
  /\ main = "returned" /\ status \in {"succeeded", "partial"} =>
       /\ \A n \in Nodes : Settled(n)
       /\ (\E n \in Nodes : results[n] = "skipped") =>
            \E n \in Nodes : results[n] = "skipped" /\ worker[n] = "received"

\* A settled node keeps its status: no second result, no re-run.
SettlesOnce ==
  [][\A n \in Nodes : Settled(n) => results'[n] = results[n]]_vars

\* The detailed scheduler implements the step semantics of DagRun: a queued
\* or running goroutine is a running step, a parked node awaits approval.
StepState ==
  [n \in Nodes |-> CASE Settled(n) -> results[n]
                     [] ~Settled(n) /\ n \in parked -> "awaiting_approval"
                     [] ~Settled(n) /\ n \notin parked /\ inflight(n) -> "running"
                     [] OTHER -> "pending"]

Dag == INSTANCE DagRun WITH state <- StepState, moot <- completed

ImplementsDagRun == Dag!Spec

\* schedule() returns: no goroutine waits for the semaphore or the mutex for
\* ever, and the main loop never waits for an id that does not come.
Terminates == <>(main = "returned")

=============================================================================
