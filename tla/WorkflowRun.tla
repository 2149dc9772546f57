----------------------------- MODULE WorkflowRun -----------------------------
(***************************************************************************)
(* The life of one workflow run: its row and its steps' rows in Postgres,  *)
(* the River jobs that drive it, the worker attempts that execute those    *)
(* jobs, the TaskRuns they submit to the runner cluster, and the API       *)
(* handlers and reapers that change the same rows concurrently.            *)
(*                                                                         *)
(* Sources: lib/workflows/worker.go (Work, runComponent), runs.go          *)
(* (MarkRun, MarkComponentRun, ApproveComponentRun, ...), recovery.go      *)
(* (CancelRun, ReapStuckRuns), approvals.go (ReapExpiredApprovals),        *)
(* lib/tekton/runexec.go (Execute), lib/api/runs.go (the handlers).        *)
(*                                                                         *)
(* Every database statement or transaction is one action.  Inside an       *)
(* attempt the steps follow the rules of DagRun, which Scheduler           *)
(* implements.  The steps are Helm or Manifest components; what only an    *)
(* OpenTofu plan unit adds (completing its apply, the policy gate) is not  *)
(* part of this module.  Writes through a cancelled context fail, and the  *)
(* code ignores that error.                                                *)
(***************************************************************************)
EXTENDS Integers, Sequences, FiniteSets

CONSTANTS
  Steps,        \* the execution units of the run
  DependsOn,    \* step -> steps it waits for (acyclic)
  ContOnFail,   \* the steps with ContinueOnFailure
  Gated,        \* the steps with RequiresApproval
  Timed,        \* the gated steps whose approval policy has a timeout
  MaxJobs,      \* bound: River jobs inserted for this run
  MaxAttempts,  \* River's MaxAttempts (25 in production)
  MaxTasks,     \* bound: TaskRuns submitted per step
  MaxCrashes,   \* bound: hard kills of a worker attempt
  MaxErrors,    \* bound: transient errors of the cluster or the queue
  MayCancel,    \* a user may cancel the run
  MayAbort      \* an attempt's context may be cancelled (timeout, shutdown)

ASSUME WorkflowRunAssumption ==
  /\ DependsOn \in [Steps -> SUBSET Steps]
  /\ ContOnFail \subseteq Steps /\ Timed \subseteq Gated /\ Gated \subseteq Steps
  /\ MaxJobs \in Nat \ {0} /\ MaxAttempts \in Nat \ {0} /\ MaxTasks \in Nat \ {0}
  /\ MaxCrashes \in Nat /\ MaxErrors \in Nat
  /\ MayCancel \in BOOLEAN /\ MayAbort \in BOOLEAN

Jobs == 1 .. MaxJobs

InFlight == {"pending", "running", "awaiting_approval"}
StepTerminal == {"succeeded", "failed", "skipped"}
RunTerminal == {"succeeded", "failed", "partial"}
\* Mutant: a discarded job still counts as live.
LiveJob_Discarded == {"available", "running", "retryable", "discarded"}

LiveJob == {"available", "running", "retryable"}

VARIABLES
  status,     \* workflow_runs.status
  jobID,      \* workflow_runs.job_id
  step,       \* component_runs: step -> [status, approved, runName]
  decision,   \* step -> the human decision taken on its gate (history)
  task,       \* cluster: step -> sequence of its TaskRuns' phases
  job,        \* River: job -> [state, attempt, cancelled]
  pc,         \* job -> where its running attempt is, "off" when none runs
  seen,       \* job -> the component rows the attempt loaded
  node,       \* job -> step -> the scheduler's view of the step
  attached,   \* job -> step -> index of the TaskRun the attempt waits on
  ctxDone,    \* job -> the attempt's context is cancelled
  retryable,  \* job -> some step failed for a transient reason
  final,      \* job -> the attempt's outcome once schedule() returned
  decide,     \* step -> where the approve/reject handler for it is
  canceller,  \* the cancel handler
  reaper,     \* the reaper goroutine
  crashes, errors

rows == <<status, jobID, step, decision>>
attempt == <<pc, seen, node, attached, ctxDone, retryable, final>>
handlers == <<decide, canceller, reaper>>
vars == <<status, jobID, step, decision, task, job, pc, seen, node, attached,
          ctxDone, retryable, final, decide, canceller, reaper, crashes, errors>>

-----------------------------------------------------------------------------
(* Row updates *)

\* MarkRun: guarded, a settled run is frozen.
MarkRun(s) == status' = IF status \in InFlight THEN s ELSE status

\* MarkComponentRun through the attempt's context: not guarded by the
\* row's status.  t # 0 also records the TaskRun's name.
MarkComponentRun(j, n, s, t) ==
  step' = IF ctxDone[j] THEN step
          ELSE [step EXCEPT ![n].status = s,
                            ![n].runName = IF t = 0 THEN @ ELSE t]

SweepSteps(rs, from, to) ==
  [n \in Steps |-> IF rs[n].status \in from THEN [rs[n] EXCEPT !.status = to] ELSE rs[n]]

SettleStuckComponentRuns == step' = SweepSteps(step, InFlight, "skipped")

-----------------------------------------------------------------------------
(* The River queue (external) *)

NextJob == Cardinality({j \in Jobs : job[j].state # "none"}) + 1

Insert == job' = [job EXCEPT ![NextJob].state = "available"]

\* Mutant: off by one.
attemptsRemain_OneMore(j) == job[j].attempt <= MaxAttempts

attemptsRemain(j) == job[j].attempt < MaxAttempts

\* The state a job gets when its attempt returns.
AfterAttempt(j, ok) ==
  CASE ok -> "completed"
    [] ~ok /\ job[j].cancelled -> "cancelled"
    [] ~ok /\ ~job[j].cancelled /\ attemptsRemain(j) -> "retryable"
    [] OTHER -> "discarded"

JobCancel(j) ==
  /\ job' = [job EXCEPT
       ![j].cancelled = @ \/ job[j].state = "running",
       ![j].state = IF @ \in {"available", "retryable"} THEN "cancelled" ELSE @]
  /\ ctxDone' = [ctxDone EXCEPT ![j] = @ \/ pc[j] # "off"]

NoRow == [status |-> "pending", approved |-> FALSE, runName |-> 0]

\* The attempt's goroutine is gone.
Leave(j) ==
  /\ pc' = [pc EXCEPT ![j] = "off"]
  /\ seen' = [seen EXCEPT ![j] = [n \in Steps |-> NoRow]]
  /\ node' = [node EXCEPT ![j] = [n \in Steps |-> "pending"]]
  /\ attached' = [attached EXCEPT ![j] = [n \in Steps |-> 0]]
  /\ ctxDone' = [ctxDone EXCEPT ![j] = FALSE]
  /\ retryable' = [retryable EXCEPT ![j] = FALSE]
  /\ final' = [final EXCEPT ![j] = "none"]

\* River fetches the job and Work loads the run and its steps (GetRun).
Fetch(j) ==
  /\ job[j].state \in {"available", "retryable"}
  /\ job' = [job EXCEPT ![j].state = "running", ![j].attempt = @ + 1]
  /\ pc' = [pc EXCEPT ![j] = "loaded"]
  /\ seen' = [seen EXCEPT ![j] = step]
  /\ UNCHANGED <<rows, task, node, attached, ctxDone, retryable, final,
                 handlers, crashes, errors>>

\* The rescuer finds a running job whose process died.
Rescue(j) ==
  /\ job[j].state = "running" /\ pc[j] = "off"
  /\ job' = [job EXCEPT ![j].state = AfterAttempt(j, FALSE)]
  /\ UNCHANGED <<rows, task, attempt, handlers, crashes, errors>>

\* SIGKILL, node loss: nothing of the attempt survives.
Crash(j) ==
  /\ pc[j] # "off" /\ crashes < MaxCrashes
  /\ crashes' = crashes + 1
  /\ Leave(j)
  /\ UNCHANGED <<rows, task, job, handlers, errors>>

\* The 90-minute job timeout, or StopAndCancel on shutdown.
Abort(j) ==
  /\ MayAbort /\ pc[j] \in {"loaded", "drive"} /\ ~ctxDone[j]
  /\ ctxDone' = [ctxDone EXCEPT ![j] = TRUE]
  /\ UNCHANGED <<rows, task, job, pc, seen, node, attached, retryable, final,
                 handlers, crashes, errors>>

-----------------------------------------------------------------------------
(* Work: mark the run running and drive the DAG *)

MarkRunning(j) ==
  /\ pc[j] = "loaded"
  /\ IF ctxDone[j] THEN UNCHANGED status ELSE MarkRun("running")
  /\ pc' = [pc EXCEPT ![j] = "drive"]
  /\ UNCHANGED <<jobID, step, decision, task, job, seen, node, attached,
                 ctxDone, retryable, final, handlers, crashes, errors>>

Executing == {"exec", "submit", "named", "await"}

\* Mutant: ContinueOnFailure is not looked at.
Passed_AnyFailure(j, d) == node[j][d] \in {"succeeded", "failed"}

Passed(j, d) == node[j][d] = "succeeded" \/ (node[j][d] = "failed" /\ d \in ContOnFail)
Blocks(j, d) == node[j][d] = "skipped" \/ (node[j][d] = "failed" /\ d \notin ContOnFail)
Ready(j, n) == \A d \in DependsOn[n] : Passed(j, d)
Blocked(j, n) == \E d \in DependsOn[n] : Blocks(j, d)
\* Mutant: the gate is closed only for a step that is already parked.
GateClosed_ByStatus(j, n) == n \in Gated /\ seen[j][n].status = "awaiting_approval"

GateClosed(j, n) == n \in Gated /\ ~seen[j][n].approved

Sweepable(j, n) == node[j][n] = "pending" /\ (Ready(j, n) \/ Blocked(j, n))

Driving(j) == pc[j] = "drive"

Becomes(j, n, s) == node' = [node EXCEPT ![j][n] = s]

\* onState(skipped): persisted unless a retry is going to decide again.
Skip(j, n) ==
  /\ Driving(j) /\ Sweepable(j, n) /\ Blocked(j, n)
  /\ Becomes(j, n, "skipped")
  /\ IF attemptsRemain(j) /\ retryable[j] THEN UNCHANGED step
     ELSE MarkComponentRun(j, n, "skipped", 0)
  /\ UNCHANGED <<status, jobID, decision, task, job, pc, seen, attached, ctxDone,
                 retryable, final, handlers, crashes, errors>>

\* onState(awaiting_approval).
Park(j, n) ==
  /\ Driving(j) /\ Sweepable(j, n) /\ Ready(j, n) /\ GateClosed(j, n)
  /\ Becomes(j, n, "parked")
  /\ MarkComponentRun(j, n, "awaiting_approval", 0)
  /\ UNCHANGED <<status, jobID, decision, task, job, pc, seen, attached, ctxDone,
                 retryable, final, handlers, crashes, errors>>

\* The status a row loaded as terminal gives its node.
ShortCircuit(j, n) == seen[j][n].status

\* runComponent: a row loaded as terminal short-circuits, any other is marked
\* running.
Launch(j, n) ==
  /\ Driving(j) /\ Sweepable(j, n) /\ Ready(j, n) /\ ~GateClosed(j, n)
  /\ IF seen[j][n].status \in StepTerminal
     THEN Becomes(j, n, ShortCircuit(j, n)) /\ UNCHANGED step
     ELSE Becomes(j, n, "exec") /\ MarkComponentRun(j, n, "running", 0)
  /\ UNCHANGED <<status, jobID, decision, task, job, pc, seen, attached, ctxDone,
                 retryable, final, handlers, crashes, errors>>

\* The planner rejects the component: a deterministic failure.
PlanFails(j, n) ==
  /\ Driving(j) /\ node[j][n] = "exec"
  /\ Becomes(j, n, "failed")
  /\ MarkComponentRun(j, n, "failed", 0)
  /\ UNCHANGED <<status, jobID, decision, task, job, pc, seen, attached, ctxDone,
                 retryable, final, handlers, crashes, errors>>

-----------------------------------------------------------------------------
(* Execute: re-attach or submit, then wait for the TaskRun *)

Active(n) == {t \in DOMAIN task[n] : task[n][t] = "active"}

\* Mutant: no recovery by label when the row has no name.
Candidate_NameOnly(j, n) == seen[j][n].runName

\* The name loaded with the row, else the newest active TaskRun that carries
\* the step's label.
Candidate(j, n) ==
  IF seen[j][n].runName # 0 THEN seen[j][n].runName
  ELSE IF Active(n) # {} THEN CHOOSE t \in Active(n) : \A u \in Active(n) : u <= t
  ELSE 0

\* recover + runActive.
Lookup(j, n) ==
  /\ Driving(j) /\ node[j][n] = "exec" /\ ~ctxDone[j]
  /\ IF Candidate(j, n) \in Active(n)
     THEN /\ Becomes(j, n, "await")
          /\ attached' = [attached EXCEPT ![j][n] = Candidate(j, n)]
     ELSE Becomes(j, n, "submit") /\ UNCHANGED attached
  /\ UNCHANGED <<rows, task, job, pc, seen, ctxDone, retryable, final,
                 handlers, crashes, errors>>

\* List failed: recover reports no run, so a fresh one is submitted.
ListFails(j, n) ==
  /\ Driving(j) /\ node[j][n] = "exec" /\ seen[j][n].runName = 0
  /\ errors < MaxErrors /\ errors' = errors + 1
  /\ Becomes(j, n, "submit")
  /\ UNCHANGED <<rows, task, job, pc, seen, attached, ctxDone, retryable, final,
                 handlers, crashes>>

Submit(j, n) ==
  /\ Driving(j) /\ node[j][n] = "submit" /\ ~ctxDone[j]
  /\ Len(task[n]) < MaxTasks
  /\ task' = [task EXCEPT ![n] = Append(@, "active")]
  /\ attached' = [attached EXCEPT ![j][n] = Len(task[n]) + 1]
  /\ Becomes(j, n, "named")
  /\ UNCHANGED <<rows, job, pc, seen, ctxDone, retryable, final,
                 handlers, crashes, errors>>

\* OnSubmitted persists the assigned name.
OnSubmitted(j, n) ==
  /\ Driving(j) /\ node[j][n] = "named" /\ ~ctxDone[j]
  /\ Becomes(j, n, "await")
  /\ MarkComponentRun(j, n, "running", attached[j][n])
  /\ UNCHANGED <<status, jobID, decision, task, job, pc, seen, attached, ctxDone,
                 retryable, final, handlers, crashes, errors>>

\* The cluster finishes a TaskRun, whoever watches it.
TaskEnds(n) ==
  /\ \E t \in Active(n), phase \in {"succeeded", "failed"} :
       task' = [task EXCEPT ![n][t] = phase]
  /\ UNCHANGED <<rows, job, attempt, handlers, crashes, errors>>

\* await returned a terminal phase; runComponent persists it.
Observe(j, n) ==
  /\ Driving(j) /\ node[j][n] = "await"
  /\ task[n][attached[j][n]] # "active"
  /\ Becomes(j, n, task[n][attached[j][n]])
  /\ MarkComponentRun(j, n, task[n][attached[j][n]], attached[j][n])
  /\ UNCHANGED <<status, jobID, decision, task, job, pc, seen, attached, ctxDone,
                 retryable, final, handlers, crashes, errors>>

\* The TaskRun name Execute returns along with an error.
KnownRun(j, n) == IF node[j][n] = "exec" THEN Candidate(j, n) ELSE attached[j][n]

\* Execute failed to get, submit, persist or watch.
ExecuteFails(j, n) ==
  /\ Driving(j) /\ node[j][n] \in Executing
  /\ node[j][n] = "exec" => ctxDone[j] \/ Candidate(j, n) # 0
  /\ ctxDone[j] \/ errors < MaxErrors
  /\ errors' = IF ctxDone[j] THEN errors ELSE errors + 1
  /\ Becomes(j, n, "failed")
  /\ MarkComponentRun(j, n, IF attemptsRemain(j) THEN "running" ELSE "failed",
                      KnownRun(j, n))
  /\ retryable' = [retryable EXCEPT ![j] = TRUE]
  /\ UNCHANGED <<status, jobID, decision, task, job, pc, seen, attached, ctxDone,
                 final, handlers, crashes>>

-----------------------------------------------------------------------------
(* Work: after schedule() returned *)

Drained(j) == \A n \in Steps : node[j][n] \notin Executing
Fixpoint(j) == \A n \in Steps : ~Sweepable(j, n)

FinalStatus(j) ==
  IF \E n \in Steps : node[j][n] = "failed" /\ n \notin ContOnFail THEN "failed"
  ELSE IF \E n \in Steps : node[j][n] = "parked" THEN "suspended"
  ELSE IF \E n \in Steps : node[j][n] = "failed" THEN "partial"
  ELSE "succeeded"

\* schedule() returns its status, or "failed" when the main loop saw the
\* cancelled context first.
ScheduleReturns(j) ==
  /\ Driving(j) /\ Drained(j)
  /\ \E f \in {FinalStatus(j), "failed"} :
       /\ \/ Fixpoint(j) /\ f = FinalStatus(j)
          \/ ctxDone[j] /\ f = "failed"
       /\ final' = [final EXCEPT ![j] = f]
  /\ pc' = [pc EXCEPT ![j] = "finish"]
  /\ UNCHANGED <<rows, task, job, seen, node, attached, ctxDone, retryable,
                 handlers, crashes, errors>>

\* Mutant: the run settles although River is going to retry the job.
WillRetry_Never(j) == FALSE

WillRetry(j) ==
  final[j] = "failed" /\ attemptsRemain(j) /\ (ctxDone[j] \/ retryable[j])

\* Parked gates: the run waits for a human, the job is done.
Suspend(j) ==
  /\ pc[j] = "finish" /\ final[j] = "suspended"
  /\ IF ctxDone[j] THEN UNCHANGED status ELSE MarkRun("awaiting_approval")
  /\ pc' = [pc EXCEPT ![j] = "return"]
  /\ UNCHANGED <<jobID, step, decision, task, job, seen, node, attached, ctxDone,
                 retryable, final, handlers, crashes, errors>>

\* Terminal: MarkRun(final) with a context no one can cancel ...
Finish(j) ==
  /\ pc[j] = "finish" /\ final[j] # "suspended" /\ ~WillRetry(j)
  /\ MarkRun(final[j])
  /\ pc' = [pc EXCEPT ![j] = IF final[j] = "succeeded" THEN "return" ELSE "sweep"]
  /\ UNCHANGED <<jobID, step, decision, task, job, seen, node, attached, ctxDone,
                 retryable, final, handlers, crashes, errors>>

\* ... then the steps that are still open.
Sweep(j) ==
  /\ pc[j] = "sweep"
  /\ SettleStuckComponentRuns
  /\ pc' = [pc EXCEPT ![j] = "return"]
  /\ UNCHANGED <<status, jobID, decision, task, job, seen, node, attached, ctxDone,
                 retryable, final, handlers, crashes, errors>>

\* Work returns to River.
Return(j) ==
  /\ \/ pc[j] = "return"
     \/ pc[j] = "finish" /\ WillRetry(j)
  /\ job' = [job EXCEPT ![j].state =
       AfterAttempt(j, ~(final[j] = "failed" /\ (ctxDone[j] \/ retryable[j])))]
  /\ Leave(j)
  /\ UNCHANGED <<rows, task, handlers, crashes, errors>>

-----------------------------------------------------------------------------
(* The approve / reject handler *)

\* The checks: the run and the step are both parked.
DecideCheck(n, d) ==
  /\ decide[n].at = "idle" /\ n \in Gated
  /\ status = "awaiting_approval" /\ step[n].status = "awaiting_approval"
  /\ decide' = [decide EXCEPT ![n] = [at |-> d, job |-> 0]]
  /\ UNCHANGED <<rows, task, job, attempt, canceller, reaper, crashes, errors>>

\* The update re-asserts only the step's status.  Both decisions stamp
\* approved_at, and both enqueue a resume.
DecideWrite(n) ==
  /\ decide[n].at \in {"approve", "reject"}
  /\ IF step[n].status = "awaiting_approval"
     THEN /\ step' = [step EXCEPT ![n].approved = TRUE,
                ![n].status = IF decide[n].at = "approve" THEN "pending" ELSE "failed"]
          /\ decision' = [decision EXCEPT ![n] = decide[n].at]
          /\ decide' = [decide EXCEPT ![n].at = "insert"]
     ELSE /\ decide' = [decide EXCEPT ![n].at = "idle"]
          /\ UNCHANGED <<step, decision>>
  /\ UNCHANGED <<status, jobID, task, job, attempt, canceller, reaper, crashes, errors>>

\* A fresh job resumes the run ...
DecideInsert(n) ==
  /\ decide[n].at = "insert" /\ NextJob \in Jobs
  /\ Insert
  /\ decide' = [decide EXCEPT ![n] = [at |-> "setjob", job |-> NextJob]]
  /\ UNCHANGED <<rows, task, attempt, canceller, reaper, crashes, errors>>

\* ... and becomes the run's job.
DecideSetRunJob(n) ==
  /\ decide[n].at = "setjob"
  /\ jobID' = decide[n].job
  /\ decide' = [decide EXCEPT ![n] = [at |-> "idle", job |-> 0]]
  /\ UNCHANGED <<status, step, decision, task, job, attempt, canceller, reaper,
                 crashes, errors>>

\* Insert or SetRunJob fails: the handler returns an error, the decision stands.
DecideFails(n) ==
  /\ decide[n].at \in {"insert", "setjob"}
  /\ errors < MaxErrors /\ errors' = errors + 1
  /\ decide' = [decide EXCEPT ![n] = [at |-> "idle", job |-> 0]]
  /\ UNCHANGED <<rows, task, job, attempt, canceller, reaper, crashes>>

-----------------------------------------------------------------------------
(* Cancel and the reapers *)

\* CancelRun: one transaction over the run and its open steps.
CancelRun ==
  /\ MayCancel /\ canceller = "idle" /\ status \in InFlight
  /\ status' = "failed"
  /\ step' = SweepSteps(step, InFlight, "failed")
  /\ canceller' = "jobcancel"
  /\ UNCHANGED <<jobID, decision, task, job, attempt, decide, reaper, crashes, errors>>

\* Best effort: the recorded job is cancelled, or that call fails.
CancelJob ==
  /\ canceller = "jobcancel"
  /\ canceller' = "done"
  /\ \/ JobCancel(jobID)
     \/ UNCHANGED <<job, ctxDone>>
  /\ UNCHANGED <<rows, task, pc, seen, node, attached, retryable, final, decide,
                 reaper, crashes, errors>>

NoReap == [at |-> "idle", expired |-> {}]

\* A run that has been running for longer than any attempt may live, whose
\* recorded job is positively gone ...
FindStuck ==
  /\ reaper.at = "idle" /\ status = "running"
  /\ job[jobID].state \notin LiveJob
  /\ \A j \in Jobs : pc[j] \in {"off", "loaded"}
  /\ reaper' = [at |-> "stuck", expired |-> {}]
  /\ UNCHANGED <<rows, task, job, attempt, decide, canceller, crashes, errors>>

\* ... is failed, if it has not settled meanwhile.
ReapStuckRun ==
  /\ reaper.at = "stuck"
  /\ MarkRun("failed")
  /\ reaper' = IF status \in InFlight THEN [reaper EXCEPT !.at = "reaped"] ELSE NoReap
  /\ UNCHANGED <<jobID, step, decision, task, job, attempt, decide, canceller,
                 crashes, errors>>

\* Mutant: pending steps are forgotten.
ReapedStatuses_Running == {"running"}

ReapedStatuses == {"pending", "running"}

\* Its open steps settle too.
ReapSteps ==
  /\ reaper.at = "reaped"
  /\ step' = SweepSteps(step, ReapedStatuses, "failed")
  /\ reaper' = NoReap
  /\ UNCHANGED <<status, jobID, decision, task, job, attempt, decide, canceller,
                 crashes, errors>>

\* Approval gates of a parked run whose timeout has elapsed.
FindExpired ==
  /\ reaper.at = "idle" /\ status = "awaiting_approval"
  /\ \E E \in SUBSET {n \in Timed : step[n].status = "awaiting_approval"} :
       /\ E # {}
       /\ reaper' = [at |-> "expire", expired |-> E]
  /\ UNCHANGED <<rows, task, job, attempt, decide, canceller, crashes, errors>>

\* Each is failed if it is still parked; the run is failed in any case.
ExpireSteps ==
  /\ reaper.at = "expire"
  /\ step' = [n \in Steps |->
       IF n \in reaper.expired /\ step[n].status = "awaiting_approval"
       THEN [step[n] EXCEPT !.status = "failed"] ELSE step[n]]
  /\ reaper' = [reaper EXCEPT !.at = "fail"]
  /\ UNCHANGED <<status, jobID, decision, task, job, attempt, decide, canceller,
                 crashes, errors>>

ExpireRun ==
  /\ reaper.at = "fail"
  /\ MarkRun("failed")
  /\ reaper' = IF status \in InFlight THEN [reaper EXCEPT !.at = "sweep"] ELSE NoReap
  /\ UNCHANGED <<jobID, step, decision, task, job, attempt, decide, canceller,
                 crashes, errors>>

ExpireSweep ==
  /\ reaper.at = "sweep"
  /\ SettleStuckComponentRuns
  /\ reaper' = NoReap
  /\ UNCHANGED <<status, jobID, decision, task, job, attempt, decide, canceller,
                 crashes, errors>>

-----------------------------------------------------------------------------
(* Specification *)

\* StartRun has created the rows, inserted the first job and recorded it.
Init ==
  /\ status = "pending"
  /\ jobID = 1
  /\ step = [n \in Steps |-> NoRow]
  /\ decision = [n \in Steps |-> "none"]
  /\ task = [n \in Steps |-> << >>]
  /\ job = [j \in Jobs |-> [state |-> IF j = 1 THEN "available" ELSE "none",
                            attempt |-> 0, cancelled |-> FALSE]]
  /\ pc = [j \in Jobs |-> "off"]
  /\ seen = [j \in Jobs |-> [n \in Steps |-> NoRow]]
  /\ node = [j \in Jobs |-> [n \in Steps |-> "pending"]]
  /\ attached = [j \in Jobs |-> [n \in Steps |-> 0]]
  /\ ctxDone = [j \in Jobs |-> FALSE]
  /\ retryable = [j \in Jobs |-> FALSE]
  /\ final = [j \in Jobs |-> "none"]
  /\ decide = [n \in Steps |-> [at |-> "idle", job |-> 0]]
  /\ canceller = "idle"
  /\ reaper = NoReap
  /\ crashes = 0 /\ errors = 0

StepWork(j, n) ==
  \/ Skip(j, n) \/ Park(j, n) \/ Launch(j, n) \/ PlanFails(j, n)
  \/ Lookup(j, n) \/ ListFails(j, n) \/ Submit(j, n) \/ OnSubmitted(j, n)
  \/ Observe(j, n) \/ ExecuteFails(j, n)

Work(j) ==
  \/ MarkRunning(j)
  \/ \E n \in Steps : StepWork(j, n)
  \/ ScheduleReturns(j) \/ Suspend(j) \/ Finish(j) \/ Sweep(j) \/ Return(j)

Handler(n) == DecideWrite(n) \/ DecideInsert(n) \/ DecideSetRunJob(n) \/ DecideFails(n)

Reaper ==
  \/ FindStuck \/ ReapStuckRun \/ ReapSteps
  \/ FindExpired \/ ExpireSteps \/ ExpireRun \/ ExpireSweep

Next ==
  \/ \E j \in Jobs : Fetch(j) \/ Rescue(j) \/ Crash(j) \/ Abort(j) \/ Work(j)
  \/ \E n \in Steps : TaskEnds(n) \/ Handler(n)
  \/ \E n \in Steps, d \in {"approve", "reject"} : DecideCheck(n, d)
  \/ CancelRun \/ CancelJob
  \/ Reaper

\* River keeps fetching and rescuing jobs, a worker keeps executing its
\* attempt, the cluster finishes every TaskRun (a TaskRun has a timeout), a
\* handler that began finishes, and the reaper ticks.  Nobody has to decide,
\* to cancel, or to crash.
Fairness ==
  /\ \A j \in Jobs : WF_vars(Fetch(j)) /\ WF_vars(Rescue(j)) /\ WF_vars(Work(j))
  /\ \A n \in Steps : WF_vars(TaskEnds(n)) /\ WF_vars(Handler(n))
  /\ WF_vars(CancelJob) /\ WF_vars(Reaper)

Spec == Init /\ [][Next]_vars
FairSpec == Spec /\ Fairness

-----------------------------------------------------------------------------
(* Properties *)

Row == [status : InFlight \cup StepTerminal, approved : BOOLEAN, runName : 0 .. MaxTasks]

\* Rows, jobs and attempts have the shapes the schema and River give them; an
\* attempt number never passes MaxAttempts and a handler is always at a
\* statement of its own.
TypeOK ==
  /\ status \in InFlight \cup RunTerminal
  /\ jobID \in Jobs
  /\ step \in [Steps -> Row]
  /\ decision \in [Steps -> {"none", "approve", "reject"}]
  /\ \A n \in Steps : Len(task[n]) <= MaxTasks
  /\ job \in [Jobs -> [state : LiveJob \cup {"none", "completed", "cancelled", "discarded"},
                       attempt : 0 .. MaxAttempts, cancelled : BOOLEAN]]
  /\ pc \in [Jobs -> {"off", "loaded", "drive", "finish", "sweep", "return"}]
  /\ seen \in [Jobs -> [Steps -> Row]]
  /\ node \in [Jobs -> [Steps -> {"pending", "parked"} \cup Executing \cup StepTerminal]]
  /\ attached \in [Jobs -> [Steps -> 0 .. MaxTasks]]
  /\ ctxDone \in [Jobs -> BOOLEAN] /\ retryable \in [Jobs -> BOOLEAN]
  /\ final \in [Jobs -> RunTerminal \cup {"none", "suspended"}]
  /\ decide \in [Steps -> [at : {"idle", "approve", "reject", "insert", "setjob"},
                           job : 0 .. MaxJobs]]
  /\ canceller \in {"idle", "jobcancel", "done"}
  /\ reaper \in [at : {"idle", "stuck", "reaped", "expire", "fail", "sweep"}, expired : SUBSET Steps]

\* No attempt works on a settled run: every TaskRun is submitted while the
\* run is in flight.
NothingSubmittedAfterSettle ==
  [][(\E n \in Steps : Len(task'[n]) > Len(task[n])) => status \in InFlight]_vars

\* "In-flight TaskRuns re-attach, never double-submit": a step has at most
\* one active TaskRun on the cluster.
OneActiveTaskRun == \A n \in Steps : Cardinality(Active(n)) <= 1

\* The part of that promise Execute keeps: as long as the cluster answers, the
\* attempt after one crash re-attaches, wherever the crash fell.
RetryReattaches == crashes <= 1 /\ errors = 0 => OneActiveTaskRun

\* A gated step touches the cluster only after a human approved it; one that
\* was rejected never does.
GateHolds == \A n \in Gated : task[n] # << >> => decision[n] = "approve"

\* The dependency order holds across retries, crashes and resumes: a step is
\* submitted only when, in the database, every dependency has passed.
DependenciesFirst ==
  [][\A n \in Steps : Len(task'[n]) > Len(task[n]) =>
       \A d \in DependsOn[n] :
         /\ step[d].status \in {"succeeded", "failed"}
         /\ step[d].status = "failed" => d \in ContOnFail]_vars

Quiet ==
  /\ \A j \in Jobs : job[j].state \notin LiveJob
  /\ \A n \in Steps : decide[n].at = "idle"
  /\ canceller # "jobcancel" /\ reaper.at = "idle"

\* What a settled run reports is what its steps did: a run that succeeded has
\* no step that did not, and when nothing is left to act on a settled run every
\* step has settled.
SettledRunAccountsForItsSteps ==
  /\ status = "succeeded" => \A n \in Steps : step[n].status = "succeeded"
  /\ Quiet /\ status \in RunTerminal => \A n \in Steps : step[n].status \in StepTerminal

\* An execution always comes to an end: the run settles or waits for a human.
RunComesToRest == (status \in {"pending", "running"}) ~> (status \notin {"pending", "running"})

=============================================================================
