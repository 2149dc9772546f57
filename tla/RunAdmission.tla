----------------------------- MODULE RunAdmission -----------------------------
(***************************************************************************)
(* How runs of one application come into being: the in-flight gate and the *)
(* non-atomic path from a start request to a run with a job behind it.     *)
(*                                                                         *)
(* Sources: lib/workflows/runs.go (beginRun, assertNoRunInFlight,          *)
(* createRun, SetRunJob, MarkRun), scoped.go (BeginComponentRun),          *)
(* stateops.go (BeginStateOp), triggers.go (triggerRun), drift.go          *)
(* (ScheduleDueDriftChecks), lib/api/runs.go (StartRun, CancelRun),        *)
(* scoped_runs.go and state_ops.go.                                        *)
(*                                                                         *)
(* A starter is one call of one of these paths; the run it creates has its *)
(* name.  They run in several serve replicas and in the worker, and share  *)
(* only the database and the queue.  What a run does once its job executes *)
(* is WorkflowRun's subject: here it starts, parks, resumes and settles.   *)
(*                                                                         *)
(* The preview of a pull request also has a check run on GitHub, which the *)
(* start opens and whoever settles the run completes                       *)
(* (CompleteTriggerCheck, from the start, the worker and a cancel).        *)
(***************************************************************************)
EXTENDS Integers, FiniteSets

CONSTANTS
  Starters,        \* concurrent start requests
  PullRequests,    \* the starters that are a pull request's webhook; the others
                   \* are a user's request or the drift scheduler
  MaxQueueErrors,  \* bound: failing calls of the job queue
  MaxDBErrors,     \* bound: failing writes to the database
  MaxHubErrors,    \* bound: failing calls of GitHub
  MayCancel        \* a user may cancel runs

ASSUME RunAdmissionAssumption ==
  /\ PullRequests \subseteq Starters
  /\ MaxQueueErrors \in Nat /\ MaxDBErrors \in Nat /\ MaxHubErrors \in Nat
  /\ MayCancel \in BOOLEAN

Terminal == {"succeeded", "failed", "partial"}
InFlight == {"pending", "running", "awaiting_approval"}

Callers == {"start", "worker", "cancel"}  \* of CompleteTriggerCheck

VARIABLES
  row,        \* run -> its status, "none" before it is created
  recorded,   \* run -> job_id is set
  job,        \* run -> its job in the queue
  pc,         \* starter -> where the call is
  saw,        \* starter -> the runs that existed when it checked the gate (history)
  cancel,     \* run -> the cancel handler, and whether it read a job id
  check,      \* run -> its check run on GitHub
  checkID,    \* run -> who knows the check run's id: nobody, the starter
              \* that holds it, or everybody, once it is stored
  report,     \* <<run, caller>> -> where its CompleteTriggerCheck is
  qErrors, dbErrors, hubErrors

errorCounts == <<qErrors, dbErrors, hubErrors>>
checks == <<check, checkID, report>>
vars == <<row, recorded, job, pc, saw, cancel, check, checkID, report,
          qErrors, dbErrors, hubErrors>>

-----------------------------------------------------------------------------
(* Starting a run *)

Goto(c, label) == pc' = [pc EXCEPT ![c] = label]

\* k begins CompleteTriggerCheck, which does nothing for other runs.
Report(r, k) ==
  /\ report' = IF r \in PullRequests THEN [report EXCEPT ![<<r, k>>] = "load"] ELSE report
  /\ UNCHANGED <<check, checkID>>

\* MarkRun: a settled run is frozen.
MarkRun(r, s) == row' = [row EXCEPT ![r] = IF @ \in InFlight THEN s ELSE @]

\* Mutant: a parked run does not hold the gate.
GateStatuses_NotParked == {"pending", "running"}

GateStatuses == {"pending", "running", "awaiting_approval"}

\* assertNoRunInFlight, by a query of its own.
CheckGate(c) ==
  /\ pc[c] = "idle"
  /\ Goto(c, CASE \A r \in Starters : row[r] \notin GateStatuses -> "create"
               [] c \in PullRequests /\ (\E r \in Starters : row[r] \in GateStatuses) -> "neutral"
               [] OTHER -> "refused")
  /\ saw' = [saw EXCEPT ![c] = {r \in Starters : row[r] # "none"}]
  /\ UNCHANGED <<row, recorded, job, cancel, checks, errorCounts>>

HubFails == hubErrors < MaxHubErrors /\ hubErrors' = hubErrors + 1

\* "Not planned: another run is in progress".
PostRefused(c) ==
  /\ pc[c] = "neutral"
  /\ \/ check' = [check EXCEPT ![c] = "neutral"] /\ UNCHANGED hubErrors
     \/ HubFails /\ UNCHANGED check
  /\ Goto(c, "refused")
  /\ UNCHANGED <<row, recorded, job, saw, cancel, checkID, report, qErrors, dbErrors>>

\* createRun: the run and its steps, in one transaction.  The drift scheduler
\* has nothing to record about who started it.
CreateRun(c) ==
  /\ pc[c] = "create"
  /\ row' = [row EXCEPT ![c] = "pending"]
  /\ \/ c \in PullRequests /\ Goto(c, "open")
     \/ c \notin PullRequests /\ (Goto(c, "annotate") \/ Goto(c, "insert"))
  /\ UNCHANGED <<recorded, job, saw, cancel, checks, errorCounts>>

\* postCheck opens the check run; on an error, whether the check run exists or
\* not, the start goes on without its id.
OpenCheck(c) ==
  /\ pc[c] = "open"
  /\ \/ /\ check' = [check EXCEPT ![c] = "open"]
        /\ checkID' = [checkID EXCEPT ![c] = "held"]
        /\ UNCHANGED hubErrors
     \/ HubFails /\ check' \in {check, [check EXCEPT ![c] = "open"]} /\ UNCHANGED checkID
  /\ Goto(c, "annotate")
  /\ UNCHANGED <<row, recorded, job, saw, cancel, report, qErrors, dbErrors>>

\* recordRunStarter, SetRunTrigger (with the id of the check run),
\* SetRunStartedBy.
Annotate(c) ==
  /\ pc[c] = "annotate"
  /\ checkID' = [checkID EXCEPT ![c] = IF @ = "held" THEN "stored" ELSE @]
  /\ Goto(c, "insert")
  /\ UNCHANGED <<row, recorded, job, saw, cancel, check, report, errorCounts>>

\* Insert the executor job.
Insert(c) ==
  /\ pc[c] = "insert"
  /\ job' = [job EXCEPT ![c] = "available"]
  /\ Goto(c, "setjob")
  /\ UNCHANGED <<row, recorded, saw, cancel, checks, errorCounts>>

\* Mutant: the error is returned with the run left as it is.
AfterInsertError_Return == "failed"

AfterInsertError == "settle"

\* Insert reports an error, with the job stored or not.
InsertFails(c) ==
  /\ pc[c] = "insert"
  /\ qErrors < MaxQueueErrors /\ qErrors' = qErrors + 1
  /\ \/ UNCHANGED job
     \/ job' = [job EXCEPT ![c] = "available"]
  /\ Goto(c, AfterInsertError)
  /\ UNCHANGED <<row, recorded, saw, cancel, checks, dbErrors, hubErrors>>

DBFails == dbErrors < MaxDBErrors /\ dbErrors' = dbErrors + 1

\* "failed to enqueue": clear the gate again.  An error of this write is
\* dropped.
MarkFailed(c) ==
  /\ pc[c] = "settle"
  /\ \/ MarkRun(c, "failed") /\ UNCHANGED dbErrors
     \/ DBFails /\ UNCHANGED row
  /\ Goto(c, "failed")
  /\ Report(c, "start")
  /\ UNCHANGED <<recorded, job, saw, cancel, qErrors, hubErrors>>

SetRunJob(c) ==
  /\ pc[c] = "setjob"
  /\ recorded' = [recorded EXCEPT ![c] = TRUE]
  /\ Goto(c, "started")
  /\ UNCHANGED <<row, job, saw, cancel, checks, errorCounts>>

\* Any of these writes fails: the call returns the error and leaves what the
\* earlier steps did.
WriteFails(c) ==
  /\ pc[c] \in {"create", "annotate", "setjob"}
  /\ DBFails
  /\ Goto(c, "failed")
  /\ UNCHANGED <<row, recorded, job, saw, cancel, checks, qErrors, hubErrors>>

-----------------------------------------------------------------------------
(* The worker, seen from the gate *)

\* Work does not look at the run's status before it drives the steps.
Start(r) ==
  /\ job[r] = "available"
  /\ job' = [job EXCEPT ![r] = "running"]
  /\ MarkRun(r, "running")
  /\ UNCHANGED <<recorded, pc, saw, cancel, checks, errorCounts>>

\* A run settles, or parks at a gate; a preview has none.
Outcomes(r) == Terminal \cup (IF r \in PullRequests THEN {} ELSE {"awaiting_approval"})

Finish(r) ==
  /\ job[r] = "running"
  /\ job' = [job EXCEPT ![r] = "gone"]
  /\ \E s \in Outcomes(r) : MarkRun(r, s)
  /\ Report(r, "worker")
  /\ UNCHANGED <<recorded, pc, saw, cancel, errorCounts>>

\* A decision enqueues a resume job; nobody has to decide.
Resume(r) ==
  /\ row[r] = "awaiting_approval" /\ job[r] = "gone"
  /\ job' = [job EXCEPT ![r] = "available"]
  /\ UNCHANGED <<row, recorded, pc, saw, cancel, checks, errorCounts>>

-----------------------------------------------------------------------------
(* Cancel *)

CancelRun(r) ==
  /\ MayCancel /\ cancel[r] = "idle" /\ row[r] \in InFlight
  /\ row' = [row EXCEPT ![r] = "failed"]
  /\ cancel' = [cancel EXCEPT ![r] = IF recorded[r] THEN "jobcancel" ELSE "nojob"]
  /\ UNCHANGED <<recorded, job, pc, saw, checks, errorCounts>>

\* Stop the recorded job; best effort.
JobCancel(r) ==
  /\ cancel[r] = "jobcancel"
  /\ cancel' = [cancel EXCEPT ![r] = "report"]
  /\ \/ job' = [job EXCEPT ![r] = "gone"] /\ UNCHANGED qErrors
     \/ qErrors < MaxQueueErrors /\ qErrors' = qErrors + 1 /\ UNCHANGED job
  /\ UNCHANGED <<row, recorded, pc, saw, checks, dbErrors, hubErrors>>

\* Mutant: the check run is left to the worker.
ReportsCancel_Never(r) == FALSE

\* "the worker's settle path is bypassed by the cancel"
ReportsCancel(r) == cancel[r] \in {"nojob", "report"}

CancelReports(r) ==
  /\ ReportsCancel(r)
  /\ cancel' = [cancel EXCEPT ![r] = "done"]
  /\ Report(r, "cancel")
  /\ UNCHANGED <<row, recorded, job, pc, saw, errorCounts>>

-----------------------------------------------------------------------------
(* CompleteTriggerCheck *)

\* Mutant: whatever the run's status is, it is reported.
Reportable_Any(r) == checkID[r] = "stored"

Reportable(r) == checkID[r] = "stored" /\ row[r] \in Terminal

\* Load the run; without a stored check run, or with the run in flight, there
\* is nothing to complete.  An error is logged.
LoadCheck(r, k) ==
  /\ report[<<r, k>>] = "load"
  /\ \/ /\ report' = [report EXCEPT ![<<r, k>>] =
            IF ~ Reportable(r) THEN "idle" ELSE IF row[r] = "succeeded" THEN "success" ELSE "failure"]
        /\ UNCHANGED dbErrors
     \/ DBFails /\ report' = [report EXCEPT ![<<r, k>>] = "idle"]
  /\ UNCHANGED <<row, recorded, job, pc, saw, cancel, check, checkID, qErrors, hubErrors>>

\* postCheck updates the check run; an error is logged.
PostCheck(r, k) ==
  /\ report[<<r, k>>] \in {"success", "failure"}
  /\ \/ check' = [check EXCEPT ![r] = report[<<r, k>>]] /\ UNCHANGED hubErrors
     \/ HubFails /\ UNCHANGED check
  /\ report' = [report EXCEPT ![<<r, k>>] = "idle"]
  /\ UNCHANGED <<row, recorded, job, pc, saw, cancel, checkID, qErrors, dbErrors>>

-----------------------------------------------------------------------------
(* Specification *)

Init ==
  /\ row = [r \in Starters |-> "none"]
  /\ recorded = [r \in Starters |-> FALSE]
  /\ job = [r \in Starters |-> "none"]
  /\ pc = [c \in Starters |-> "idle"]
  /\ saw = [c \in Starters |-> {}]
  /\ cancel = [r \in Starters |-> "idle"]
  /\ check = [r \in Starters |-> "none"]
  /\ checkID = [r \in Starters |-> "none"]
  /\ report = [x \in Starters \X Callers |-> "idle"]
  /\ qErrors = 0 /\ dbErrors = 0 /\ hubErrors = 0

Starter(c) ==
  \/ PostRefused(c) \/ CreateRun(c) \/ OpenCheck(c) \/ Annotate(c)
  \/ Insert(c) \/ InsertFails(c) \/ MarkFailed(c)
  \/ SetRunJob(c) \/ WriteFails(c)

Worker(r) == Start(r) \/ Finish(r)

Canceller(r) == JobCancel(r) \/ CancelReports(r)

Reporter(r) == \E k \in Callers : LoadCheck(r, k) \/ PostCheck(r, k)

Next ==
  \E c \in Starters :
    \/ CheckGate(c) \/ Starter(c) \/ Worker(c) \/ Resume(c)
    \/ CancelRun(c) \/ Canceller(c) \/ Reporter(c)

\* A call that passed the gate goes on, a cancel that began goes on, and the
\* worker works its queue.
Fairness ==
  \A c \in Starters :
    WF_vars(Starter(c)) /\ WF_vars(Worker(c)) /\ WF_vars(Canceller(c)) /\ WF_vars(Reporter(c))

Spec == Init /\ [][Next]_vars
FairSpec == Spec /\ Fairness

-----------------------------------------------------------------------------
(* Properties *)

\* Runs, jobs and start calls are in states the code knows; no run settles with
\* a status the row does not allow.
TypeOK ==
  /\ row \in [Starters -> InFlight \cup Terminal \cup {"none"}]
  /\ recorded \in [Starters -> BOOLEAN]
  /\ job \in [Starters -> {"none", "available", "running", "gone"}]
  /\ pc \in [Starters -> {"idle", "neutral", "refused", "create", "open", "annotate",
                          "insert", "setjob", "settle", "failed", "started"}]
  /\ saw \in [Starters -> SUBSET Starters]
  /\ cancel \in [Starters -> {"idle", "jobcancel", "nojob", "report", "done"}]
  /\ check \in [Starters -> {"none", "open", "neutral", "success", "failure"}]
  /\ checkID \in [Starters -> {"none", "held", "stored"}]
  /\ report \in [Starters \X Callers -> {"idle", "load", "success", "failure"}]
  /\ qErrors \in 0 .. MaxQueueErrors /\ dbErrors \in 0 .. MaxDBErrors
  /\ hubErrors \in 0 .. MaxHubErrors

\* The gate works for every start that does not overlap another: when two runs
\* are in flight together, each of the two calls passed the gate before the
\* other one's run existed.
OnlyOverlappingStartsCollide ==
  \A a, b \in Starters :
    a # b /\ row[a] \in InFlight /\ row[b] \in InFlight => a \notin saw[b] /\ b \notin saw[a]

\* The gate reopens: a pending run gets a worker or is failed, also when the
\* queue refuses its job.  Only a start that lost a database write on its way
\* (between createRun and Insert, or in MarkRun) may leave its run pending.
PendingRunStarts ==
  \A r \in Starters :
    (row[r] = "pending") ~> (row[r] # "pending" \/ (pc[r] = "failed" /\ dbErrors > 0))

\* A pull request is told what its preview did: a check run that is completed
\* has the conclusion of the settled run, whoever completes it (the worker, a
\* cancel or the failed start may all do so, each from what it loaded before),
\* and the run keeps that outcome.
CheckAgrees ==
  \A r \in Starters :
    /\ check[r] = "success" => row[r] = "succeeded"
    /\ check[r] = "failure" => row[r] \in {"failed", "partial"}
    /\ check[r] = "neutral" => row[r] = "none"

\* A check run that was opened gets completed, wherever a cancel or a refused
\* job falls between opening it, storing its id, and settling the run.  Only
\* an error of GitHub or of the database may leave it open.
CheckGetsCompleted ==
  \A r \in Starters :
    (check[r] = "open") ~> (check[r] # "open" \/ hubErrors > 0 \/ dbErrors > 0)
=============================================================================
