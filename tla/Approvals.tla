------------------------------ MODULE Approvals ------------------------------
(***************************************************************************)
(* The approval gates of one run: who may open them, how N-of-M approvals  *)
(* are tallied by concurrent requests, and what the attempts of the run's  *)
(* jobs, the reapers and a cancel do to the same rows meanwhile.           *)
(*                                                                         *)
(* Sources: lib/workflows/runs.go (ApproveComponentRun, MarkRun,           *)
(* MarkComponentRun, SettleStuckComponentRuns), approvals.go               *)
(* (normalizeApprovalPolicy, approvalsRequired, ReapExpiredApprovals),     *)
(* recovery.go (CancelRun, ReapStuckRuns), worker.go (Work), lib/api/      *)
(* runs.go (decideComponentRun, CancelRun).                                *)
(*                                                                         *)
(* Requests run in several replicas and several jobs may drive the run;    *)
(* every query, every update and every transaction is an action.  The      *)
(* gated steps are on branches of their own.  A person stands for an email *)
(* address up to letter case, which is how the code compares them.         *)
(***************************************************************************)
EXTENDS Integers, Sequences, FiniteSets

CONSTANTS
  Users,      \* people with the editor role
  Gates,      \* the steps of the run; each waits behind a gate
  Requests,   \* approve and reject requests in flight at the same time
  StartedBy,  \* who started the run, "" for a scheduled run
  Policies,   \* the approval policies a step may have been saved with
  MayCancel,  \* a user may cancel the run
  MaxJobs,    \* bound: executor jobs of the run, the one that starts it included
  Failures    \* bound: attempts that are killed or end in a transient error

\* What normalizeApprovalPolicy lets pass; timeout: TimeoutMinutes > 0.
ValidPolicy(p) ==
  /\ p.approvers \subseteq Users /\ p.required \in Nat
  /\ p.approvers # {} => p.required <= Cardinality(p.approvers)
  /\ p.different \in BOOLEAN /\ p.timeout \in BOOLEAN

ASSUME ApprovalsAssumption ==
  /\ IsFiniteSet(Users)
  /\ \A p \in Policies : ValidPolicy(p)
  /\ MayCancel \in BOOLEAN
  /\ MaxJobs \in Nat \ {0}
  /\ Failures \in Nat

InFlight == {"pending", "running", "awaiting_approval"}
\* What a request may ask for.  Any editor may reject, so who does is left out.
Asks == [decision : {"approve"}, gate : Gates, user : Users]
          \cup [decision : {"reject"}, gate : Gates]
Jobs == 1 .. MaxJobs

VARIABLES
  run,       \* workflow_runs.status
  step,      \* component_runs: gate -> [status, approved (approved_at is set), tally]
  policy,    \* gate -> its policy in the run's snapshot
  old,       \* the gates whose updated_at lies a timeout back
  acked,     \* gate -> the people whose approval was stored (history)
  rejected,  \* the gates somebody has rejected (history)
  req,       \* request -> where it is and what it has read
  job,       \* executor job -> where its attempt is and what became of the nodes
  recorded,  \* workflow_runs.job_id
  cancelling,  \* a cancel has yet to stop the job on record
  reap,      \* the sweep of the reapers, and the steps it has to fail
  failures   \* attempts that have failed so far

vars == <<run, step, policy, old, acked, rejected, req, job, recorded, cancelling, reap, failures>>

Idle == [pc |-> "idle"]

\* A job without an attempt under way.
Without(pc) == [pc |-> pc, node |-> [g \in Gates |-> "none"]]

-----------------------------------------------------------------------------
(* The policy *)

\* At least one.
approvalsRequired(p) == IF p.required < 1 THEN 1 ELSE p.required

\* ErrNotAnApprover, ErrSelfApproval.
MayApprove(p, u) ==
  /\ p.approvers # {} => u \in p.approvers
  /\ p.different => u # StartedBy

\* Mutant: nobody looks for an earlier approval.
AlreadyApproved_Never(tally, u) == FALSE

\* ErrAlreadyApproved.
AlreadyApproved(tally, u) == \E i \in DOMAIN tally : tally[i].by = u

\* Mutant: earlier approvals are not parsed.
WithApproval_Alone(tally, u, at) == <<[by |-> u, at |-> at]>>

\* The tally with one more approval.  Its time stands as the people whose
\* approval had been stored by then.
WithApproval(tally, u, at) == Append(tally, [by |-> u, at |-> at])

-----------------------------------------------------------------------------
(* ApproveComponentRun *)

\* The run must be parked.
ReadRun(r, q) ==
  /\ req[r] = Idle /\ run = "awaiting_approval"
  /\ req' = [req EXCEPT ![r] = [pc |-> "read", ask |-> q]]
  /\ UNCHANGED <<run, step, policy, old, acked, rejected, job, recorded, cancelling, reap, failures>>

\* The tally a request will write, from the step it has read; a rejection writes none.
Tally(q, s) ==
  IF q.decision = "approve" THEN WithApproval(s.tally, q.user, acked[q.gate]) ELSE <<>>

\* The step must be parked, and an approval within its policy; otherwise the
\* request returns an error.
ReadStep(r) ==
  /\ req[r].pc = "read"
  /\ LET q == req[r].ask
         s == step[q.gate]
         allowed == q.decision = "approve" =>
                      /\ MayApprove(policy[q.gate], q.user)
                      /\ ~ AlreadyApproved(s.tally, q.user)
     IN  req' = [req EXCEPT ![r] =
           IF s.status = "awaiting_approval" /\ allowed
             THEN [pc |-> "write", ask |-> q, tally |-> Tally(q, s)]
             ELSE Idle]
  /\ UNCHANGED <<run, step, policy, old, acked, rejected, job, recorded, cancelling, reap, failures>>

\* Mutant: the update is keyed by id alone.
StillParked_ById(g) == TRUE

\* The update's predicate.
StillParked(g) == step[g].status = "awaiting_approval"

Complete(w) == Len(w.tally) >= approvalsRequired(policy[w.ask.gate])

Writes(r, decision) ==
  /\ req[r].pc = "write" /\ req[r].ask.decision = decision
  /\ StillParked(req[r].ask.gate)

\* The update of an approval: the whole tally, and the status once it is
\* complete.
Approve(r) ==
  /\ Writes(r, "approve")
  /\ LET w == req[r]
         g == w.ask.gate
     IN  /\ step' = [step EXCEPT ![g] =
              [status |-> IF Complete(w) THEN "pending" ELSE @.status,
               approved |-> @.approved \/ Complete(w),
               tally |-> w.tally]]
         /\ old' = old \ {g}
         /\ acked' = [acked EXCEPT ![g] = @ \cup {w.ask.user}]
         /\ req' = [req EXCEPT ![r] = IF Complete(w) THEN [pc |-> "enqueue"] ELSE Idle]
  /\ UNCHANGED <<run, policy, rejected, job, recorded, cancelling, reap, failures>>

\* The update of a rejection; it stamps approved_at as an approval does.
RejectThen(r, next) ==
  /\ Writes(r, "reject")
  /\ LET g == req[r].ask.gate IN
     /\ step' = [step EXCEPT ![g] = [@ EXCEPT !.status = "failed", !.approved = TRUE]]
     /\ old' = old \ {g}
     /\ rejected' = rejected \cup {g}
  /\ req' = [req EXCEPT ![r] = next]
  /\ UNCHANGED <<run, policy, acked, job, recorded, cancelling, reap, failures>>

\* Mutant: only an approval resumes the run.
Reject_Alone(r) == RejectThen(r, Idle)

Reject(r) == RejectThen(r, [pc |-> "enqueue"])

\* The update finds no row: ErrNotAwaitingApproval.
TooLate(r) ==
  /\ req[r].pc = "write" /\ ~ StillParked(req[r].ask.gate)
  /\ req' = [req EXCEPT ![r] = Idle]
  /\ UNCHANGED <<run, step, policy, old, acked, rejected, job, recorded, cancelling, reap, failures>>

\* decideComponentRun inserts a job that resumes the run ...
Enqueue(r) ==
  /\ req[r].pc = "enqueue"
  /\ \E j \in Jobs :
       /\ job[j].pc = "none" /\ \A i \in 1 .. j - 1 : job[i].pc # "none"
       /\ job' = [job EXCEPT ![j] = Without("queued")]
       /\ req' = [req EXCEPT ![r] = [pc |-> "record", job |-> j]]
  /\ UNCHANGED <<run, step, policy, old, acked, rejected, recorded, cancelling, reap, failures>>

\* ... and records its id: SetRunJob.
Record(r) ==
  /\ req[r].pc = "record"
  /\ recorded' = req[r].job
  /\ req' = [req EXCEPT ![r] = Idle]
  /\ UNCHANGED <<run, step, policy, old, acked, rejected, job, cancelling, reap, failures>>

-----------------------------------------------------------------------------
(* An attempt of a job: Work *)

MarkRun(s) == run' = IF run \in InFlight THEN s ELSE run

\* An update of rows, which also stamps updated_at of those it changes.
Update(rows) ==
  /\ step' = rows
  /\ old' = {g \in old : rows[g] = step[g]}

\* Whatever the row's status is.
MarkComponentRun(g, s) ==
  /\ step' = [step EXCEPT ![g].status = s]
  /\ old' = old \ {g}

\* SettleStuckComponentRuns: every step that is in flight.
Settled(s) == [g \in Gates |-> IF s[g].status \in InFlight
                                 THEN [s[g] EXCEPT !.status = "skipped"] ELSE s[g]]

\* What the scheduler will do with a node, from the row as it was loaded: park
\* it, run it, or take over the result of an earlier attempt.
Loaded(s) ==
  IF ~ s.approved THEN "gated"
  ELSE IF s.status \in InFlight THEN "open" ELSE s.status

At(j, pc) == job[j].pc = pc
Goto(j, pc) == job' = [job EXCEPT ![j].pc = pc]
Leave(j, pc) == job' = [job EXCEPT ![j] = Without(pc)]
Becomes(j, g, n) == job' = [job EXCEPT ![j].node[g] = n]

\* The only time an attempt reads the rows.
Load(j) ==
  /\ At(j, "queued")
  /\ job' = [job EXCEPT ![j] = [pc |-> "loaded", node |-> [g \in Gates |-> Loaded(step[g])]]]
  /\ UNCHANGED <<run, step, old>>

\* Its error is ignored: a run that has settled meanwhile is driven all the same.
MarkRunning(j) ==
  /\ At(j, "loaded") /\ Goto(j, "driving")
  /\ MarkRun("running")
  /\ UNCHANGED <<step, old>>

\* onState of a gate that was not approved when the attempt loaded it.
Park(j, g) ==
  /\ At(j, "driving") /\ job[j].node[g] = "gated"
  /\ Becomes(j, g, "parked") /\ MarkComponentRun(g, "awaiting_approval")
  /\ UNCHANGED run

\* runComponent begins ...
Launch(j, g) ==
  /\ At(j, "driving") /\ job[j].node[g] = "open"
  /\ Becomes(j, g, "running") /\ MarkComponentRun(g, "running")
  /\ UNCHANGED run

\* ... and ends.
Result(j, g) ==
  /\ At(j, "driving") /\ job[j].node[g] = "running"
  /\ \E s \in {"succeeded", "failed"} : Becomes(j, g, s) /\ MarkComponentRun(g, s)
  /\ UNCHANGED run

Drained(j) ==
  /\ At(j, "driving")
  /\ \A g \in Gates : job[j].node[g] \notin {"gated", "open", "running"}
Failed(j) == \E g \in Gates : job[j].node[g] = "failed"
Suspended(j) == ~ Failed(j) /\ \E g \in Gates : job[j].node[g] = "parked"

\* The attempt has ended.  River completes the job, or does not learn of it and
\* runs the job again.
End(j) ==
  \/ Leave(j, "done") /\ UNCHANGED failures
  \/ failures < Failures /\ failures' = failures + 1 /\ Leave(j, "queued")

\* The run waits for its gates.
Suspend(j) ==
  /\ Drained(j) /\ Suspended(j) /\ End(j)
  /\ MarkRun("awaiting_approval")
  /\ UNCHANGED <<step, old>>

\* The run is over.  A failure outranks a gate that is still parked, which the
\* sweep then skips.
Finish(j) ==
  /\ Drained(j) /\ ~ Suspended(j)
  /\ \/ Failed(j) /\ MarkRun("failed") /\ Leave(j, "sweep") /\ UNCHANGED failures
     \/ ~ Failed(j) /\ MarkRun("succeeded") /\ End(j)
  /\ UNCHANGED <<step, old>>

Sweep(j) ==
  /\ At(j, "sweep") /\ End(j)
  /\ Update(Settled(step))
  /\ UNCHANGED run

Drive(j) ==
  /\ \/ /\ \/ Load(j) \/ MarkRunning(j)
           \/ \E g \in Gates : Park(j, g) \/ Launch(j, g) \/ Result(j, g)
        /\ UNCHANGED failures
     \/ Suspend(j) \/ Finish(j) \/ Sweep(j)
  /\ UNCHANGED <<policy, acked, rejected, req, recorded, cancelling, reap>>

Live(j) == job[j].pc \notin {"none", "done", "discarded"}

\* The attempt is killed or aborted, or returns a transient error: River runs the
\* job again, unless this was its last attempt.  A panic, and an abort of the last
\* attempt, fail the run.
Fail(j) ==
  /\ job[j].pc \in {"loaded", "driving", "sweep"} /\ failures < Failures
  /\ \/ \E pc \in {"queued", "discarded"} : Leave(j, pc) /\ UNCHANGED run
     \/ \E pc \in {"queued", "discarded", "sweep"} : Leave(j, pc) /\ MarkRun("failed")
  /\ failures' = failures + 1
  /\ UNCHANGED <<step, policy, old, acked, rejected, req, recorded, cancelling, reap>>

-----------------------------------------------------------------------------
(* CancelRun *)

\* The run and its steps, in one transaction.
CancelRun ==
  /\ MayCancel /\ run \in InFlight
  /\ run' = "failed"
  /\ Update([g \in Gates |-> IF step[g].status \in InFlight
                                THEN [step[g] EXCEPT !.status = "failed"] ELSE step[g]])
  /\ cancelling' = TRUE
  /\ UNCHANGED <<policy, acked, rejected, req, job, recorded, reap, failures>>

\* Then the job on record is stopped, if there still is one.  Best effort: it may
\* never happen.
JobCancel ==
  /\ cancelling /\ cancelling' = FALSE
  /\ IF Live(recorded) THEN Leave(recorded, "discarded") ELSE UNCHANGED job
  /\ UNCHANGED <<run, step, policy, old, acked, rejected, req, recorded, reap, failures>>

-----------------------------------------------------------------------------
(* RunReaper: ReapStuckRuns and ReapExpiredApprovals, one after the other *)

\* A run that is running although its job on record is gone.  The age limit is
\* longer than an attempt may take, and an attempt stamps started_at when it marks
\* the run running: none of those is still at work.
StuckFind ==
  /\ reap.pc = "idle" /\ run = "running" /\ ~ Live(recorded)
  /\ \A j \in Jobs : job[j].pc \in {"none", "queued", "loaded", "done", "discarded"}
  /\ reap' = [pc |-> "stuck", todo |-> {}]
  /\ UNCHANGED <<run, step, old>>

StuckRun ==
  /\ reap.pc = "stuck"
  /\ MarkRun("failed")
  /\ reap' = [pc |-> IF run \in InFlight THEN "abandon" ELSE "idle", todo |-> {}]
  /\ UNCHANGED <<step, old>>

\* The parked steps are left as they are.
StuckSteps ==
  /\ reap.pc = "abandon"
  /\ Update([g \in Gates |-> IF step[g].status \in {"pending", "running"}
                                THEN [step[g] EXCEPT !.status = "failed"] ELSE step[g]])
  /\ reap' = [pc |-> "idle", todo |-> {}]
  /\ UNCHANGED run

\* A gate has not changed for as long as its policy allows.
Age(g) ==
  /\ step[g].status = "awaiting_approval" /\ policy[g].timeout
  /\ old' = old \cup {g}
  /\ UNCHANGED <<run, step, policy, acked, rejected, req, job, recorded, cancelling, reap, failures>>

ReapFind ==
  /\ reap.pc = "idle" /\ run = "awaiting_approval"
  /\ reap' = [pc |-> "steps", todo |-> {}]
  /\ UNCHANGED <<run, step, old>>

ReapSteps ==
  /\ reap.pc = "steps"
  /\ LET expired == {g \in old : step[g].status = "awaiting_approval"}
     IN  reap' = [pc |-> IF expired = {} THEN "idle" ELSE "fail", todo |-> expired]
  /\ UNCHANGED <<run, step, old>>

\* Whether the update still found the step parked does not matter to the code.
ReapFail(g) ==
  /\ reap.pc = "fail" /\ g \in reap.todo
  /\ Update([step EXCEPT ![g].status = IF @ = "awaiting_approval" THEN "failed" ELSE @])
  /\ reap' = [pc |-> IF reap.todo = {g} THEN "run" ELSE "fail", todo |-> reap.todo \ {g}]
  /\ UNCHANGED run

\* "approval timed out"; a run that settled meanwhile is left alone.
ReapRun ==
  /\ reap.pc = "run"
  /\ MarkRun("failed")
  /\ reap' = [pc |-> IF run \in InFlight THEN "settle" ELSE "idle", todo |-> {}]
  /\ UNCHANGED <<step, old>>

ReapSettle ==
  /\ reap.pc = "settle"
  /\ Update(Settled(step))
  /\ reap' = [pc |-> "idle", todo |-> {}]
  /\ UNCHANGED run

Reap ==
  /\ \/ StuckFind \/ StuckRun \/ StuckSteps
     \/ ReapFind \/ ReapSteps \/ (\E g \in Gates : ReapFail(g)) \/ ReapRun \/ ReapSettle
  /\ UNCHANGED <<policy, acked, rejected, req, job, recorded, cancelling, failures>>

-----------------------------------------------------------------------------
(* Specification *)

\* The run has been started and its job inserted and recorded.
Init ==
  /\ run = "pending"
  /\ step = [g \in Gates |-> [status |-> "pending", approved |-> FALSE, tally |-> <<>>]]
  /\ policy \in [Gates -> Policies]
  /\ old = {}
  /\ acked = [g \in Gates |-> {}]
  /\ rejected = {}
  /\ req = [r \in Requests |-> Idle]
  /\ job = [j \in Jobs |-> Without(IF j = 1 THEN "queued" ELSE "none")]
  /\ recorded = 1
  /\ cancelling = FALSE
  /\ reap = [pc |-> "idle", todo |-> {}]
  /\ failures = 0

Serve(r) ==
  ReadStep(r) \/ Approve(r) \/ Reject(r) \/ TooLate(r) \/ Enqueue(r) \/ Record(r)

Next ==
  \/ \E r \in Requests :
       Serve(r) \/ \E q \in Asks : ReadRun(r, q)
  \/ \E j \in Jobs : Drive(j) \/ Fail(j)
  \/ CancelRun \/ JobCancel \/ Reap
  \/ \E g \in Gates : Age(g)

Spec == Init /\ [][Next]_vars

\* Requests are served, jobs are worked on, a reaper that has found a run deals
\* with it, and everybody who may approve keeps coming back until there is nothing
\* left to approve.
Fairness ==
  /\ \A r \in Requests : WF_vars(Serve(r))
  /\ \A j \in Jobs : WF_vars(Drive(j))
  /\ WF_vars(Reap /\ reap.pc # "idle")
  /\ \A q \in Asks : q.decision = "approve" =>
       SF_vars(\E r \in Requests :
                 ReadRun(r, q) /\ ~ AlreadyApproved(step[q.gate].tally, q.user))

FairSpec == Spec /\ Fairness

-----------------------------------------------------------------------------
(* Properties *)

Entries == [by : Users, at : SUBSET Users]
StepStatuses == {"pending", "running", "awaiting_approval", "succeeded", "failed", "skipped"}
Rows == [status : StepStatuses, approved : BOOLEAN, tally : Seq(Entries)]
ReadRequest == [pc : {"read"}, ask : Asks]
WriteRequest == [pc : {"write"}, ask : Asks, tally : Seq(Entries)]
RecordRequest == [pc : {"record"}, job : Jobs]
JobPcs == {"none", "queued", "loaded", "driving", "sweep", "done", "discarded"}
NodeStates == {"none", "gated", "open", "running", "parked", "succeeded", "failed", "skipped"}

\* Rows, requests, attempts and the sweep are in states the code knows.
TypeOK ==
  /\ run \in {"pending", "running", "awaiting_approval", "succeeded", "failed"}
  /\ step \in [Gates -> Rows]
  /\ policy \in [Gates -> Policies]
  /\ old \subseteq Gates
  /\ acked \in [Gates -> SUBSET Users]
  /\ rejected \subseteq Gates
  /\ req \in [Requests -> [pc : {"idle", "enqueue"}] \cup ReadRequest \cup WriteRequest
                          \cup RecordRequest]
  /\ job \in [Jobs -> [pc : JobPcs, node : [Gates -> NodeStates]]]
  /\ recorded \in Jobs
  /\ cancelling \in BOOLEAN
  /\ reap \in [pc : {"idle", "stuck", "abandon", "steps", "fail", "run", "settle"},
               todo : SUBSET Gates]
  /\ failures \in 0 .. Failures

\* As many different people as the policy asks for, all of them allowed to, have
\* approved.
Quorum(g) ==
  Cardinality({u \in acked[g] : MayApprove(policy[g], u)}) >= approvalsRequired(policy[g])

\* A step that nobody rejected runs only behind a full quorum (ApproveComponentRun),
\* however the requests that tally it interleave, however often one person sends
\* them, and whatever attempts load, park and run the step meanwhile.
OpensOnlyByQuorum ==
  \A g \in Gates \ rejected :
    (step[g].approved \/ step[g].status \in {"running", "succeeded"}) => Quorum(g)

\* A stored approval that the tally has lost was overwritten by a request that
\* had read the tally before it: approvals made one after the other all count.
OnlyOverlappingApprovalsAreLost ==
  \A g \in Gates : \A u \in acked[g] :
    LET t == step[g].tally IN
    ~ AlreadyApproved(t, u) => \E i \in DOMAIN t : u \notin t[i].at

\* The attempt of job j holds that it still has to park or run g, or to end it.
Holds(j, g) == At(j, "driving") /\ job[j].node[g] \in {"gated", "open", "running"}

\* A step that was rejected, cancelled, timed out or skipped, or has failed, stays
\* so, whatever decisions, cancels and reapers are still on their way.  Only an
\* attempt that loaded the step earlier, or before anybody decided on it, may
\* still write what it holds (MarkComponentRun).
DecisionIsFinal ==
  [][\A g \in Gates :
       step[g].status \in {"failed", "skipped"} /\ step'[g] # step[g] =>
         \E j \in Jobs : Holds(j, g) /\ job'[j] # job[j]]_vars

\* When everybody who may approve keeps approving, a parked run does not stay in
\* flight for ever: approvals that overwrite each other cannot go on doing so, a
\* rejection resumes the run as an approval does, and an attempt that parks a
\* decided step again does not undo that.  (Unless a job was given up.)
ParkedRunEnds ==
  (run = "awaiting_approval") ~> (run \notin InFlight \/ \E j \in Jobs : At(j, "discarded"))

=============================================================================
