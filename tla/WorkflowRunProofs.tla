-------------------------- MODULE WorkflowRunProofs --------------------------
(***************************************************************************)
(* Proofs about WorkflowRun, for any number of steps, jobs, attempts,      *)
(* TaskRuns, crashes and errors.                                           *)
(***************************************************************************)
EXTENDS WorkflowRun, FiniteSetTheorems, WellFoundedInduction, TLAPS

Phases == {"active", "succeeded", "failed"}
JobStates == LiveJob \cup {"none", "completed", "cancelled", "discarded"}
NodeStates == {"pending", "parked"} \cup Executing \cup StepTerminal

-----------------------------------------------------------------------------
(* The inductive invariant behind TypeOK, one part per group of variables *)

RowsOK ==
  /\ status \in InFlight \cup RunTerminal
  /\ jobID \in Jobs
  /\ step \in [Steps -> Row]
  /\ decision \in [Steps -> {"none", "approve", "reject"}]

TasksOK ==
  /\ task \in [Steps -> Seq(Phases)]
  /\ \A n \in Steps : Len(task[n]) <= MaxTasks

\* Jobs are inserted in order, and a job that waits to be fetched has an
\* attempt left.
QueueOK ==
  /\ job \in [Jobs -> [state : JobStates, attempt : 0 .. MaxAttempts, cancelled : BOOLEAN]]
  /\ \A j \in Jobs : job[j].state \in {"available", "retryable"} => job[j].attempt < MaxAttempts
  /\ \A j \in Jobs : job[j].state = "none" => job[j].attempt = 0
  /\ \E k \in Jobs : \A j \in Jobs : job[j].state # "none" <=> j <= k

\* An attempt past schedule() has an outcome.
AttemptsOK ==
  /\ pc \in [Jobs -> {"off", "loaded", "drive", "finish", "sweep", "return"}]
  /\ seen \in [Jobs -> [Steps -> Row]]
  /\ node \in [Jobs -> [Steps -> NodeStates]]
  /\ attached \in [Jobs -> [Steps -> 0 .. MaxTasks]]
  /\ ctxDone \in [Jobs -> BOOLEAN] /\ retryable \in [Jobs -> BOOLEAN]
  /\ final \in [Jobs -> RunTerminal \cup {"none", "suspended"}]
  /\ \A j \in Jobs : pc[j] \in {"finish", "sweep", "return"} => final[j] # "none"

\* An attempt that waits for a TaskRun waits for one that was submitted.
AttachedOK ==
  \A j \in Jobs, n \in Steps : node[j][n] = "await" => attached[j][n] \in 1 .. Len(task[n])

\* What is "named" has just been submitted.
NamedOK ==
  \A j \in Jobs, n \in Steps : node[j][n] = "named" => attached[j][n] \in 1 .. Len(task[n])

\* A handler that is going to record a job has inserted it.
HandlersOK ==
  /\ decide \in [Steps -> [at : {"idle", "approve", "reject", "insert", "setjob"},
                           job : 0 .. MaxJobs]]
  /\ \A n \in Steps : decide[n].at = "setjob" => decide[n].job \in Jobs
  /\ canceller \in {"idle", "jobcancel", "done"}
  /\ reaper \in [at : {"idle", "stuck", "reaped", "expire", "fail", "sweep"}, expired : SUBSET Steps]

\* Only a running job has an attempt.
RunningOK == \A j \in Jobs : pc[j] # "off" => job[j].state = "running"

TypeInv ==
  /\ RowsOK /\ TasksOK /\ QueueOK /\ AttemptsOK /\ HandlersOK
  /\ AttachedOK /\ NamedOK /\ RunningOK

\* TypeInv has the types that TypeOK states.
LEMMA TypeInvImpliesTypeOK == TypeInv => TypeOK
  BY DEF TypeInv, TypeOK, RowsOK, TasksOK, QueueOK, AttemptsOK, HandlersOK, JobStates, NodeStates

-----------------------------------------------------------------------------
(* Frames: a part of TypeInv survives a step that leaves its variables alone *)

\* The rows.
LEMMA RowsFrame == ASSUME RowsOK, UNCHANGED rows PROVE RowsOK'
  BY DEF RowsOK, rows

\* The TaskRuns.
LEMMA TasksFrame == ASSUME TasksOK, UNCHANGED task PROVE TasksOK'
  BY DEF TasksOK

\* The queue.
LEMMA QueueFrame == ASSUME QueueOK, UNCHANGED job PROVE QueueOK'
  BY DEF QueueOK

\* The attempts.
LEMMA AttemptsFrame == ASSUME AttemptsOK, UNCHANGED attempt PROVE AttemptsOK'
  BY DEF AttemptsOK, attempt

\* What an attempt waits for.
LEMMA AttachedFrame ==
  ASSUME AttachedOK, NamedOK, UNCHANGED <<node, attached, task>> PROVE AttachedOK' /\ NamedOK'
  BY DEF AttachedOK, NamedOK

\* The job of an attempt.
LEMMA RunningFrame == ASSUME RunningOK, UNCHANGED <<pc, job>> PROVE RunningOK'
  BY DEF RunningOK

\* The handlers.
LEMMA HandlersFrame == ASSUME HandlersOK, UNCHANGED handlers PROVE HandlersOK'
  BY DEF HandlersOK, handlers

-----------------------------------------------------------------------------
(* Row updates *)

\* MarkRun writes a status of a run.
LEMMA MarkRunType ==
  ASSUME RowsOK, NEW s \in InFlight \cup RunTerminal, MarkRun(s)
  PROVE  status' \in InFlight \cup RunTerminal
  BY DEF RowsOK, MarkRun

\* MarkComponentRun writes a row.
LEMMA MarkComponentRunType ==
  ASSUME RowsOK, NEW j \in Jobs, NEW n \in Steps, NEW s \in InFlight \cup StepTerminal,
         NEW t \in 0 .. MaxTasks, MarkComponentRun(j, n, s, t)
  PROVE  step' \in [Steps -> Row]
  BY DEF RowsOK, MarkComponentRun, Row

\* A sweep over the steps writes rows.
LEMMA SweepStepsType ==
  ASSUME RowsOK, NEW from, NEW to \in InFlight \cup StepTerminal
  PROVE  SweepSteps(step, from, to) \in [Steps -> Row]
  BY DEF RowsOK, SweepSteps, Row

\* A non-empty set of naturals has a least element.
LEMMA LeastOf ==
  ASSUME NEW T \in SUBSET Nat, T # {}
  PROVE  \E x \in T : \A y \in T : x <= y
<1>1. IsWellFoundedOn(OpToRel(<, Nat), Nat)
  BY NatLessThanWellFounded
<1>2. PICK x \in T : \A y \in T : ~ (<<y, x>> \in OpToRel(<, Nat))
  BY <1>1, WFMin
<1>3. ASSUME NEW y \in T PROVE x <= y
  <2>1. ~ (<<y, x>> \in {p \in Nat \X Nat : p[1] < p[2]})
    BY <1>2, Zenon DEF OpToRel
  <2>2. y \in Nat /\ x \in Nat
    OBVIOUS
  <2>3. y < x => <<y, x>> \in {p \in Nat \X Nat : p[1] < p[2]}
    BY <2>2
  <2> QED
    BY <2>1, <2>2, <2>3
<1> QED
  BY <1>3

\* A bounded one has a greatest element.
LEMMA GreatestOf ==
  ASSUME NEW b \in Nat, NEW T \in SUBSET (0 .. b), T # {}
  PROVE  \E x \in T : \A y \in T : y <= x
<1> DEFINE D == {b - t : t \in T}
<1>1. D \in SUBSET Nat /\ D # {}
  <2>1. \A t \in T : b - t \in Nat
    OBVIOUS
  <2>2. PICK t \in T : TRUE
    OBVIOUS
  <2>3. b - t \in D
    OBVIOUS
  <2> QED
    BY <2>1, <2>3
<1>2. PICK d \in D : \A e \in D : d <= e
  BY <1>1, LeastOf
<1>3. PICK x \in T : d = b - x
  OBVIOUS
<1>4. ASSUME NEW y \in T PROVE y <= x
  <2>1. b - y \in D
    OBVIOUS
  <2>2. b - x <= b - y
    BY <1>2, <1>3, <2>1
  <2> QED
    BY <2>2
<1> QED
  BY <1>4

\* The TaskRun that Execute finds is one that was submitted, or none.
LEMMA CandidateType ==
  ASSUME TypeInv, NEW j \in Jobs, NEW n \in Steps
  PROVE  /\ Active(n) \subseteq 1 .. Len(task[n])
         /\ Candidate(j, n) \in 0 .. MaxTasks
<1>1. task[n] \in Seq(Phases) /\ Len(task[n]) <= MaxTasks /\ Len(task[n]) \in Nat /\ MaxTasks \in Nat
  BY WorkflowRunAssumption DEF TypeInv, TasksOK
<1>2. Active(n) \subseteq 1 .. Len(task[n])
  BY <1>1 DEF Active
<1>3. Active(n) \in SUBSET (0 .. MaxTasks)
  BY <1>1, <1>2
<1>4. seen[j][n].runName \in 0 .. MaxTasks
  BY DEF TypeInv, AttemptsOK, Row
<1>5. CASE seen[j][n].runName # 0
  BY <1>2, <1>4, <1>5 DEF Candidate
<1>6. CASE seen[j][n].runName = 0 /\ Active(n) # {}
  <2>1. \E t \in Active(n) : \A u \in Active(n) : u <= t
    BY <1>1, <1>3, <1>6, GreatestOf
  <2>2. (CHOOSE t \in Active(n) : \A u \in Active(n) : u <= t) \in Active(n)
    BY <2>1
  <2> QED
    BY <1>2, <1>3, <1>6, <2>2 DEF Candidate
<1>7. CASE seen[j][n].runName = 0 /\ Active(n) = {}
  BY <1>1, <1>2, <1>7 DEF Candidate
<1> QED
  BY <1>5, <1>6, <1>7

\* The name that Execute returns with an error is a name.
LEMMA KnownRunType ==
  ASSUME TypeInv, NEW j \in Jobs, NEW n \in Steps PROVE KnownRun(j, n) \in 0 .. MaxTasks
  BY CandidateType DEF TypeInv, AttemptsOK, KnownRun

-----------------------------------------------------------------------------
(* The queue *)

\* Insert takes the first unused job.
LEMMA InsertTakesNext ==
  ASSUME QueueOK, NextJob \in Jobs
  PROVE  /\ job[NextJob].state = "none"
         /\ \A j \in Jobs : job[j].state # "none" <=> j < NextJob
<1>1. PICK k \in Jobs : \A j \in Jobs : job[j].state # "none" <=> j <= k
  BY DEF QueueOK
<1>2. k \in Nat /\ k >= 1 /\ k <= MaxJobs /\ MaxJobs \in Nat
  BY WorkflowRunAssumption DEF Jobs
<1>3. {j \in Jobs : job[j].state # "none"} = 1 .. k
  BY <1>1, <1>2 DEF Jobs
<1>4. Cardinality(1 .. k) = k
  BY <1>2, FS_Interval
<1>5. NextJob = k + 1
  BY <1>3, <1>4 DEF NextJob
<1> QED
  BY <1>1, <1>2, <1>5 DEF Jobs

\* Insert keeps the queue in order.
LEMMA InsertKeepsQueue ==
  ASSUME QueueOK, NextJob \in Jobs, Insert PROVE QueueOK'
<1> DEFINE m == NextJob
<1>1. job[m].state = "none" /\ \A j \in Jobs : job[j].state # "none" <=> j < m
  BY InsertTakesNext
<1>2. job' = [job EXCEPT ![m].state = "available"]
  BY DEF Insert
<1>3. m \in Jobs
  OBVIOUS
<1> HIDE DEF m
<1>4. /\ job' \in [Jobs -> [state : JobStates, attempt : 0 .. MaxAttempts, cancelled : BOOLEAN]]
      /\ \A j \in Jobs : j # m => job'[j] = job[j]
      /\ job'[m].state = "available" /\ job'[m].attempt = job[m].attempt
  BY <1>2, <1>3 DEF QueueOK, JobStates, LiveJob
<1>5. job[m].attempt = 0 /\ 0 < MaxAttempts
  BY <1>1, <1>3, WorkflowRunAssumption DEF QueueOK
<1>6. \A j \in Jobs : job'[j].state # "none" <=> j <= m
  BY <1>1, <1>3, <1>4, WorkflowRunAssumption DEF Jobs
<1>7. \A j \in Jobs : job'[j].state \in {"available", "retryable"} => job'[j].attempt < MaxAttempts
  BY <1>4, <1>5 DEF QueueOK
<1>8. \A j \in Jobs : job'[j].state = "none" => job'[j].attempt = 0
  BY <1>4 DEF QueueOK
<1> QED
  BY <1>3, <1>4, <1>6, <1>7, <1>8 DEF QueueOK

\* A job that was inserted stays so, whatever else happens to it.
LEMMA JobMoves ==
  ASSUME QueueOK, NEW j \in Jobs, job[j].state # "none",
         NEW r \in [state : JobStates \ {"none"}, attempt : 0 .. MaxAttempts, cancelled : BOOLEAN],
         r.state \in {"available", "retryable"} => r.attempt < MaxAttempts,
         job' = [job EXCEPT ![j] = r]
  PROVE  QueueOK'
<1>1. /\ job' \in [Jobs -> [state : JobStates, attempt : 0 .. MaxAttempts, cancelled : BOOLEAN]]
      /\ \A i \in Jobs : i # j => job'[i] = job[i]
      /\ job'[j] = r
  BY DEF QueueOK
<1>2. PICK k \in Jobs : \A i \in Jobs : job[i].state # "none" <=> i <= k
  BY DEF QueueOK
<1>3. \A i \in Jobs : job'[i].state # "none" <=> i <= k
  BY <1>1, <1>2
<1>4. \A i \in Jobs : job'[i].state \in {"available", "retryable"} => job'[i].attempt < MaxAttempts
  BY <1>1 DEF QueueOK
<1>5. \A i \in Jobs : job'[i].state = "none" => job'[i].attempt = 0
  BY <1>1 DEF QueueOK
<1> QED
  BY <1>1, <1>3, <1>4, <1>5 DEF QueueOK

\* What River does with a job whose attempt ended.
LEMMA AfterAttemptType ==
  ASSUME NEW j \in Jobs, NEW ok \in BOOLEAN
  PROVE  /\ AfterAttempt(j, ok) \in JobStates \ {"none", "available", "running"}
         /\ AfterAttempt(j, ok) = "retryable" => attemptsRemain(j)
  BY DEF AfterAttempt, JobStates, LiveJob

\* An attempt that ends leaves the job with an attempt to spare, or settled.
LEMMA ReturnKeepsQueue ==
  ASSUME QueueOK, NEW j \in Jobs, NEW ok \in BOOLEAN, job[j].state = "running",
         job' = [job EXCEPT ![j].state = AfterAttempt(j, ok)]
  PROVE  QueueOK'
<1> DEFINE r == [job[j] EXCEPT !.state = AfterAttempt(j, ok)]
<1>1. r \in [state : JobStates \ {"none"}, attempt : 0 .. MaxAttempts, cancelled : BOOLEAN]
  BY AfterAttemptType DEF QueueOK
<1>2. r.state \in {"available", "retryable"} => r.attempt < MaxAttempts
  BY AfterAttemptType DEF attemptsRemain, QueueOK
<1>3. job' = [job EXCEPT ![j] = r]
  OBVIOUS
<1> QED
  BY <1>1, <1>2, <1>3, JobMoves

\* JobCancel ends a waiting job and tells a running one.
LEMMA JobCancelKeepsQueue ==
  ASSUME QueueOK, NEW j \in Jobs, JobCancel(j) PROVE QueueOK'
<1> DEFINE r == [job[j] EXCEPT !.cancelled = @ \/ job[j].state = "running",
                               !.state = IF @ \in {"available", "retryable"} THEN "cancelled" ELSE @]
<1>1. job' = [job EXCEPT ![j] = r]
  BY DEF JobCancel, QueueOK
<1>2. CASE job[j].state = "none"
  <2>1. r = job[j]
    BY <1>2 DEF QueueOK
  <2>2. job' = job
    BY <1>1, <2>1 DEF QueueOK
  <2> QED
    BY <2>2, QueueFrame
<1>3. CASE job[j].state # "none"
  <2>1. r \in [state : JobStates \ {"none"}, attempt : 0 .. MaxAttempts, cancelled : BOOLEAN]
    BY <1>3 DEF QueueOK, JobStates
  <2>2. r.state \in {"available", "retryable"} => r.attempt < MaxAttempts
    BY DEF QueueOK
  <2> QED
    BY <1>1, <1>3, <2>1, <2>2, JobMoves
<1> QED
  BY <1>2, <1>3

-----------------------------------------------------------------------------
(* TypeInv is inductive *)

\* The run has been created with its first job.
LEMMA TypeInvInit == Init => TypeInv
<1> SUFFICES ASSUME Init PROVE TypeInv
  OBVIOUS
<1> USE WorkflowRunAssumption
<1>0. 1 \in Jobs /\ 0 \in 0 .. MaxTasks /\ 0 \in 0 .. MaxAttempts /\ 0 \in 0 .. MaxJobs
  BY DEF Jobs
<1>1. NoRow \in Row
  BY <1>0 DEF NoRow, Row, InFlight
<1>2. RowsOK
  BY <1>0, <1>1 DEF Init, RowsOK, InFlight
<1>3. TasksOK
  BY DEF Init, TasksOK
<1>4. QueueOK
  <2>1. job \in [Jobs -> [state : JobStates, attempt : 0 .. MaxAttempts, cancelled : BOOLEAN]]
    BY <1>0 DEF Init, JobStates, LiveJob
  <2>2. \A j \in Jobs : job[j].state # "none" <=> j <= 1
    BY DEF Init, Jobs
  <2>3. \A j \in Jobs : job[j].attempt = 0
    BY DEF Init
  <2> QED
    BY <1>0, <2>1, <2>2, <2>3 DEF QueueOK
<1>5. AttemptsOK
  BY <1>0, <1>1 DEF Init, AttemptsOK, NodeStates
<1>6. HandlersOK
  BY <1>0 DEF Init, HandlersOK, NoReap
<1>7. AttachedOK /\ NamedOK /\ RunningOK
  BY DEF Init, AttachedOK, NamedOK, RunningOK
<1> QED
  BY <1>2, <1>3, <1>4, <1>5, <1>6, <1>7 DEF TypeInv

\* The attempt's goroutine is gone: what it held is reset.
LEMMA LeaveKeepsAttempts ==
  ASSUME TypeInv, NEW j \in Jobs, Leave(j)
  PROVE  /\ AttemptsOK'
         /\ pc' = [pc EXCEPT ![j] = "off"]
         /\ task' = task => AttachedOK' /\ NamedOK'
<1> USE WorkflowRunAssumption
<1>1. NoRow \in Row
  BY DEF NoRow, Row, InFlight
<1>2. AttemptsOK
  BY DEF TypeInv
<1>3. /\ pc' \in [Jobs -> {"off", "loaded", "drive", "finish", "sweep", "return"}]
      /\ final' \in [Jobs -> RunTerminal \cup {"none", "suspended"}]
      /\ \A i \in Jobs : pc'[i] \in {"finish", "sweep", "return"} => final'[i] # "none"
  BY <1>2 DEF Leave, AttemptsOK
<1>4. seen' \in [Jobs -> [Steps -> Row]]
  BY <1>1, <1>2 DEF Leave, AttemptsOK
<1>5. node' \in [Jobs -> [Steps -> NodeStates]]
  BY <1>2 DEF Leave, AttemptsOK, NodeStates
<1>6. attached' \in [Jobs -> [Steps -> 0 .. MaxTasks]]
  BY <1>2 DEF Leave, AttemptsOK
<1>7. ctxDone' \in [Jobs -> BOOLEAN] /\ retryable' \in [Jobs -> BOOLEAN]
  BY <1>2 DEF Leave, AttemptsOK
<1>8. task' = task => AttachedOK' /\ NamedOK'
  BY <1>2 DEF Leave, AttemptsOK, TypeInv, AttachedOK, NamedOK
<1> QED
  BY <1>3, <1>4, <1>5, <1>6, <1>7, <1>8 DEF AttemptsOK, Leave

\* The queue's own steps: fetch, rescue, crash and abort.
LEMMA QueueStepKeepsTypes ==
  ASSUME TypeInv, NEW j \in Jobs, Fetch(j) \/ Rescue(j) \/ Crash(j) \/ Abort(j)
  PROVE  TypeInv'
<1> USE WorkflowRunAssumption
<1>t. RowsOK /\ TasksOK /\ QueueOK /\ AttemptsOK /\ HandlersOK /\ AttachedOK /\ NamedOK /\ RunningOK
  BY DEF TypeInv
<1>f. RowsOK' /\ TasksOK' /\ HandlersOK'
  BY <1>t, RowsFrame, TasksFrame, HandlersFrame DEF Fetch, Rescue, Crash, Abort
<1>1. CASE Fetch(j)
  <2> DEFINE r == [job[j] EXCEPT !.state = "running", !.attempt = @ + 1]
  <2>1. job' = [job EXCEPT ![j] = r]
    BY <1>1, <1>t DEF Fetch, QueueOK
  <2>2. job[j].attempt < MaxAttempts /\ job[j].attempt \in 0 .. MaxAttempts /\ job[j].state # "none"
    BY <1>1, <1>t DEF Fetch, QueueOK
  <2>3. r \in [state : JobStates \ {"none"}, attempt : 0 .. MaxAttempts, cancelled : BOOLEAN]
    <3>1. job[j].attempt + 1 \in 0 .. MaxAttempts
      BY <2>2
    <3>2. job[j] \in [state : JobStates, attempt : 0 .. MaxAttempts, cancelled : BOOLEAN]
      BY <1>t DEF QueueOK
    <3>3. "running" \in JobStates \ {"none"}
      BY DEF JobStates, LiveJob
    <3> QED
      BY <3>1, <3>2, <3>3
  <2>4. QueueOK'
    BY <1>t, <2>1, <2>2, <2>3, JobMoves
  <2>5. AttemptsOK'
    BY <1>1, <1>t DEF Fetch, AttemptsOK, RowsOK
  <2>6. RunningOK'
    BY <1>1, <1>t DEF Fetch, RunningOK, AttemptsOK, QueueOK
  <2>7. AttachedOK' /\ NamedOK'
    BY <1>1, <1>t, AttachedFrame DEF Fetch
  <2> QED
    BY <1>f, <2>4, <2>5, <2>6, <2>7 DEF TypeInv
<1>2. CASE Rescue(j)
  <2>1. QueueOK'
    BY <1>2, <1>t, ReturnKeepsQueue DEF Rescue
  <2>2. AttemptsOK' /\ AttachedOK' /\ NamedOK'
    BY <1>2, <1>t, AttemptsFrame, AttachedFrame DEF Rescue, attempt
  <2>3. RunningOK'
    BY <1>2, <1>t DEF Rescue, RunningOK, QueueOK, attempt
  <2> QED
    BY <1>f, <2>1, <2>2, <2>3 DEF TypeInv
<1>3. CASE Crash(j)
  <2>1. AttemptsOK' /\ AttachedOK' /\ NamedOK' /\ pc' = [pc EXCEPT ![j] = "off"]
    BY <1>3, LeaveKeepsAttempts DEF Crash
  <2>2. QueueOK'
    BY <1>3, <1>t, QueueFrame DEF Crash
  <2>3. RunningOK'
    BY <1>3, <1>t, <2>1 DEF Crash, RunningOK, AttemptsOK
  <2> QED
    BY <1>f, <2>1, <2>2, <2>3 DEF TypeInv
<1>4. CASE Abort(j)
  <2>1. AttemptsOK'
    BY <1>4, <1>t DEF Abort, AttemptsOK
  <2>2. QueueOK' /\ RunningOK' /\ AttachedOK' /\ NamedOK'
    BY <1>4, <1>t, QueueFrame, RunningFrame, AttachedFrame DEF Abort
  <2> QED
    BY <1>f, <2>1, <2>2 DEF TypeInv
<1> QED
  BY <1>1, <1>2, <1>3, <1>4

\* A step's node moves to another state.
LEMMA BecomesType ==
  ASSUME AttemptsOK, NEW j \in Jobs, NEW n \in Steps, NEW s \in NodeStates, Becomes(j, n, s)
  PROVE  /\ node' \in [Jobs -> [Steps -> NodeStates]]
         /\ node'[j][n] = s
         /\ \A i \in Jobs, m \in Steps : i # j \/ m # n => node'[i][m] = node[i][m]
  BY DEF AttemptsOK, Becomes

\* A step that moves a node and marks its row keeps the types.
LEMMA NodeMoveKeepsTypes ==
  ASSUME TypeInv, NEW j \in Jobs, NEW n \in Steps, NEW s \in NodeStates \ {"await", "named"},
         Becomes(j, n, s), step' \in [Steps -> Row],
         retryable' \in [Jobs -> BOOLEAN],
         UNCHANGED <<status, jobID, decision, task, job, pc, seen, attached, ctxDone, final, handlers>>
  PROVE  TypeInv'
<1>t. RowsOK /\ TasksOK /\ QueueOK /\ AttemptsOK /\ HandlersOK /\ AttachedOK /\ NamedOK /\ RunningOK
  BY DEF TypeInv
<1>n. /\ node' \in [Jobs -> [Steps -> NodeStates]]
      /\ node'[j][n] = s
      /\ \A i \in Jobs, m \in Steps : i # j \/ m # n => node'[i][m] = node[i][m]
  BY <1>t, BecomesType
<1>1. RowsOK'
  BY <1>t DEF RowsOK
<1>2. TasksOK' /\ QueueOK' /\ HandlersOK' /\ RunningOK'
  BY <1>t, TasksFrame, QueueFrame, HandlersFrame, RunningFrame
<1>3. AttemptsOK'
  BY <1>t, <1>n DEF AttemptsOK
<1>4. AttachedOK' /\ NamedOK'
  BY <1>t, <1>n DEF AttachedOK, NamedOK
<1> QED
  BY <1>1, <1>2, <1>3, <1>4 DEF TypeInv

\* A row mark of an action keeps the rows' types; an action that marks nothing
\* does too.
LEMMA MarkKeepsRows ==
  ASSUME TypeInv, NEW j \in Jobs, NEW n \in Steps, NEW s \in InFlight \cup StepTerminal,
         NEW t \in 0 .. MaxTasks, MarkComponentRun(j, n, s, t) \/ UNCHANGED step
  PROVE  step' \in [Steps -> Row]
  BY MarkComponentRunType DEF TypeInv, RowsOK

\* Skip, Park, Launch and PlanFails.
LEMMA ScheduleStepKeepsTypes ==
  ASSUME TypeInv, NEW j \in Jobs, NEW n \in Steps,
         Skip(j, n) \/ Park(j, n) \/ Launch(j, n) \/ PlanFails(j, n)
  PROVE  TypeInv'
<1>0. 0 \in 0 .. MaxTasks
  BY WorkflowRunAssumption
<1>t. AttemptsOK /\ retryable \in [Jobs -> BOOLEAN]
  BY DEF TypeInv, AttemptsOK
<1>1. CASE Skip(j, n)
  <2>1. step' \in [Steps -> Row]
    BY <1>0, <1>1, MarkKeepsRows DEF Skip, StepTerminal
  <2> QED
    BY <1>1, <1>t, <2>1, NodeMoveKeepsTypes DEF Skip, NodeStates, StepTerminal
<1>2. CASE Park(j, n)
  <2>1. step' \in [Steps -> Row]
    BY <1>0, <1>2, MarkKeepsRows DEF Park, InFlight
  <2> QED
    BY <1>2, <1>t, <2>1, NodeMoveKeepsTypes DEF Park, NodeStates
<1>3. CASE Launch(j, n)
  <2>1. step' \in [Steps -> Row]
    BY <1>0, <1>3, MarkKeepsRows DEF Launch, InFlight
  <2>2. PICK s \in {"exec"} \cup StepTerminal : Becomes(j, n, s)
    BY <1>3 DEF Launch, ShortCircuit
  <2>3. s \in NodeStates \ {"await", "named"}
    BY DEF NodeStates, Executing, StepTerminal
  <2> QED
    BY <1>3, <1>t, <2>1, <2>2, <2>3, NodeMoveKeepsTypes DEF Launch
<1>4. CASE PlanFails(j, n)
  <2>1. step' \in [Steps -> Row]
    BY <1>0, <1>4, MarkKeepsRows DEF PlanFails, StepTerminal
  <2> QED
    BY <1>4, <1>t, <2>1, NodeMoveKeepsTypes DEF PlanFails, NodeStates, StepTerminal
<1> QED
  BY <1>1, <1>2, <1>3, <1>4

\* The steps of Execute: look up, submit, persist the name, observe, fail.
LEMMA ExecuteStepKeepsTypes ==
  ASSUME TypeInv, NEW j \in Jobs, NEW n \in Steps,
         \/ Lookup(j, n) \/ ListFails(j, n) \/ Submit(j, n) \/ OnSubmitted(j, n)
         \/ Observe(j, n) \/ ExecuteFails(j, n)
  PROVE  TypeInv'
<1> USE WorkflowRunAssumption
<1>0. 0 \in 0 .. MaxTasks
  OBVIOUS
<1>t. RowsOK /\ TasksOK /\ QueueOK /\ AttemptsOK /\ HandlersOK /\ AttachedOK /\ NamedOK /\ RunningOK
  BY DEF TypeInv
<1>r. retryable \in [Jobs -> BOOLEAN] /\ step \in [Steps -> Row]
  BY <1>t DEF AttemptsOK, RowsOK
<1>s. task[n] \in Seq(Phases) /\ Len(task[n]) \in Nat /\ Len(task[n]) <= MaxTasks
  BY <1>t DEF TasksOK
<1>1. CASE Lookup(j, n)
  <2>1. CASE Candidate(j, n) \in Active(n)
    <3> DEFINE c == Candidate(j, n)
    <3>1. c \in 1 .. Len(task[n]) /\ c \in 0 .. MaxTasks
      BY <2>1, CandidateType
    <3>2. Becomes(j, n, "await") /\ attached' = [attached EXCEPT ![j][n] = c]
      BY <1>1, <2>1 DEF Lookup
    <3> HIDE DEF c
    <3>3. /\ attached' \in [Jobs -> [Steps -> 0 .. MaxTasks]]
          /\ attached'[j][n] = c
          /\ \A i \in Jobs, m \in Steps : i # j \/ m # n => attached'[i][m] = attached[i][m]
      BY <1>t, <3>1, <3>2 DEF AttemptsOK
    <3>4. /\ node' \in [Jobs -> [Steps -> NodeStates]]
          /\ node'[j][n] = "await"
          /\ \A i \in Jobs, m \in Steps : i # j \/ m # n => node'[i][m] = node[i][m]
      BY <1>t, <3>2, BecomesType DEF NodeStates, Executing
    <3>5. task' = task
      BY <1>1 DEF Lookup
    <3>6. AttachedOK' /\ NamedOK'
      BY <1>t, <3>1, <3>3, <3>4, <3>5 DEF AttachedOK, NamedOK
    <3>7. AttemptsOK'
      BY <1>1, <1>t, <3>3, <3>4 DEF Lookup, AttemptsOK
    <3>8. RowsOK' /\ TasksOK' /\ QueueOK' /\ HandlersOK' /\ RunningOK'
      BY <1>1, <1>t, RowsFrame, TasksFrame, QueueFrame, HandlersFrame, RunningFrame DEF Lookup
    <3> QED
      BY <3>6, <3>7, <3>8 DEF TypeInv
  <2>2. CASE Candidate(j, n) \notin Active(n)
    BY <1>1, <1>r, <2>2, NodeMoveKeepsTypes DEF Lookup, rows, NodeStates, Executing
  <2> QED
    BY <2>1, <2>2
<1>2. CASE ListFails(j, n)
  BY <1>2, <1>r, NodeMoveKeepsTypes DEF ListFails, rows, NodeStates, Executing
<1>3. CASE Submit(j, n)
  <2> DEFINE c == Len(task[n]) + 1
  <2>1. c \in 0 .. MaxTasks /\ c \in Nat
    BY <1>3, <1>s DEF Submit
  <2>2. task' = [task EXCEPT ![n] = Append(@, "active")]
    BY <1>3 DEF Submit
  <2>3. /\ task' \in [Steps -> Seq(Phases)]
        /\ Len(task'[n]) = c
        /\ \A m \in Steps : m # n => task'[m] = task[m]
    BY <1>t, <1>s, <2>2 DEF TasksOK, Phases
  <2>4. attached' = [attached EXCEPT ![j][n] = c]
    BY <1>3 DEF Submit
  <2>5. c \in 1 .. Len(task'[n]) /\ Len(task[n]) <= Len(task'[n])
    BY <1>s, <2>3
  <2> HIDE DEF c
  <2>6. /\ attached' \in [Jobs -> [Steps -> 0 .. MaxTasks]]
        /\ attached'[j][n] = c
        /\ \A i \in Jobs, m \in Steps : i # j \/ m # n => attached'[i][m] = attached[i][m]
    BY <1>t, <2>1, <2>4 DEF AttemptsOK
  <2>7. /\ node' \in [Jobs -> [Steps -> NodeStates]]
        /\ node'[j][n] = "named"
        /\ \A i \in Jobs, m \in Steps : i # j \/ m # n => node'[i][m] = node[i][m]
    BY <1>3, <1>t, BecomesType DEF Submit, NodeStates, Executing
  <2>8. TasksOK'
    <3>1. ASSUME NEW m \in Steps PROVE Len(task'[m]) <= MaxTasks
      <4>1. CASE m = n
        BY <2>1, <2>3, <4>1
      <4>2. CASE m # n
        BY <1>t, <2>3, <4>2 DEF TasksOK
      <4> QED
        BY <4>1, <4>2
    <3> QED
      BY <2>3, <3>1 DEF TasksOK
  <2>9. ASSUME NEW m \in Steps PROVE 1 .. Len(task[m]) \subseteq 1 .. Len(task'[m])
    <3>1. CASE m = n
      BY <1>s, <2>1, <2>3, <2>5, <3>1
    <3>2. CASE m # n
      BY <2>3, <3>2
    <3> QED
      BY <3>1, <3>2
  <2>10. AttachedOK' /\ NamedOK'
    <3>1. ASSUME NEW i \in Jobs, NEW m \in Steps, node'[i][m] \in {"await", "named"}
          PROVE  attached'[i][m] \in 1 .. Len(task'[m])
      <4>1. CASE i = j /\ m = n
        BY <2>5, <2>6, <4>1
      <4>2. CASE i # j \/ m # n
        <5>1. attached[i][m] \in 1 .. Len(task[m])
          BY <1>t, <2>7, <3>1, <4>2 DEF AttachedOK, NamedOK
        <5>2. attached'[i][m] = attached[i][m]
          BY <2>6, <4>2
        <5> QED
          BY <2>9, <5>1, <5>2
      <4> QED
        BY <4>1, <4>2
    <3> QED
      BY <3>1 DEF AttachedOK, NamedOK
  <2>11. AttemptsOK'
    BY <1>3, <1>t, <2>6, <2>7 DEF Submit, AttemptsOK
  <2>12. RowsOK' /\ QueueOK' /\ HandlersOK' /\ RunningOK'
    BY <1>3, <1>t, RowsFrame, QueueFrame, HandlersFrame, RunningFrame DEF Submit
  <2> QED
    BY <2>8, <2>10, <2>11, <2>12 DEF TypeInv
<1>4. CASE OnSubmitted(j, n)
  <2>1. attached[j][n] \in 0 .. MaxTasks /\ attached[j][n] \in 1 .. Len(task[n])
    BY <1>4, <1>t DEF OnSubmitted, AttemptsOK, NamedOK
  <2>2. step' \in [Steps -> Row]
    BY <1>4, <2>1, MarkKeepsRows DEF OnSubmitted, InFlight
  <2>3. /\ node' \in [Jobs -> [Steps -> NodeStates]]
        /\ node'[j][n] = "await"
        /\ \A i \in Jobs, m \in Steps : i # j \/ m # n => node'[i][m] = node[i][m]
    BY <1>4, <1>t, BecomesType DEF OnSubmitted, NodeStates, Executing
  <2>4. AttachedOK' /\ NamedOK'
    BY <1>4, <1>t, <2>1, <2>3 DEF OnSubmitted, AttachedOK, NamedOK
  <2>5. AttemptsOK'
    BY <1>4, <1>t, <2>3 DEF OnSubmitted, AttemptsOK
  <2>6. RowsOK'
    BY <1>4, <1>t, <2>2 DEF OnSubmitted, RowsOK
  <2>7. TasksOK' /\ QueueOK' /\ HandlersOK' /\ RunningOK'
    BY <1>4, <1>t, TasksFrame, QueueFrame, HandlersFrame, RunningFrame DEF OnSubmitted
  <2> QED
    BY <2>4, <2>5, <2>6, <2>7 DEF TypeInv
<1>5. CASE Observe(j, n)
  <2>1. attached[j][n] \in 0 .. MaxTasks /\ attached[j][n] \in 1 .. Len(task[n])
    BY <1>5, <1>t DEF Observe, AttemptsOK, AttachedOK
  <2>2. task[n][attached[j][n]] \in {"succeeded", "failed"}
    BY <1>5, <1>s, <2>1 DEF Observe, Phases
  <2>3. step' \in [Steps -> Row]
    BY <1>5, <2>1, <2>2, MarkKeepsRows DEF Observe, StepTerminal
  <2> QED
    BY <1>5, <1>r, <2>2, <2>3, NodeMoveKeepsTypes DEF Observe, NodeStates, StepTerminal, Executing
<1>6. CASE ExecuteFails(j, n)
  <2>1. KnownRun(j, n) \in 0 .. MaxTasks
    BY KnownRunType
  <2>2. (IF attemptsRemain(j) THEN "running" ELSE "failed") \in InFlight \cup StepTerminal
    BY DEF InFlight, StepTerminal
  <2>3. step' \in [Steps -> Row]
    BY <1>6, <2>1, <2>2, MarkKeepsRows DEF ExecuteFails
  <2>4. retryable' \in [Jobs -> BOOLEAN]
    BY <1>6, <1>r DEF ExecuteFails
  <2> QED
    BY <1>6, <2>3, <2>4, NodeMoveKeepsTypes DEF ExecuteFails, NodeStates, StepTerminal, Executing
<1> QED
  BY <1>1, <1>2, <1>3, <1>4, <1>5, <1>6

\* An attempt moves on to another statement of Work.
LEMMA PcMoves ==
  ASSUME TypeInv, NEW j \in Jobs, pc[j] # "off",
         NEW p \in {"drive", "finish", "sweep", "return"}, pc' = [pc EXCEPT ![j] = p],
         final' \in [Jobs -> RunTerminal \cup {"none", "suspended"}],
         p # "drive" => final'[j] # "none",
         \A i \in Jobs : i # j => final'[i] = final[i],
         RowsOK',
         UNCHANGED <<task, job, seen, node, attached, ctxDone, retryable, handlers>>
  PROVE  TypeInv'
<1>t. TasksOK /\ QueueOK /\ AttemptsOK /\ HandlersOK /\ AttachedOK /\ NamedOK /\ RunningOK
  BY DEF TypeInv
<1>1. AttemptsOK'
  BY <1>t DEF AttemptsOK
<1>2. TasksOK' /\ QueueOK' /\ HandlersOK' /\ AttachedOK' /\ NamedOK'
  BY <1>t, TasksFrame, QueueFrame, HandlersFrame, AttachedFrame
<1>3. RunningOK'
  BY <1>t DEF RunningOK, AttemptsOK
<1> QED
  BY <1>1, <1>2, <1>3 DEF TypeInv

\* The statements of Work around schedule().
LEMMA WorkKeepsTypes ==
  ASSUME TypeInv, NEW j \in Jobs,
         \/ MarkRunning(j) \/ ScheduleReturns(j) \/ Suspend(j) \/ Finish(j)
         \/ Sweep(j) \/ Return(j)
  PROVE  TypeInv'
<1> USE WorkflowRunAssumption
<1>t. RowsOK /\ TasksOK /\ QueueOK /\ AttemptsOK /\ HandlersOK /\ AttachedOK /\ NamedOK /\ RunningOK
  BY DEF TypeInv
<1>r. /\ final \in [Jobs -> RunTerminal \cup {"none", "suspended"}]
      /\ pc[j] \in {"finish", "sweep", "return"} => final[j] # "none"
  BY <1>t DEF AttemptsOK
<1>1. CASE MarkRunning(j)
  <2>1. status' \in InFlight \cup RunTerminal
    BY <1>1, <1>t, MarkRunType DEF MarkRunning, RowsOK, InFlight
  <2>2. RowsOK'
    BY <1>1, <1>t, <2>1 DEF MarkRunning, RowsOK
  <2> QED
    BY <1>1, <1>r, <2>2, PcMoves DEF MarkRunning
<1>2. CASE ScheduleReturns(j)
  <2>1. FinalStatus(j) \in RunTerminal \cup {"suspended"}
    BY DEF FinalStatus, RunTerminal
  <2>2. PICK f \in RunTerminal \cup {"suspended"} : final' = [final EXCEPT ![j] = f]
    BY <1>2, <2>1 DEF ScheduleReturns, RunTerminal
  <2>3. /\ final' \in [Jobs -> RunTerminal \cup {"none", "suspended"}]
        /\ final'[j] = f /\ f # "none"
        /\ \A i \in Jobs : i # j => final'[i] = final[i]
    BY <1>r, <2>2 DEF RunTerminal
  <2>4. RowsOK'
    BY <1>2, <1>t, RowsFrame DEF ScheduleReturns
  <2>5. pc' = [pc EXCEPT ![j] = "finish"] /\ pc[j] = "drive"
    BY <1>2 DEF ScheduleReturns, Driving
  <2> QED
    BY <1>2, <2>3, <2>4, <2>5, PcMoves DEF ScheduleReturns
<1>3. CASE Suspend(j)
  <2>1. status' \in InFlight \cup RunTerminal
    BY <1>3, <1>t, MarkRunType DEF Suspend, RowsOK, InFlight
  <2>2. RowsOK'
    BY <1>3, <1>t, <2>1 DEF Suspend, RowsOK
  <2> QED
    BY <1>3, <1>r, <2>2, PcMoves DEF Suspend
<1>4. CASE Finish(j)
  <2>1. final[j] \in RunTerminal
    BY <1>4, <1>r DEF Finish
  <2>2. status' \in InFlight \cup RunTerminal
    BY <1>4, <1>t, <2>1, MarkRunType DEF Finish
  <2>3. RowsOK'
    BY <1>4, <1>t, <2>2 DEF Finish, RowsOK
  <2>4. PICK p \in {"return", "sweep"} : pc' = [pc EXCEPT ![j] = p]
    BY <1>4 DEF Finish
  <2> QED
    BY <1>4, <1>r, <2>3, <2>4, PcMoves DEF Finish
<1>5. CASE Sweep(j)
  <2>1. step' \in [Steps -> Row]
    BY <1>5, <1>t, SweepStepsType DEF Sweep, SettleStuckComponentRuns, StepTerminal
  <2>2. RowsOK'
    BY <1>5, <1>t, <2>1 DEF Sweep, RowsOK
  <2> QED
    BY <1>5, <1>r, <2>2, PcMoves DEF Sweep
<1>6. CASE Return(j)
  <2>1. AttemptsOK' /\ AttachedOK' /\ NamedOK' /\ pc' = [pc EXCEPT ![j] = "off"]
    BY <1>6, LeaveKeepsAttempts DEF Return
  <2>2. job[j].state = "running"
    BY <1>6, <1>t DEF Return, RunningOK
  <2>3. QueueOK'
    BY <1>6, <1>t, <2>2, ReturnKeepsQueue DEF Return
  <2>4. RunningOK'
    BY <1>6, <1>t, <2>1 DEF Return, RunningOK, AttemptsOK, QueueOK
  <2>5. RowsOK' /\ TasksOK' /\ HandlersOK'
    BY <1>6, <1>t, RowsFrame, TasksFrame, HandlersFrame DEF Return
  <2> QED
    BY <2>1, <2>3, <2>4, <2>5 DEF TypeInv
<1> QED
  BY <1>1, <1>2, <1>3, <1>4, <1>5, <1>6

\* The cluster ends a TaskRun.
LEMMA TaskEndsKeepsTypes ==
  ASSUME TypeInv, NEW n \in Steps, TaskEnds(n)
  PROVE  /\ TypeInv'
         /\ \A m \in Steps : Len(task'[m]) = Len(task[m])
<1>t. RowsOK /\ TasksOK /\ QueueOK /\ AttemptsOK /\ HandlersOK /\ AttachedOK /\ NamedOK /\ RunningOK
  BY DEF TypeInv
<1>1. PICK t \in Active(n), phase \in {"succeeded", "failed"} :
        task' = [task EXCEPT ![n][t] = phase]
  BY DEF TaskEnds
<1>2. task[n] \in Seq(Phases) /\ t \in 1 .. Len(task[n])
  BY <1>t DEF TasksOK, Active
<1>3. [task[n] EXCEPT ![t] = phase] \in Seq(Phases) /\ Len([task[n] EXCEPT ![t] = phase]) = Len(task[n])
  BY <1>2 DEF Phases
<1>4. task' = [task EXCEPT ![n] = [task[n] EXCEPT ![t] = phase]]
  BY <1>1
<1>5. /\ task'[n] = [task[n] EXCEPT ![t] = phase]
      /\ \A m \in Steps : m # n => task'[m] = task[m]
      /\ task' \in [Steps -> Seq(Phases)]
  BY <1>t, <1>3, <1>4 DEF TasksOK
<1>6. \A m \in Steps : Len(task'[m]) = Len(task[m])
  BY <1>3, <1>5
<1>7. TasksOK'
  BY <1>t, <1>5, <1>6 DEF TasksOK
<1>8. AttachedOK' /\ NamedOK'
  BY <1>t, <1>6 DEF TaskEnds, attempt, AttachedOK, NamedOK
<1>9. RowsOK' /\ QueueOK' /\ AttemptsOK' /\ HandlersOK' /\ RunningOK'
  BY <1>t, RowsFrame, QueueFrame, AttemptsFrame, HandlersFrame, RunningFrame DEF TaskEnds, attempt
<1> QED
  BY <1>6, <1>7, <1>8, <1>9 DEF TypeInv

\* The approve and reject handler.
LEMMA HandlerKeepsTypes ==
  ASSUME TypeInv, NEW n \in Steps,
         Handler(n) \/ \E d \in {"approve", "reject"} : DecideCheck(n, d)
  PROVE  TypeInv'
<1> USE WorkflowRunAssumption
<1>t. RowsOK /\ TasksOK /\ QueueOK /\ AttemptsOK /\ HandlersOK /\ AttachedOK /\ NamedOK /\ RunningOK
  BY DEF TypeInv
<1>0. 0 \in 0 .. MaxJobs
  OBVIOUS
<1>f. TasksOK' /\ AttemptsOK' /\ AttachedOK' /\ NamedOK'
  BY <1>t, TasksFrame, AttemptsFrame, AttachedFrame
  DEF Handler, DecideCheck, DecideWrite, DecideInsert, DecideSetRunJob, DecideFails, attempt
<1>1. ASSUME NEW d \in {"approve", "reject"}, DecideCheck(n, d) PROVE TypeInv'
  <2>1. HandlersOK'
    BY <1>0, <1>1, <1>t DEF DecideCheck, HandlersOK
  <2>2. RowsOK' /\ QueueOK' /\ RunningOK'
    BY <1>1, <1>t, RowsFrame, QueueFrame, RunningFrame DEF DecideCheck, attempt
  <2> QED
    BY <1>f, <2>1, <2>2 DEF TypeInv
<1>2. CASE DecideWrite(n)
  <2>1. HandlersOK'
    BY <1>2, <1>t DEF DecideWrite, HandlersOK
  <2>2. step' \in [Steps -> Row]
    BY <1>2, <1>t DEF DecideWrite, RowsOK, Row, InFlight, StepTerminal
  <2>3. decision' \in [Steps -> {"none", "approve", "reject"}]
    BY <1>2, <1>t DEF DecideWrite, RowsOK
  <2>4. RowsOK'
    BY <1>2, <1>t, <2>2, <2>3 DEF DecideWrite, RowsOK
  <2>5. QueueOK' /\ RunningOK'
    BY <1>2, <1>t, QueueFrame, RunningFrame DEF DecideWrite, attempt
  <2> QED
    BY <1>f, <2>1, <2>4, <2>5 DEF TypeInv
<1>3. CASE DecideInsert(n)
  <2>1. NextJob \in Jobs /\ Insert
    BY <1>3 DEF DecideInsert
  <2>2. NextJob \in 0 .. MaxJobs
    BY <2>1 DEF Jobs
  <2>3. decide' = [decide EXCEPT ![n] = [at |-> "setjob", job |-> NextJob]]
    BY <1>3 DEF DecideInsert
  <2>4. HandlersOK'
    BY <1>3, <1>t, <2>1, <2>2, <2>3 DEF DecideInsert, HandlersOK
  <2>5. QueueOK'
    BY <1>t, <2>1, InsertKeepsQueue
  <2>6. RunningOK'
    <3>1. job[NextJob].state = "none"
      BY <1>t, <2>1, InsertTakesNext
    <3>2. pc' = pc /\ \A j \in Jobs : j # NextJob => job'[j] = job[j]
      BY <1>3, <1>t, <2>1 DEF DecideInsert, Insert, attempt, QueueOK
    <3> QED
      BY <1>t, <2>1, <3>1, <3>2 DEF RunningOK
  <2>7. RowsOK'
    BY <1>3, <1>t, RowsFrame DEF DecideInsert
  <2> QED
    BY <1>f, <2>4, <2>5, <2>6, <2>7 DEF TypeInv
<1>4. CASE DecideSetRunJob(n)
  <2>1. decide[n].job \in Jobs
    BY <1>4, <1>t DEF DecideSetRunJob, HandlersOK
  <2>2. RowsOK'
    BY <1>4, <1>t, <2>1 DEF DecideSetRunJob, RowsOK
  <2>3. HandlersOK'
    BY <1>0, <1>4, <1>t DEF DecideSetRunJob, HandlersOK
  <2>4. QueueOK' /\ RunningOK'
    BY <1>4, <1>t, QueueFrame, RunningFrame DEF DecideSetRunJob, attempt
  <2> QED
    BY <1>f, <2>2, <2>3, <2>4 DEF TypeInv
<1>5. CASE DecideFails(n)
  <2>1. HandlersOK'
    BY <1>0, <1>5, <1>t DEF DecideFails, HandlersOK
  <2>2. RowsOK' /\ QueueOK' /\ RunningOK'
    BY <1>5, <1>t, RowsFrame, QueueFrame, RunningFrame DEF DecideFails, attempt
  <2> QED
    BY <1>f, <2>1, <2>2 DEF TypeInv
<1> QED
  BY <1>1, <1>2, <1>3, <1>4, <1>5 DEF Handler

\* The cancel handler.
LEMMA CancelKeepsTypes ==
  ASSUME TypeInv, CancelRun \/ CancelJob PROVE TypeInv'
<1>t. RowsOK /\ TasksOK /\ QueueOK /\ AttemptsOK /\ HandlersOK /\ AttachedOK /\ NamedOK /\ RunningOK
  BY DEF TypeInv
<1>1. CASE CancelRun
  <2>1. step' \in [Steps -> Row]
    BY <1>1, <1>t, SweepStepsType DEF CancelRun, StepTerminal
  <2>2. RowsOK'
    BY <1>1, <1>t, <2>1 DEF CancelRun, RowsOK, RunTerminal
  <2>3. HandlersOK'
    BY <1>1, <1>t DEF CancelRun, HandlersOK
  <2>4. TasksOK' /\ QueueOK' /\ AttemptsOK' /\ AttachedOK' /\ NamedOK' /\ RunningOK'
    BY <1>1, <1>t, TasksFrame, QueueFrame, AttemptsFrame, AttachedFrame, RunningFrame
    DEF CancelRun, attempt
  <2> QED
    BY <2>2, <2>3, <2>4 DEF TypeInv
<1>2. CASE CancelJob
  <2>1. QueueOK'
    BY <1>2, <1>t, JobCancelKeepsQueue, QueueFrame DEF CancelJob, RowsOK
  <2>2. ctxDone' \in [Jobs -> BOOLEAN]
    BY <1>2, <1>t DEF CancelJob, JobCancel, AttemptsOK
  <2>3. AttemptsOK'
    BY <1>2, <1>t, <2>2 DEF CancelJob, AttemptsOK
  <2>4. RunningOK'
    BY <1>2, <1>t DEF CancelJob, JobCancel, RunningOK, QueueOK, RowsOK
  <2>5. HandlersOK'
    BY <1>2, <1>t DEF CancelJob, HandlersOK
  <2>6. RowsOK' /\ TasksOK' /\ AttachedOK' /\ NamedOK'
    BY <1>2, <1>t, RowsFrame, TasksFrame, AttachedFrame DEF CancelJob
  <2> QED
    BY <2>1, <2>3, <2>4, <2>5, <2>6 DEF TypeInv
<1> QED
  BY <1>1, <1>2

\* The reaper.
LEMMA ReaperKeepsTypes ==
  ASSUME TypeInv, Reaper PROVE TypeInv'
<1>t. RowsOK /\ TasksOK /\ QueueOK /\ AttemptsOK /\ HandlersOK /\ AttachedOK /\ NamedOK /\ RunningOK
  BY DEF TypeInv
<1> USE DEF FindStuck, ReapStuckRun, ReapSteps, FindExpired, ExpireSteps, ExpireRun, ExpireSweep
<1>1. TasksOK' /\ QueueOK' /\ AttemptsOK' /\ AttachedOK' /\ NamedOK' /\ RunningOK'
  BY <1>t, TasksFrame, QueueFrame, AttemptsFrame, AttachedFrame, RunningFrame
  DEF Reaper, attempt
<1>2. HandlersOK'
  <2>1. FindStuck \/ ReapStuckRun \/ ReapSteps => HandlersOK'
    BY <1>t DEF HandlersOK, NoReap
  <2>2. FindExpired => HandlersOK'
    BY <1>t, WorkflowRunAssumption DEF HandlersOK
  <2>3. ExpireSteps \/ ExpireRun \/ ExpireSweep => HandlersOK'
    BY <1>t DEF HandlersOK, NoReap
  <2> QED
    BY <2>1, <2>2, <2>3 DEF Reaper
<1>3. RowsOK'
  <2>1. FindStuck \/ FindExpired => RowsOK'
    BY <1>t, RowsFrame
  <2>2. ReapStuckRun \/ ExpireRun => RowsOK'
    BY <1>t, MarkRunType DEF RowsOK, RunTerminal
  <2>3. ReapSteps \/ ExpireSweep => RowsOK'
    BY <1>t, SweepStepsType DEF RowsOK, SettleStuckComponentRuns, StepTerminal
  <2>4. ExpireSteps => RowsOK'
    BY <1>t DEF RowsOK, Row, StepTerminal
  <2> QED
    BY <2>1, <2>2, <2>3, <2>4 DEF Reaper
<1> QED
  BY <1>1, <1>2, <1>3 DEF TypeInv

\* Every step of the workers, the queue, the handlers and the reaper.
LEMMA TypeInvNext == TypeInv /\ [Next]_vars => TypeInv'
<1> SUFFICES ASSUME TypeInv, [Next]_vars PROVE TypeInv'
  OBVIOUS
<1>1. CASE UNCHANGED vars
  BY <1>1, RowsFrame, TasksFrame, QueueFrame, AttemptsFrame, AttachedFrame, RunningFrame,
     HandlersFrame
  DEF vars, TypeInv, rows, attempt, handlers
<1>2. ASSUME NEW j \in Jobs, Work(j) PROVE TypeInv'
  BY <1>2, ScheduleStepKeepsTypes, ExecuteStepKeepsTypes, WorkKeepsTypes DEF Work, StepWork
<1> QED
  BY <1>1, <1>2, QueueStepKeepsTypes, TaskEndsKeepsTypes, HandlerKeepsTypes, CancelKeepsTypes,
     ReaperKeepsTypes
  DEF Next

\* The rows, the queue, the attempts and the handlers keep their types: no
\* attempt number passes MaxAttempts, no recorded job or TaskRun is one that was
\* never made, and no run settles without an outcome.
THEOREM WorkflowRunTypeCorrect == Spec => []TypeOK
  BY TypeInvInit, TypeInvNext, TypeInvImpliesTypeOK, PTL DEF Spec

-----------------------------------------------------------------------------
(* Gates *)

\* Nothing of a gated step reaches the cluster before a human has decided on
\* its gate, approved_at included.
GateDecided ==
  \A n \in Gated : task[n] # << >> => decision[n] # "none"

\* What approved_at, a loaded row or an executing step stands for.
ApprovalsAreDecisions ==
  /\ \A n \in Steps : step[n].approved => decision[n] # "none"
  /\ \A j \in Jobs, n \in Steps : seen[j][n].approved => decision[n] # "none"
  /\ \A j \in Jobs, n \in Gated : node[j][n] \in Executing => decision[n] # "none"
  /\ GateDecided

\* Marking and sweeping rows leave approved_at alone.
LEMMA MarksKeepApproved ==
  ASSUME TypeInv
  PROVE  /\ \A j \in Jobs, n \in Steps, s \in InFlight \cup StepTerminal, t \in 0 .. MaxTasks :
              MarkComponentRun(j, n, s, t) => \A m \in Steps : step'[m].approved = step[m].approved
         /\ \A from, to : \A m \in Steps : SweepSteps(step, from, to)[m].approved = step[m].approved
<1>1. step \in [Steps -> Row]
  BY DEF TypeInv, RowsOK
<1>2. \A j \in Jobs, n \in Steps, s \in InFlight \cup StepTerminal, t \in 0 .. MaxTasks :
        MarkComponentRun(j, n, s, t) => \A m \in Steps : step'[m].approved = step[m].approved
  BY <1>1 DEF MarkComponentRun, Row
<1>3. \A from, to : \A m \in Steps : SweepSteps(step, from, to)[m].approved = step[m].approved
  BY <1>1 DEF SweepSteps, Row
<1> QED
  BY <1>2, <1>3

\* A step that leaves decisions, loaded rows and TaskRuns alone, and moves one
\* node at most, to a state that is not executing unless it was.
LEMMA ApprovalsFrame ==
  ASSUME TypeInv, ApprovalsAreDecisions, UNCHANGED <<decision, seen, task>>,
         \A m \in Steps : step'[m].approved = step[m].approved,
         \A i \in Jobs, m \in Gated : node'[i][m] \in Executing =>
           node[i][m] \in Executing \/ seen[i][m].approved
  PROVE  ApprovalsAreDecisions'
  BY WorkflowRunAssumption DEF ApprovalsAreDecisions, GateDecided

\* One node moves; unless it begins to execute, none does.
LEMMA BecomesOnly ==
  ASSUME AttemptsOK, NEW j \in Jobs, NEW n \in Steps, NEW s, Becomes(j, n, s)
  PROVE  /\ node'[j][n] = s
         /\ \A i \in Jobs, m \in Steps : i # j \/ m # n => node'[i][m] = node[i][m]
         /\ s \notin Executing \/ node[j][n] \in Executing =>
              \A i \in Jobs, m \in Steps : node'[i][m] \in Executing => node[i][m] \in Executing
<1>1. /\ node'[j][n] = s
      /\ \A i \in Jobs, m \in Steps : i # j \/ m # n => node'[i][m] = node[i][m]
  BY DEF AttemptsOK, Becomes
<1> QED
  BY <1>1

\* Nothing has been approved at first.
LEMMA ApprovalsInit == Init => ApprovalsAreDecisions
  BY WorkflowRunAssumption DEF Init, ApprovalsAreDecisions, GateDecided, NoRow, Executing

\* Every step keeps approvals and decisions together.
LEMMA ApprovalsNext == TypeInv /\ ApprovalsAreDecisions /\ [Next]_vars => ApprovalsAreDecisions'
<1> SUFFICES ASSUME TypeInv, ApprovalsAreDecisions, [Next]_vars PROVE ApprovalsAreDecisions'
  OBVIOUS
<1> USE WorkflowRunAssumption
<1>t. RowsOK /\ TasksOK /\ AttemptsOK /\ AttachedOK
  BY DEF TypeInv
<1>0. 0 \in 0 .. MaxTasks
  OBVIOUS
<1>1. ASSUME NEW j \in Jobs, Fetch(j) PROVE ApprovalsAreDecisions'
  BY <1>1, <1>t DEF Fetch, rows, ApprovalsAreDecisions, GateDecided, AttemptsOK
<1>2. ASSUME NEW j \in Jobs, Leave(j), UNCHANGED <<step, decision, task>>
      PROVE  ApprovalsAreDecisions'
  <2>1. \A n \in Steps : node'[j][n] = "pending" /\ ~seen'[j][n].approved
    BY <1>2, <1>t DEF Leave, AttemptsOK, NoRow
  <2>2. \A i \in Jobs : i # j => node'[i] = node[i] /\ seen'[i] = seen[i]
    BY <1>2, <1>t DEF Leave, AttemptsOK
  <2> QED
    BY <1>2, <2>1, <2>2 DEF ApprovalsAreDecisions, GateDecided, Executing
<1>3. ASSUME NEW j \in Jobs, Rescue(j) \/ Abort(j) PROVE ApprovalsAreDecisions'
  BY <1>3, ApprovalsFrame DEF Rescue, Abort, rows, attempt
<1>4. ASSUME NEW j \in Jobs, NEW n \in Steps, Skip(j, n) \/ Park(j, n) \/ PlanFails(j, n)
      PROVE  ApprovalsAreDecisions'
  <2>1. \A m \in Steps : step'[m].approved = step[m].approved
    BY <1>0, <1>4, MarksKeepApproved DEF Skip, Park, PlanFails, InFlight, StepTerminal
  <2>2. \A i \in Jobs, m \in Steps : node'[i][m] \in Executing => node[i][m] \in Executing
    <3>1. PICK x \in {"skipped", "parked", "failed"} : Becomes(j, n, x)
      BY <1>4 DEF Skip, Park, PlanFails
    <3>2. x \notin Executing
      BY DEF Executing
    <3> QED
      BY <1>t, <3>1, <3>2, BecomesOnly
  <2> QED
    BY <1>4, <2>1, <2>2, ApprovalsFrame DEF Skip, Park, PlanFails
<1>5. ASSUME NEW j \in Jobs, NEW n \in Steps, Launch(j, n) PROVE ApprovalsAreDecisions'
  <2>1. \A m \in Steps : step'[m].approved = step[m].approved
    BY <1>0, <1>5, MarksKeepApproved DEF Launch, InFlight
  <2>2. n \in Gated => seen[j][n].approved
    BY <1>5 DEF Launch, GateClosed
  <2>3. \A i \in Jobs, m \in Steps : i # j \/ m # n => node'[i][m] = node[i][m]
    BY <1>5, <1>t DEF Launch, Becomes, AttemptsOK
  <2>4. \A i \in Jobs, m \in Gated : node'[i][m] \in Executing =>
           node[i][m] \in Executing \/ seen[i][m].approved
    BY <2>2, <2>3
  <2> QED
    BY <1>5, <2>1, <2>4, ApprovalsFrame DEF Launch
<1>6. ASSUME NEW j \in Jobs, NEW n \in Steps, Lookup(j, n) \/ ListFails(j, n)
      PROVE  ApprovalsAreDecisions'
  <2>1. \A i \in Jobs, m \in Steps : node'[i][m] \in Executing => node[i][m] \in Executing
    <3>1. \E x \in {"await", "submit"} : Becomes(j, n, x)
      BY <1>6 DEF Lookup, ListFails
    <3>2. node[j][n] \in Executing
      BY <1>6 DEF Lookup, ListFails, Executing
    <3> QED
      BY <1>t, <3>1, <3>2, BecomesOnly
  <2> QED
    BY <1>6, <2>1, ApprovalsFrame DEF Lookup, ListFails, rows
<1>7. ASSUME NEW j \in Jobs, NEW n \in Steps, Submit(j, n) PROVE ApprovalsAreDecisions'
  <2>1. node[j][n] \in Executing
    BY <1>7 DEF Submit, Executing
  <2>2. \A i \in Jobs, m \in Steps : node'[i][m] \in Executing => node[i][m] \in Executing
    BY <1>7, <1>t, <2>1 DEF Submit, Becomes, AttemptsOK
  <2>3. \A m \in Steps : m # n => task'[m] = task[m]
    BY <1>7, <1>t DEF Submit, TasksOK
  <2>4. UNCHANGED <<step, decision, seen>>
    BY <1>7 DEF Submit, rows
  <2> QED
    BY <2>1, <2>2, <2>3, <2>4 DEF ApprovalsAreDecisions, GateDecided
<1>8. ASSUME NEW j \in Jobs, NEW n \in Steps, OnSubmitted(j, n) \/ Observe(j, n) \/ ExecuteFails(j, n)
      PROVE  ApprovalsAreDecisions'
  <2>1. \A m \in Steps : step'[m].approved = step[m].approved
    <3>1. attached[j][n] \in 0 .. MaxTasks /\ KnownRun(j, n) \in 0 .. MaxTasks
      BY <1>t, KnownRunType DEF AttemptsOK
    <3>2. Observe(j, n) => task[n][attached[j][n]] \in StepTerminal
      BY <1>t DEF Observe, AttachedOK, TasksOK, Phases, StepTerminal
    <3> QED
      BY <1>8, <3>1, <3>2, MarksKeepApproved
      DEF OnSubmitted, Observe, ExecuteFails, InFlight, StepTerminal
  <2>2. \A i \in Jobs, m \in Steps : node'[i][m] \in Executing => node[i][m] \in Executing
    <3>1. \E x : Becomes(j, n, x)
      BY <1>8 DEF OnSubmitted, Observe, ExecuteFails
    <3>2. node[j][n] \in Executing
      BY <1>8 DEF OnSubmitted, Observe, ExecuteFails, Executing
    <3> QED
      BY <1>t, <3>1, <3>2, BecomesOnly
  <2> QED
    BY <1>8, <2>1, <2>2, ApprovalsFrame DEF OnSubmitted, Observe, ExecuteFails
<1>9. ASSUME NEW j \in Jobs,
             MarkRunning(j) \/ ScheduleReturns(j) \/ Suspend(j) \/ Finish(j) \/ Sweep(j)
      PROVE  ApprovalsAreDecisions'
  <2>1. \A m \in Steps : step'[m].approved = step[m].approved
    BY <1>9, MarksKeepApproved
    DEF MarkRunning, ScheduleReturns, Suspend, Finish, Sweep, SettleStuckComponentRuns, rows
  <2> QED
    BY <1>9, <2>1, ApprovalsFrame DEF MarkRunning, ScheduleReturns, Suspend, Finish, Sweep, rows
<1>10. ASSUME NEW n \in Steps, TaskEnds(n) PROVE ApprovalsAreDecisions'
  <2>1. \A m \in Steps : Len(task'[m]) = Len(task[m])
    BY <1>10, TaskEndsKeepsTypes
  <2>2. \A m \in Steps : task'[m] # << >> => task[m] # << >>
    <3>1. TasksOK' /\ TasksOK
      BY <1>10, <1>t, TaskEndsKeepsTypes DEF TypeInv
    <3> QED
      BY <2>1, <3>1 DEF TasksOK
  <2> QED
    BY <1>10, <2>2 DEF TaskEnds, rows, attempt, ApprovalsAreDecisions, GateDecided
<1>11. ASSUME NEW n \in Steps, DecideWrite(n) PROVE ApprovalsAreDecisions'
  <2>1. \A m \in Steps : decision[m] # "none" => decision'[m] # "none"
    BY <1>11, <1>t DEF DecideWrite, RowsOK
  <2>2. \A m \in Steps : step'[m].approved => step[m].approved \/ decision'[m] # "none"
    BY <1>11, <1>t DEF DecideWrite, RowsOK, Row
  <2> QED
    BY <1>11, <2>1, <2>2 DEF DecideWrite, attempt, ApprovalsAreDecisions, GateDecided
<1>12. ASSUME NEW n \in Steps, DecideInsert(n) \/ DecideSetRunJob(n) \/ DecideFails(n)
                \/ \E d \in {"approve", "reject"} : DecideCheck(n, d)
      PROVE  ApprovalsAreDecisions'
  BY <1>12, ApprovalsFrame
  DEF DecideInsert, DecideSetRunJob, DecideFails, DecideCheck, rows, attempt
<1>13. ASSUME CancelRun \/ CancelJob \/ Reaper PROVE ApprovalsAreDecisions'
  <2>1. \A m \in Steps : step'[m].approved = step[m].approved
    <3>1. ExpireSteps => \A m \in Steps : step'[m].approved = step[m].approved
      BY <1>t DEF ExpireSteps, RowsOK, Row
    <3> QED
      BY <1>13, <3>1, MarksKeepApproved
      DEF CancelRun, CancelJob, Reaper, FindStuck, ReapStuckRun, ReapSteps, FindExpired,
          ExpireRun, ExpireSweep, SettleStuckComponentRuns, rows
  <2>2. UNCHANGED <<decision, seen, task, node>>
    BY <1>13
    DEF CancelRun, CancelJob, Reaper, FindStuck, ReapStuckRun, ReapSteps, FindExpired,
        ExpireSteps, ExpireRun, ExpireSweep, rows, attempt
  <2> QED
    BY <2>1, <2>2, ApprovalsFrame
<1>14. CASE UNCHANGED vars
  BY <1>14, ApprovalsFrame DEF vars
<1>15. ASSUME NEW j \in Jobs, Crash(j) \/ Return(j) PROVE ApprovalsAreDecisions'
  BY <1>2, <1>15 DEF Crash, Return, rows
<1> QED
  BY <1>1, <1>3, <1>4, <1>5, <1>6, <1>7, <1>8, <1>9, <1>10, <1>11, <1>12, <1>13, <1>14, <1>15
  DEF Next, Work, StepWork, Handler

\* Whatever the handlers, the resume jobs, the crashes and the cancellations
\* do, no TaskRun of a gated step is submitted without a decision on its gate.
\* (It may be a rejection that a concurrent attempt wrote over: GateHolds.)
THEOREM NothingRunsUndecided == Spec => []GateDecided
<1>1. ApprovalsAreDecisions => GateDecided
  BY DEF ApprovalsAreDecisions
<1> QED
  BY <1>1, TypeInvInit, TypeInvNext, ApprovalsInit, ApprovalsNext, PTL DEF Spec

-----------------------------------------------------------------------------
(* Runs whose job is their only driver *)

\* No gate, no continue-on-failure, nobody cancels, and no context ends before
\* its attempt; the graph is acyclic.  Crashes, rescues, transient errors,
\* retries and the reaper are all there.
PlainRun ==
  /\ Gated = {} /\ ContOnFail = {}
  /\ ~MayCancel /\ ~MayAbort
  /\ \E rank \in [Steps -> Nat] : \A n \in Steps : \A d \in DependsOn[n] : rank[d] < rank[n]

\* The first job is the only one, and nobody but its attempt and the reaper
\* touches the rows; the reaper does when the job is gone.
Alone ==
  /\ jobID = 1
  /\ \A j \in Jobs : j # 1 => job[j].state = "none"
  /\ \A j \in Jobs : ~ctxDone[j]
  /\ \A n \in Steps : decide[n].at = "idle"
  /\ canceller = "idle"
  /\ status # "awaiting_approval"
  /\ \A n \in Steps : step[n].status # "awaiting_approval"
  /\ reaper.at \in {"idle", "stuck", "reaped"}
  /\ reaper.at # "idle" => job[1].state \notin LiveJob
  /\ reaper.at = "reaped" => status = "failed"

\* What the rows say about each other, and about the run.
RowsAgree ==
  /\ job[1].state \in LiveJob =>
       \A n \in Steps : step[n].status \in {"running", "succeeded", "failed"} =>
         \A d \in DependsOn[n] : step[d].status = "succeeded"
  /\ \A n \in Steps : step[n].status = "skipped" =>
       \E d \in DependsOn[n] : step[d].status \in {"failed", "skipped"}
  /\ status \in RunTerminal /\ reaper.at # "reaped" =>
       \A n \in Steps : step[n].status \in StepTerminal
  /\ status = "succeeded" => \A n \in Steps : step[n].status = "succeeded"

\* The attempt is going to be retried, and leaves rows open for that.
Unsettled == attemptsRemain(1) /\ retryable[1]

\* What the attempt's view of a step says about its row.
NodeAgrees(n) ==
  /\ node[1][n] # "parked"
  /\ node[1][n] = "pending" => step[n] = seen[1][n]
  /\ node[1][n] \in Executing => step[n].status = "running"
  /\ node[1][n] = "succeeded" => step[n].status = "succeeded"
  /\ node[1][n] = "failed" =>
       step[n].status = "failed" \/ (step[n].status = "running" /\ Unsettled)
  /\ node[1][n] = "skipped" =>
       /\ step[n].status = "skipped" \/ (step[n].status = "pending" /\ Unsettled)
       /\ \E d \in DependsOn[n] : node[1][d] \in {"failed", "skipped"}

\* The attempt begins with every step pending and ends with none.
AttemptAgrees ==
  /\ pc[1] \in {"off", "loaded"} => \A n \in Steps : node[1][n] = "pending"
  /\ pc[1] # "off" => \A n \in Steps : NodeAgrees(n)
  /\ pc[1] \in {"finish", "sweep", "return"} =>
       /\ \A n \in Steps : node[1][n] \in StepTerminal
       /\ final[1] = IF \E n \in Steps : node[1][n] = "failed" THEN "failed" ELSE "succeeded"
  /\ pc[1] \in {"sweep", "return"} => status \in RunTerminal

PlainInv == TypeInv /\ Alone /\ RowsAgree /\ AttemptAgrees

-----------------------------------------------------------------------------
(* Re-attachment *)

\* Until the first crash a step is submitted once, and the row names that
\* TaskRun or none.
BeforeCrash ==
  crashes = 0 =>
    /\ job[1].state # "retryable"
    /\ job[1].state = "running" => pc[1] # "off"
    /\ \A n \in Steps :
         /\ Len(task[n]) <= 1
         /\ step[n].runName <= Len(task[n])
         /\ job[1].state \in LiveJob /\ node[1][n] \in {"pending", "exec", "submit"} =>
              Len(task[n]) = 0

\* What an attempt is going to find.
FindsActive ==
  \A n \in Steps :
    /\ \A t, u \in Active(n) : t = u
    /\ job[1].state \in LiveJob /\ pc[1] = "off" =>
         (step[n].runName # 0 => Active(n) \subseteq {step[n].runName})
    /\ pc[1] # "off" /\ node[1][n] \in {"pending", "exec"} =>
         (seen[1][n].runName # 0 => Active(n) \subseteq {seen[1][n].runName})
    /\ node[1][n] = "submit" => Active(n) = {}

\* One crash at most, and the cluster answers.
ReattachInv ==
  /\ crashes \in Nat /\ errors \in Nat
  /\ crashes <= 1 /\ errors = 0 => ~retryable[1] /\ BeforeCrash /\ FindsActive

-----------------------------------------------------------------------------
(* The plain run *)

\* In an acyclic graph every non-empty set of steps has one that depends on no
\* other step of the set.
LEMMA FirstStep ==
  ASSUME PlainRun, NEW S \in SUBSET Steps, S # {}
  PROVE  \E n \in S : \A d \in DependsOn[n] : d \notin S
<1>1. PICK rank \in [Steps -> Nat] : \A n \in Steps : \A d \in DependsOn[n] : rank[d] < rank[n]
  BY DEF PlainRun
<1> DEFINE T == {rank[n] : n \in S}
<1>2. T \in SUBSET Nat /\ T # {}
  <2>1. \A n \in S : rank[n] \in Nat
    BY <1>1
  <2>2. PICK n \in S : TRUE
    OBVIOUS
  <2>3. rank[n] \in T
    OBVIOUS
  <2> QED
    BY <2>1, <2>3
<1>3. PICK x \in T : \A y \in T : x <= y
  BY <1>2, LeastOf
<1>4. PICK n \in S : rank[n] = x
  BY <1>3
<1>5. ASSUME NEW d \in DependsOn[n] PROVE d \notin S
  <2>1. d \in Steps
    BY WorkflowRunAssumption
  <2>2. rank[d] < rank[n] /\ rank[d] \in Nat /\ rank[n] \in Nat
    BY <1>1, <2>1
  <2> QED
    BY <1>3, <1>4, <2>2
<1> QED
  BY <1>5

\* No step depends on itself.
LEMMA NoSelfDependency ==
  ASSUME PlainRun, NEW n \in Steps
  PROVE  n \notin DependsOn[n] /\ DependsOn[n] \subseteq Steps
<1>1. PICK rank \in [Steps -> Nat] : \A m \in Steps : \A d \in DependsOn[m] : rank[d] < rank[m]
  BY DEF PlainRun
<1>2. n \in DependsOn[n] => rank[n] < rank[n] /\ rank[n] \in Nat
  BY <1>1
<1> QED
  BY <1>2, WorkflowRunAssumption

\* Only the first job has attempts.
LEMMA OnlyFirstJob ==
  ASSUME TypeInv, Alone, NEW j \in Jobs
  PROVE  /\ 1 \in Jobs
         /\ pc[j] # "off" => j = 1
         /\ job[j].state # "none" => j = 1
         /\ pc[1] # "off" => job[1].state = "running" /\ job[1].state \in LiveJob /\ reaper.at = "idle"
<1>1. 1 \in Jobs
  BY WorkflowRunAssumption DEF Jobs
<1>2. pc[j] # "off" => job[j].state = "running"
  BY DEF TypeInv, RunningOK
<1>3. pc[1] # "off" => job[1].state = "running"
  BY <1>1 DEF TypeInv, RunningOK
<1> QED
  BY <1>1, <1>2, <1>3 DEF Alone, LiveJob

\* The run starts plain.
LEMMA PlainInit == ASSUME PlainRun, Init PROVE PlainInv
<1>1. TypeInv
  BY TypeInvInit
<1>2. Alone
  BY WorkflowRunAssumption DEF Init, Alone, Jobs, NoRow, NoReap
<1>3. RowsAgree
  BY DEF Init, RowsAgree, NoRow, RunTerminal
<1>4. 1 \in Jobs
  BY WorkflowRunAssumption DEF Jobs
<1>5. AttemptAgrees
  BY <1>4 DEF Init, AttemptAgrees
<1> QED
  BY <1>1, <1>2, <1>3, <1>5 DEF PlainInv

\* What a mark does when no context is cancelled.
LEMMA MarkWrites ==
  ASSUME PlainInv, NEW n \in Steps, NEW s \in InFlight \cup StepTerminal, NEW t \in 0 .. MaxTasks,
         MarkComponentRun(1, n, s, t)
  PROVE  /\ step'[n].status = s
         /\ step'[n].runName = IF t = 0 THEN step[n].runName ELSE t
         /\ \A m \in Steps : m # n => step'[m] = step[m]
<1>1. 1 \in Jobs /\ ~ctxDone[1]
  BY WorkflowRunAssumption DEF PlainInv, Alone, Jobs
<1>2. step \in [Steps -> Row]
  BY DEF PlainInv, TypeInv, RowsOK
<1> QED
  BY <1>1, <1>2 DEF MarkComponentRun, Row

\* A step of schedule() or Execute moves one node and at most its row; the
\* rows go on to agree when the new row follows from the dependencies' rows
\* and takes back no success, no failure and no skip.
LEMMA StepMove ==
  ASSUME PlainRun, PlainInv, NEW n \in Steps, Driving(1),
         node[1][n] \in {"pending"} \cup Executing,
         \A m \in Steps : m # n => node'[1][m] = node[1][m] /\ step'[m] = step[m],
         retryable[1] => retryable'[1],
         UNCHANGED <<status, jobID, job, pc, seen, ctxDone, final, decide, canceller, reaper>>,
         NodeAgrees(n)',
         step'[n].status # "awaiting_approval",
         step[n].status = "succeeded" => step'[n].status = "succeeded",
         step[n].status \in {"failed", "skipped"} => step'[n].status \in {"failed", "skipped"},
         step'[n].status \in {"running", "succeeded", "failed"} =>
           \A d \in DependsOn[n] : step[d].status = "succeeded",
         step'[n].status = "skipped" =>
           \E d \in DependsOn[n] : step[d].status \in {"failed", "skipped"},
         status \in RunTerminal => step'[n].status \in StepTerminal
  PROVE  Alone' /\ RowsAgree' /\ AttemptAgrees'
<1>t. TypeInv /\ Alone /\ RowsAgree /\ AttemptAgrees
  BY DEF PlainInv
<1>d. \A m \in Steps : m \notin DependsOn[m] /\ DependsOn[m] \subseteq Steps
  BY NoSelfDependency
<1>1. Alone'
  BY <1>t DEF Alone
<1>2. RowsAgree'
  <2>1. job'[1].state \in LiveJob =>
          \A m \in Steps : step'[m].status \in {"running", "succeeded", "failed"} =>
            \A d \in DependsOn[m] : step'[d].status = "succeeded"
    BY <1>t, <1>d DEF RowsAgree
  <2>2. \A m \in Steps : step'[m].status = "skipped" =>
          \E d \in DependsOn[m] : step'[d].status \in {"failed", "skipped"}
    BY <1>t, <1>d DEF RowsAgree
  <2>3. reaper.at # "reaped"
    <3>1. 1 \in Jobs
      BY WorkflowRunAssumption DEF Jobs
    <3>2. pc[1] # "off" => reaper.at = "idle"
      BY <1>t, <3>1, OnlyFirstJob
    <3> QED
      BY <3>2 DEF Driving
  <2>4. status' \in RunTerminal => \A m \in Steps : step'[m].status \in StepTerminal
    BY <1>t, <2>3 DEF RowsAgree
  <2>5. status' = "succeeded" => \A m \in Steps : step'[m].status = "succeeded"
    BY <1>t DEF RowsAgree
  <2> QED
    BY <2>1, <2>2, <2>4, <2>5 DEF RowsAgree
<1>3. AttemptAgrees'
  <2>1. Unsettled => Unsettled'
    BY DEF Unsettled, attemptsRemain
  <2>2. ASSUME NEW m \in Steps, m # n PROVE NodeAgrees(m)'
    <3>1. NodeAgrees(m)
      BY <1>t DEF AttemptAgrees, Driving
    <3>2. node[1][n] \notin {"failed", "skipped"}
      BY DEF Executing
    <3>3. \A d \in DependsOn[m] : node[1][d] \in {"failed", "skipped"} => node'[1][d] \in {"failed", "skipped"}
      BY <1>d, <3>2
    <3> QED
      BY <2>1, <2>2, <3>1, <3>3 DEF NodeAgrees
  <2>3. \A m \in Steps : NodeAgrees(m)'
    BY <2>2
  <2>4. pc'[1] = "drive"
    BY DEF Driving
  <2> QED
    BY <2>3, <2>4 DEF AttemptAgrees
<1> QED
  BY <1>1, <1>2, <1>3

\* What an attempt that drives the DAG knows of a step.
LEMMA DrivingKnows ==
  ASSUME PlainRun, PlainInv, Driving(1)
  PROVE  /\ 1 \in Jobs /\ AttemptsOK
         /\ job[1].state \in LiveJob /\ reaper.at = "idle"
         /\ \A n \in Steps : NodeAgrees(n)
         /\ \A n \in Steps : step[n].status \in {"pending", "running"} \cup StepTerminal
         /\ status \in RunTerminal => \A n \in Steps : step[n].status \in StepTerminal
<1>1. 1 \in Jobs /\ TypeInv /\ Alone /\ RowsAgree /\ AttemptAgrees
  BY WorkflowRunAssumption DEF PlainInv, Jobs
<1>2. pc[1] # "off"
  BY DEF Driving
<1>3. job[1].state \in LiveJob /\ reaper.at = "idle"
  BY <1>1, <1>2, OnlyFirstJob
<1>4. \A n \in Steps : NodeAgrees(n)
  BY <1>1, <1>2 DEF AttemptAgrees
<1>5. \A n \in Steps : step[n].status \in InFlight \cup StepTerminal
  BY <1>1 DEF TypeInv, RowsOK, Row
<1>6. \A n \in Steps : step[n].status \in {"pending", "running"} \cup StepTerminal
  BY <1>1, <1>5 DEF Alone, InFlight
<1>7. status \in RunTerminal => \A n \in Steps : step[n].status \in StepTerminal
  BY <1>1, <1>3 DEF RowsAgree
<1> QED
  BY <1>1, <1>3, <1>4, <1>6, <1>7 DEF TypeInv

\* A step of Execute, or its end.
LEMMA ExecuteMove ==
  ASSUME PlainRun, PlainInv, NEW n \in Steps, Driving(1), node[1][n] \in Executing,
         NEW x, Becomes(1, n, x),
         \A m \in Steps : m # n => step'[m] = step[m],
         retryable[1] => retryable'[1],
         UNCHANGED <<status, jobID, job, pc, seen, ctxDone, final, decide, canceller, reaper>>,
         \/ x \in Executing /\ step'[n].status = "running"
         \/ x \in {"succeeded", "failed"} /\ step'[n].status = x
         \/ x = "failed" /\ step'[n].status = "running" /\ Unsettled'
  PROVE  Alone' /\ RowsAgree' /\ AttemptAgrees'
<1>1. /\ 1 \in Jobs /\ AttemptsOK /\ job[1].state \in LiveJob
      /\ NodeAgrees(n)
      /\ status \in RunTerminal => \A m \in Steps : step[m].status \in StepTerminal
  BY DrivingKnows
<1>2. node'[1][n] = x /\ \A m \in Steps : m # n => node'[1][m] = node[1][m]
  BY <1>1, BecomesOnly
<1>3. step[n].status = "running"
  BY <1>1 DEF NodeAgrees
<1>4. \A d \in DependsOn[n] : step[d].status = "succeeded"
  BY <1>1, <1>3 DEF PlainInv, RowsAgree
<1>5. status \notin RunTerminal
  BY <1>1, <1>3 DEF StepTerminal
<1>6. NodeAgrees(n)'
  BY <1>2 DEF NodeAgrees, Executing
<1> QED
  BY <1>2, <1>3, <1>4, <1>5, <1>6, StepMove

\* onState(skipped).
LEMMA SkipPlain ==
  ASSUME PlainRun, PlainInv, NEW n \in Steps, Skip(1, n)
  PROVE  Alone' /\ RowsAgree' /\ AttemptAgrees'
<1>1. /\ 1 \in Jobs /\ AttemptsOK /\ job[1].state \in LiveJob /\ Driving(1)
      /\ \A m \in Steps : NodeAgrees(m)
      /\ step[n].status \in {"pending", "running"} \cup StepTerminal
      /\ status \in RunTerminal => \A m \in Steps : step[m].status \in StepTerminal
  BY DrivingKnows DEF Skip
<1>2. node'[1][n] = "skipped" /\ \A m \in Steps : m # n => node'[1][m] = node[1][m]
  BY <1>1, BecomesOnly DEF Skip
<1>3. PICK d \in DependsOn[n] : node[1][d] \in {"failed", "skipped"}
  BY DEF Skip, Blocked, Blocks
<1>4. d \in Steps /\ d # n
  BY NoSelfDependency
<1>5. step[d].status # "succeeded" /\ (Unsettled \/ step[d].status \in {"failed", "skipped"})
  BY <1>1, <1>3, <1>4 DEF NodeAgrees
<1>6. step[n].status \in {"pending", "skipped"}
  BY <1>1, <1>5 DEF PlainInv, RowsAgree, StepTerminal
<1>7. /\ UNCHANGED <<status, jobID, job, pc, seen, ctxDone, final, decide, canceller, reaper, retryable>>
      /\ node[1][n] = "pending"
  BY DEF Skip, Sweepable, handlers
<1>8. CASE Unsettled
  <2>1. UNCHANGED step
    BY <1>8 DEF Skip, Unsettled
  <2>2. Unsettled'
    BY <1>7, <1>8 DEF Unsettled, attemptsRemain
  <2>3. NodeAgrees(n)'
    BY <1>2, <1>3, <1>4, <1>6, <2>1, <2>2 DEF NodeAgrees, Executing
  <2>4. step[n].status = "skipped" => \E c \in DependsOn[n] : step[c].status \in {"failed", "skipped"}
    BY DEF PlainInv, RowsAgree
  <2> QED
    BY <1>1, <1>2, <1>6, <1>7, <2>1, <2>3, <2>4, StepMove
<1>9. CASE ~Unsettled
  <2>1. MarkComponentRun(1, n, "skipped", 0) /\ 0 \in 0 .. MaxTasks
    BY <1>9, WorkflowRunAssumption DEF Skip, Unsettled
  <2>2. step'[n].status = "skipped" /\ \A m \in Steps : m # n => step'[m] = step[m]
    BY <2>1, MarkWrites DEF StepTerminal
  <2>3. NodeAgrees(n)'
    BY <1>2, <1>3, <1>4, <2>2 DEF NodeAgrees, Executing
  <2> QED
    BY <1>1, <1>2, <1>5, <1>6, <1>7, <1>9, <2>2, <2>3, StepMove DEF StepTerminal
<1> QED
  BY <1>8, <1>9

\* runComponent begins; a gate never stops it here.
LEMMA LaunchPlain ==
  ASSUME PlainRun, PlainInv, NEW n \in Steps, Launch(1, n)
  PROVE  Alone' /\ RowsAgree' /\ AttemptAgrees'
<1>1. /\ 1 \in Jobs /\ AttemptsOK /\ job[1].state \in LiveJob /\ Driving(1)
      /\ \A m \in Steps : NodeAgrees(m)
      /\ step[n].status \in {"pending", "running"} \cup StepTerminal
      /\ status \in RunTerminal => \A m \in Steps : step[m].status \in StepTerminal
  BY DrivingKnows DEF Launch
<1>2. \A d \in DependsOn[n] : step[d].status = "succeeded"
  <2>1. \A d \in DependsOn[n] : d \in Steps /\ node[1][d] = "succeeded"
    BY NoSelfDependency DEF Launch, Ready, Passed, PlainRun
  <2> QED
    BY <1>1, <2>1 DEF NodeAgrees
<1>3. node[1][n] = "pending" /\ step[n] = seen[1][n]
  BY <1>1 DEF Launch, Sweepable, NodeAgrees
<1>4. step[n].status # "skipped"
  BY <1>2 DEF PlainInv, RowsAgree
<1>5. UNCHANGED <<status, jobID, job, pc, seen, ctxDone, final, decide, canceller, reaper, retryable>>
  BY DEF Launch, handlers
<1>6. CASE seen[1][n].status \in StepTerminal
  <2>1. Becomes(1, n, step[n].status) /\ UNCHANGED step /\ step[n].status \in {"succeeded", "failed"}
    BY <1>3, <1>4, <1>6 DEF Launch, ShortCircuit, StepTerminal
  <2>2. node'[1][n] = step[n].status /\ \A m \in Steps : m # n => node'[1][m] = node[1][m]
    BY <1>1, <2>1, BecomesOnly
  <2>3. NodeAgrees(n)'
    BY <2>1, <2>2 DEF NodeAgrees, Executing
  <2> QED
    BY <1>1, <1>2, <1>3, <1>5, <2>1, <2>2, <2>3, StepMove
<1>7. CASE seen[1][n].status \notin StepTerminal
  <2>1. Becomes(1, n, "exec") /\ MarkComponentRun(1, n, "running", 0) /\ 0 \in 0 .. MaxTasks
    BY <1>7, WorkflowRunAssumption DEF Launch
  <2>2. node'[1][n] = "exec" /\ \A m \in Steps : m # n => node'[1][m] = node[1][m]
    BY <1>1, <2>1, BecomesOnly
  <2>3. step'[n].status = "running" /\ \A m \in Steps : m # n => step'[m] = step[m]
    BY <2>1, MarkWrites DEF InFlight
  <2>4. NodeAgrees(n)'
    BY <2>2, <2>3 DEF NodeAgrees, Executing
  <2>5. status \notin RunTerminal /\ step[n].status \notin StepTerminal
    BY <1>1, <1>3, <1>7
  <2> QED
    BY <1>1, <1>2, <1>3, <1>5, <2>2, <2>3, <2>4, <2>5, StepMove DEF StepTerminal
<1> QED
  BY <1>6, <1>7

\* The planner, Execute, and what they write.
LEMMA ExecutePlain ==
  ASSUME PlainRun, PlainInv, NEW n \in Steps,
         \/ PlanFails(1, n) \/ Lookup(1, n) \/ ListFails(1, n) \/ Submit(1, n)
         \/ OnSubmitted(1, n) \/ Observe(1, n) \/ ExecuteFails(1, n)
  PROVE  Alone' /\ RowsAgree' /\ AttemptAgrees'
<1>1. 1 \in Jobs /\ Driving(1) /\ node[1][n] \in Executing
  BY WorkflowRunAssumption
  DEF Jobs, PlanFails, Lookup, ListFails, Submit, OnSubmitted, Observe, ExecuteFails, Executing
<1>2. UNCHANGED <<status, jobID, job, pc, seen, ctxDone, final, decide, canceller, reaper>>
  BY DEF PlanFails, Lookup, ListFails, Submit, OnSubmitted, Observe, ExecuteFails, handlers, rows
<1>3. NodeAgrees(n) /\ TypeInv /\ AttemptsOK
  BY <1>1, DrivingKnows DEF PlainInv
<1>4. step[n].status = "running"
  BY <1>1, <1>3 DEF NodeAgrees
<1>5. retryable[1] => retryable'[1]
  BY <1>1, <1>3
  DEF PlanFails, Lookup, ListFails, Submit, OnSubmitted, Observe, ExecuteFails, AttemptsOK
<1>6. CASE Lookup(1, n) \/ ListFails(1, n) \/ Submit(1, n)
  <2>1. UNCHANGED step
    BY <1>6 DEF Lookup, ListFails, Submit, rows
  <2>2. PICK x \in Executing : Becomes(1, n, x)
    BY <1>6 DEF Lookup, ListFails, Submit, Executing
  <2> QED
    BY <1>1, <1>2, <1>4, <1>5, <2>1, <2>2, ExecuteMove
<1>7. CASE PlanFails(1, n)
  <2>1. Becomes(1, n, "failed") /\ MarkComponentRun(1, n, "failed", 0) /\ 0 \in 0 .. MaxTasks
    BY <1>7, WorkflowRunAssumption DEF PlanFails
  <2>2. step'[n].status = "failed" /\ \A m \in Steps : m # n => step'[m] = step[m]
    BY <2>1, MarkWrites DEF StepTerminal
  <2> QED
    BY <1>1, <1>2, <1>5, <2>1, <2>2, ExecuteMove
<1>8. CASE OnSubmitted(1, n)
  <2>1. /\ Becomes(1, n, "await") /\ MarkComponentRun(1, n, "running", attached[1][n])
        /\ attached[1][n] \in 0 .. MaxTasks
    BY <1>1, <1>3, <1>8 DEF OnSubmitted, AttemptsOK
  <2>2. step'[n].status = "running" /\ \A m \in Steps : m # n => step'[m] = step[m]
    BY <2>1, MarkWrites DEF InFlight
  <2> QED
    BY <1>1, <1>2, <1>5, <2>1, <2>2, ExecuteMove DEF Executing
<1>9. CASE Observe(1, n)
  <2> DEFINE p == task[n][attached[1][n]]
  <2>1. /\ Becomes(1, n, p) /\ MarkComponentRun(1, n, p, attached[1][n]) /\ p # "active"
        /\ attached[1][n] \in 0 .. MaxTasks
    BY <1>1, <1>3, <1>9 DEF Observe, AttemptsOK
  <2>2. p \in {"succeeded", "failed"}
    <3>1. attached[1][n] \in 1 .. Len(task[n])
      BY <1>1, <1>3, <1>9 DEF Observe, TypeInv, AttachedOK
    <3>2. task[n] \in Seq(Phases)
      BY <1>3 DEF TypeInv, TasksOK
    <3>3. p \in Phases
      BY <3>1, <3>2
    <3> QED
      BY <2>1, <3>3 DEF Phases
  <2> HIDE DEF p
  <2>3. step'[n].status = p /\ \A m \in Steps : m # n => step'[m] = step[m]
    BY <2>1, <2>2, MarkWrites DEF StepTerminal
  <2> QED
    BY <1>1, <1>2, <1>5, <2>1, <2>2, <2>3, ExecuteMove
<1>10. CASE ExecuteFails(1, n)
  <2> DEFINE s == IF attemptsRemain(1) THEN "running" ELSE "failed"
  <2>1. /\ Becomes(1, n, "failed") /\ MarkComponentRun(1, n, s, KnownRun(1, n))
        /\ KnownRun(1, n) \in 0 .. MaxTasks /\ s \in InFlight \cup StepTerminal
    BY <1>1, <1>3, <1>10, KnownRunType DEF ExecuteFails, InFlight, StepTerminal
  <2> HIDE DEF s
  <2>2. step'[n].status = s /\ \A m \in Steps : m # n => step'[m] = step[m]
    BY <2>1, MarkWrites
  <2>3. retryable'[1]
    BY <1>1, <1>3, <1>10 DEF ExecuteFails, AttemptsOK
  <2>4. s = "failed" \/ (s = "running" /\ Unsettled')
    BY <1>2, <2>3 DEF s, Unsettled, attemptsRemain
  <2> QED
    BY <1>1, <1>2, <1>5, <2>1, <2>2, <2>4, ExecuteMove
<1> QED
  BY <1>6, <1>7, <1>8, <1>9, <1>10

\* When schedule() returns every step has settled in its view: a pending step
\* that waits for no pending one is ready or blocked.
LEMMA ReturnsSettled ==
  ASSUME PlainRun, PlainInv, ScheduleReturns(1)
  PROVE  /\ \A n \in Steps : node[1][n] \in StepTerminal
         /\ final'[1] = IF \E n \in Steps : node[1][n] = "failed" THEN "failed" ELSE "succeeded"
<1>1. /\ 1 \in Jobs /\ AttemptsOK /\ ~ctxDone[1]
      /\ \A n \in Steps : NodeAgrees(n)
  BY DrivingKnows DEF ScheduleReturns, PlainInv, Alone
<1>2. Fixpoint(1) /\ Drained(1) /\ final' = [final EXCEPT ![1] = FinalStatus(1)]
  BY <1>1 DEF ScheduleReturns
<1>3. \A n \in Steps : node[1][n] \in NodeStates \ ({"parked"} \cup Executing)
  BY <1>1, <1>2 DEF NodeAgrees, Drained, AttemptsOK
<1>4. ASSUME {n \in Steps : node[1][n] = "pending"} # {} PROVE FALSE
  <2>1. PICK n \in Steps : node[1][n] = "pending" /\ \A d \in DependsOn[n] : node[1][d] # "pending" \/ d \notin Steps
    BY <1>4, FirstStep
  <2>2. \A d \in DependsOn[n] : node[1][d] \in StepTerminal
    BY <1>3, <2>1, NoSelfDependency DEF NodeStates
  <2>3. Ready(1, n) \/ Blocked(1, n)
    BY <2>2 DEF Ready, Blocked, Passed, Blocks, StepTerminal
  <2> QED
    BY <1>2, <2>1, <2>3 DEF Fixpoint, Sweepable
<1>5. \A n \in Steps : node[1][n] \in StepTerminal
  BY <1>3, <1>4 DEF NodeStates
<1>6. FinalStatus(1) = IF \E n \in Steps : node[1][n] = "failed" THEN "failed" ELSE "succeeded"
  BY <1>5 DEF FinalStatus, PlainRun, StepTerminal
<1>7. final'[1] = FinalStatus(1)
  BY <1>1, <1>2 DEF AttemptsOK
<1> QED
  BY <1>5, <1>6, <1>7

\* A run that is going to be settled has settled its rows; it succeeds when
\* they all have.
LEMMA SettlesWithRows ==
  ASSUME PlainRun, PlainInv, pc[1] \in {"finish", "sweep", "return"}, ~WillRetry(1)
  PROVE  /\ \A n \in Steps : step[n].status \in StepTerminal
         /\ final[1] = "succeeded" => \A n \in Steps : step[n].status = "succeeded"
<1>1. /\ \A n \in Steps : NodeAgrees(n) /\ node[1][n] \in StepTerminal
      /\ final[1] = IF \E n \in Steps : node[1][n] = "failed" THEN "failed" ELSE "succeeded"
  BY DEF PlainInv, AttemptAgrees
<1>2. ASSUME NEW n \in Steps, node[1][n] # "succeeded"
      PROVE  \E m \in Steps : node[1][m] = "failed"
  <2> DEFINE S == {m \in Steps : node[1][m] # "succeeded"}
  <2>1. S # {} /\ S \in SUBSET Steps
    BY <1>2
  <2>2. PICK m \in S : \A d \in DependsOn[m] : d \notin S
    BY <2>1, FirstStep
  <2>3. \A d \in DependsOn[m] : node[1][d] = "succeeded"
    BY <2>2, NoSelfDependency
  <2>4. node[1][m] # "skipped"
    BY <1>1, <2>3 DEF NodeAgrees
  <2> QED
    BY <1>1, <2>4 DEF StepTerminal
<1>3. Unsettled => final[1] = "succeeded"
  BY <1>1 DEF WillRetry, Unsettled
<1>4. final[1] = "succeeded" => \A n \in Steps : node[1][n] = "succeeded"
  BY <1>1, <1>2
<1>5. final[1] = "succeeded" => \A n \in Steps : step[n].status = "succeeded"
  BY <1>1, <1>4 DEF NodeAgrees
<1>6. ~Unsettled => \A n \in Steps : step[n].status \in StepTerminal
  BY <1>1 DEF NodeAgrees, StepTerminal
<1> QED
  BY <1>3, <1>5, <1>6 DEF StepTerminal

\* The plain invariant reads none of the TaskRuns, the recorded names and the
\* counters.
LEMMA PlainFrame ==
  ASSUME PlainInv, UNCHANGED <<status, jobID, step, job, attempt, handlers>>
  PROVE  Alone' /\ RowsAgree' /\ AttemptAgrees'
<1>1. Alone /\ RowsAgree /\ AttemptAgrees
  BY DEF PlainInv
<1>2. Alone'
  BY <1>1 DEF Alone, handlers, attempt
<1>3. RowsAgree'
  BY <1>1 DEF RowsAgree, handlers
<1>4. AttemptAgrees'
  BY <1>1 DEF AttemptAgrees, NodeAgrees, Unsettled, attemptsRemain, attempt
<1> QED
  BY <1>2, <1>3, <1>4

\* The statements of Work around schedule().
LEMMA WorkPlain ==
  ASSUME PlainRun, PlainInv,
         MarkRunning(1) \/ ScheduleReturns(1) \/ Suspend(1) \/ Finish(1) \/ Sweep(1)
  PROVE  Alone' /\ RowsAgree' /\ AttemptAgrees'
<1>t. /\ 1 \in Jobs /\ TypeInv /\ Alone /\ RowsAgree /\ AttemptAgrees
      /\ RowsOK /\ AttemptsOK /\ pc[1] # "off"
  BY WorkflowRunAssumption
  DEF PlainInv, TypeInv, Jobs, MarkRunning, ScheduleReturns, Driving, Suspend, Finish, Sweep
<1>r. ~ctxDone[1] /\ reaper.at = "idle"
  BY <1>t, OnlyFirstJob DEF Alone
<1>a. \A n \in Steps : NodeAgrees(n)
  BY <1>t DEF AttemptAgrees
<1>1. CASE MarkRunning(1)
  <2>1. pc'[1] = "drive" /\ MarkRun("running")
    BY <1>t, <1>r, <1>1 DEF MarkRunning, AttemptsOK
  <2>2. /\ status' # "awaiting_approval"
        /\ status' \in RunTerminal => status' = status
    BY <1>t, <2>1 DEF MarkRun, Alone, RunTerminal
  <2>3. Alone'
    BY <1>t, <1>1, <1>r, <2>2 DEF MarkRunning, Alone, handlers
  <2>4. RowsAgree'
    BY <1>t, <1>1, <2>2 DEF MarkRunning, RowsAgree, handlers, RunTerminal
  <2>5. \A n \in Steps : NodeAgrees(n)'
    BY <1>a, <1>1 DEF MarkRunning, NodeAgrees, Unsettled, attemptsRemain
  <2>6. AttemptAgrees'
    BY <2>1, <2>5 DEF AttemptAgrees
  <2> QED
    BY <2>3, <2>4, <2>6
<1>2. CASE ScheduleReturns(1)
  <2>1. pc'[1] = "finish"
    BY <1>t, <1>2 DEF ScheduleReturns, AttemptsOK
  <2>2. Alone' /\ RowsAgree'
    BY <1>t, <1>2 DEF ScheduleReturns, Alone, RowsAgree, handlers, rows
  <2>3. \A n \in Steps : NodeAgrees(n)'
    BY <1>a, <1>2 DEF ScheduleReturns, NodeAgrees, Unsettled, attemptsRemain, rows
  <2>4. node' = node
    BY <1>2 DEF ScheduleReturns
  <2>5. AttemptAgrees'
    BY <1>2, <2>1, <2>3, <2>4, ReturnsSettled DEF AttemptAgrees
  <2> QED
    BY <2>2, <2>5
<1>3. CASE Suspend(1)
  BY <1>t, <1>3 DEF Suspend, AttemptAgrees
<1>4. CASE Finish(1)
  <2>1. /\ \A n \in Steps : step[n].status \in StepTerminal
        /\ final[1] = "succeeded" => \A n \in Steps : step[n].status = "succeeded"
    BY <1>4, SettlesWithRows DEF Finish
  <2>2. final[1] \in {"failed", "succeeded"}
    BY <1>t, <1>4 DEF Finish, AttemptAgrees
  <2>3. status' \in RunTerminal /\ (status' = "succeeded" => status = "succeeded" \/ final[1] = "succeeded")
    BY <1>t, <1>4, <2>2 DEF Finish, MarkRun, RowsOK, RunTerminal
  <2>4. Alone'
    BY <1>t, <1>4, <1>r, <2>3 DEF Finish, Alone, handlers, RunTerminal
  <2>5. RowsAgree'
    BY <1>t, <1>4, <2>1, <2>3 DEF Finish, RowsAgree, handlers
  <2>6. pc'[1] \in {"sweep", "return"}
    BY <1>t, <1>4 DEF Finish, AttemptsOK
  <2>7. \A n \in Steps : NodeAgrees(n)'
    BY <1>a, <1>4 DEF Finish, NodeAgrees, Unsettled, attemptsRemain
  <2>8. UNCHANGED <<node, final>> /\ pc[1] = "finish"
    BY <1>4 DEF Finish
  <2>9. AttemptAgrees'
    BY <1>t, <2>3, <2>6, <2>7, <2>8 DEF AttemptAgrees
  <2> QED
    BY <2>4, <2>5, <2>9
<1>5. CASE Sweep(1)
  <2>1. \A n \in Steps : step[n].status \in StepTerminal
    BY <1>t, <1>r, <1>5 DEF Sweep, AttemptAgrees, RowsAgree
  <2>2. \A n \in Steps : step'[n] = step[n]
    BY <1>5, <2>1 DEF Sweep, SettleStuckComponentRuns, SweepSteps, InFlight, StepTerminal
  <2>3. pc'[1] = "return"
    BY <1>t, <1>5 DEF Sweep, AttemptsOK
  <2>4. Alone'
    BY <1>t, <1>5, <2>2 DEF Sweep, Alone, handlers
  <2>5. RowsAgree'
    <3>1. UNCHANGED <<status, job, reaper>>
      BY <1>5 DEF Sweep, handlers
    <3>2. \A n \in Steps : DependsOn[n] \subseteq Steps
      BY WorkflowRunAssumption
    <3> QED
      BY <1>t, <2>2, <3>1, <3>2 DEF RowsAgree
  <2>6. \A n \in Steps : NodeAgrees(n)'
    BY <1>a, <1>5, <2>2 DEF Sweep, NodeAgrees, Unsettled, attemptsRemain
  <2>7. UNCHANGED <<node, final, status>> /\ pc[1] = "sweep"
    BY <1>5 DEF Sweep
  <2>8. AttemptAgrees'
    BY <1>t, <2>3, <2>6, <2>7 DEF AttemptAgrees
  <2> QED
    BY <2>4, <2>5, <2>8
<1> QED
  BY <1>1, <1>2, <1>3, <1>4, <1>5

\* River's side: the job is fetched, returned, lost and rescued.
LEMMA QueuePlain ==
  ASSUME PlainRun, PlainInv, Fetch(1) \/ Rescue(1) \/ Crash(1) \/ Return(1)
  PROVE  Alone' /\ RowsAgree' /\ AttemptAgrees'
<1>t. /\ 1 \in Jobs /\ TypeInv /\ Alone /\ RowsAgree /\ AttemptAgrees
      /\ AttemptsOK /\ QueueOK /\ RunningOK
  BY WorkflowRunAssumption DEF PlainInv, TypeInv, Jobs
<1>1. job[1].state \in LiveJob
  BY <1>t DEF Fetch, Rescue, Crash, Return, RunningOK, LiveJob
<1>2. reaper.at = "idle"
  BY <1>t, <1>1 DEF Alone
<1>3. UNCHANGED <<status, jobID, step, decide, canceller, reaper>>
  BY DEF Fetch, Rescue, Crash, Return, rows, handlers
<1>4. \A j \in Jobs : j # 1 => job'[j].state = "none"
  BY <1>t DEF Fetch, Rescue, Crash, Return, Alone, QueueOK
<1>5. \A j \in Jobs : ~ctxDone'[j]
  BY <1>t DEF Fetch, Rescue, Crash, Return, Leave, attempt, Alone, AttemptsOK
<1>6. Alone'
  BY <1>t, <1>2, <1>3, <1>4, <1>5 DEF Alone
<1>7. RowsAgree'
  BY <1>t, <1>1, <1>3 DEF RowsAgree
<1>8. CASE Fetch(1)
  <2>1. pc[1] = "off" /\ pc'[1] = "loaded"
    BY <1>t, <1>8 DEF Fetch, RunningOK, AttemptsOK
  <2>2. \A n \in Steps : node'[1][n] = "pending"
    BY <1>t, <1>8, <2>1 DEF Fetch, AttemptAgrees
  <2>3. \A n \in Steps : seen'[1][n] = step'[n]
    BY <1>t, <1>3, <1>8 DEF Fetch, AttemptsOK
  <2>4. \A n \in Steps : NodeAgrees(n)'
    BY <2>2, <2>3 DEF NodeAgrees, Executing
  <2> QED
    BY <1>6, <1>7, <2>1, <2>2, <2>4 DEF AttemptAgrees
<1>9. CASE Rescue(1)
  <2>1. pc'[1] = "off" /\ pc[1] = "off" /\ node' = node
    BY <1>9 DEF Rescue, attempt
  <2> QED
    BY <1>t, <1>6, <1>7, <2>1 DEF AttemptAgrees
<1>10. CASE Crash(1) \/ Return(1)
  <2>1. pc'[1] = "off" /\ \A n \in Steps : node'[1][n] = "pending"
    BY <1>t, <1>10 DEF Crash, Return, Leave, AttemptsOK
  <2> QED
    BY <1>6, <1>7, <2>1 DEF AttemptAgrees
<1> QED
  BY <1>8, <1>9, <1>10

\* The reaper settles the run of a job that is gone.
LEMMA ReaperPlain ==
  ASSUME PlainRun, PlainInv, Reaper
  PROVE  Alone' /\ RowsAgree' /\ AttemptAgrees'
<1>t. 1 \in Jobs /\ TypeInv /\ Alone /\ RowsAgree /\ AttemptAgrees /\ RowsOK /\ HandlersOK
  BY WorkflowRunAssumption DEF PlainInv, TypeInv, Jobs
<1>1. FindStuck \/ ReapStuckRun \/ ReapSteps
  BY <1>t DEF Reaper, FindExpired, ExpireSteps, ExpireRun, ExpireSweep, Alone
<1>2. job[1].state \notin LiveJob
  BY <1>t, <1>1 DEF FindStuck, ReapStuckRun, ReapSteps, Alone
<1>3. pc[1] = "off"
  BY <1>t, <1>2, OnlyFirstJob
<1>4. UNCHANGED <<jobID, job, pc, seen, node, attached, ctxDone, retryable, final, decide, canceller>>
  BY <1>1 DEF FindStuck, ReapStuckRun, ReapSteps, attempt, rows
<1>5. AttemptAgrees'
  BY <1>t, <1>3, <1>4 DEF AttemptAgrees
<1> SUFFICES Alone' /\ RowsAgree'
  BY <1>5
<1>6. CASE FindStuck
  <2>1. reaper'.at = "stuck" /\ reaper.at = "idle" /\ UNCHANGED <<status, step>>
    BY <1>6 DEF FindStuck, rows
  <2> QED
    BY <1>t, <1>2, <1>4, <2>1 DEF Alone, RowsAgree
<1>7. CASE ReapStuckRun
  <2>1. /\ UNCHANGED step /\ reaper.at = "stuck"
        /\ \/ reaper'.at = "reaped" /\ status' = "failed"
           \/ reaper'.at = "idle" /\ status' = status
    BY <1>t, <1>7 DEF ReapStuckRun, MarkRun, NoReap, HandlersOK
  <2> QED
    BY <1>t, <1>2, <1>4, <2>1 DEF Alone, RowsAgree
<1>8. CASE ReapSteps
  <2>1. reaper.at = "reaped" /\ reaper'.at = "idle" /\ UNCHANGED status /\ status = "failed"
    BY <1>t, <1>8 DEF ReapSteps, NoReap, Alone
  <2>2. \A n \in Steps : step[n].status \in {"pending", "running"} \cup StepTerminal
    BY <1>t DEF RowsOK, Row, Alone, InFlight
  <2>3. \A n \in Steps :
          /\ step[n].status \in {"pending", "running"} => step'[n].status = "failed"
          /\ step[n].status \in StepTerminal => step'[n] = step[n]
    BY <1>t, <1>8 DEF ReapSteps, SweepSteps, ReapedStatuses, RowsOK, Row, StepTerminal
  <2>4. Alone'
    BY <1>t, <1>2, <1>4, <2>1, <2>2, <2>3 DEF Alone, StepTerminal
  <2>5. \A n \in Steps : step'[n].status = "skipped" =>
          \E d \in DependsOn[n] : step'[d].status \in {"failed", "skipped"}
    <3>1. ASSUME NEW n \in Steps, step'[n].status = "skipped"
          PROVE  \E d \in DependsOn[n] : step'[d].status \in {"failed", "skipped"}
      <4>1. step[n].status = "skipped"
        BY <2>2, <2>3, <3>1 DEF StepTerminal
      <4>2. PICK d \in DependsOn[n] : step[d].status \in {"failed", "skipped"}
        BY <1>t, <4>1 DEF RowsAgree
      <4>3. d \in Steps
        BY WorkflowRunAssumption
      <4> QED
        BY <2>3, <4>2, <4>3 DEF StepTerminal
    <3> QED
      BY <3>1
  <2>6. \A n \in Steps : step'[n].status \in StepTerminal
    BY <2>2, <2>3 DEF StepTerminal
  <2>7. RowsAgree'
    BY <1>2, <1>4, <2>1, <2>5, <2>6 DEF RowsAgree
  <2> QED
    BY <2>4, <2>7
<1> QED
  BY <1>1, <1>6, <1>7, <1>8

\* Every step of a plain run keeps its rows, its attempt and its status in
\* agreement.
LEMMA PlainNext == ASSUME PlainRun, PlainInv, [Next]_vars PROVE PlainInv'
<1>t. TypeInv /\ Alone
  BY DEF PlainInv
<1>1. TypeInv'
  BY <1>t, TypeInvNext
<1> SUFFICES Alone' /\ RowsAgree' /\ AttemptAgrees'
  BY <1>1 DEF PlainInv
<1>2. ASSUME NEW j \in Jobs, Fetch(j) \/ Rescue(j) \/ Crash(j) \/ Work(j)
      PROVE  Alone' /\ RowsAgree' /\ AttemptAgrees'
  <2>1. j = 1
    <3>1. job[j].state # "none" \/ pc[j] # "off"
      BY <1>2 DEF Fetch, Rescue, Crash, Work, StepWork, MarkRunning, Skip, Park, Launch, PlanFails,
                  Lookup, ListFails, Submit, OnSubmitted, Observe, ExecuteFails, ScheduleReturns,
                  Suspend, Finish, Sweep, Return, Driving
    <3> QED
      BY <1>t, <3>1, OnlyFirstJob
  <2>2. ASSUME NEW n \in Steps PROVE ~Park(1, n)
    BY DEF Park, GateClosed, PlainRun
  <2> QED
    BY <1>2, <2>1, <2>2, QueuePlain, WorkPlain, SkipPlain, LaunchPlain, ExecutePlain DEF Work, StepWork
<1>3. ASSUME NEW j \in Jobs, Abort(j) PROVE FALSE
  BY <1>3 DEF Abort, PlainRun
<1>4. ASSUME NEW n \in Steps, TaskEnds(n) PROVE Alone' /\ RowsAgree' /\ AttemptAgrees'
  BY <1>4, PlainFrame DEF TaskEnds, rows
<1>5. ASSUME NEW n \in Steps, Handler(n) \/ \E d \in {"approve", "reject"} : DecideCheck(n, d)
      PROVE  FALSE
  BY <1>t, <1>5 DEF Handler, DecideWrite, DecideInsert, DecideSetRunJob, DecideFails, DecideCheck,
                    Alone, PlainRun
<1>6. ASSUME CancelRun \/ CancelJob PROVE FALSE
  BY <1>t, <1>6 DEF CancelRun, CancelJob, Alone, PlainRun
<1>7. CASE Reaper
  BY <1>7, ReaperPlain
<1>8. CASE UNCHANGED vars
  BY <1>8, PlainFrame DEF vars, attempt, handlers
<1> QED
  BY <1>2, <1>3, <1>4, <1>5, <1>6, <1>7, <1>8 DEF Next

-----------------------------------------------------------------------------
(* What a plain run guarantees *)

\* A TaskRun appears on the cluster only when Execute submits it.
LEMMA OnlySubmitSubmits ==
  ASSUME TypeInv, [Next]_vars, NEW n \in Steps, Len(task'[n]) > Len(task[n])
  PROVE  \E j \in Jobs : Submit(j, n)
<1>t. TasksOK
  BY DEF TypeInv
<1>0. Len(task[n]) \in Nat
  BY <1>t DEF TasksOK
<1>1. task' # task
  BY <1>0
<1>2. ASSUME NEW m \in Steps, TaskEnds(m) PROVE FALSE
  <2>1. Len(task'[n]) = Len(task[n])
    BY <1>2, TaskEndsKeepsTypes
  <2> QED
    BY <1>0, <2>1
<1>3. PICK j \in Jobs, m \in Steps : Submit(j, m)
  <2>1. PICK j \in Jobs : Work(j)
    BY <1>1, <1>2
    DEF Next, Fetch, Rescue, Crash, Abort, Handler, DecideWrite, DecideInsert, DecideSetRunJob,
        DecideFails, DecideCheck, CancelRun, CancelJob, Reaper, FindStuck, ReapStuckRun, ReapSteps,
        FindExpired, ExpireSteps, ExpireRun, ExpireSweep, vars
  <2> QED
    BY <1>1, <2>1
    DEF Work, StepWork, MarkRunning, Skip, Park, Launch, PlanFails, Lookup, ListFails, OnSubmitted,
        Observe, ExecuteFails, ScheduleReturns, Suspend, Finish, Sweep, Return
<1>4. m # n => task'[n] = task[n]
  BY <1>3, <1>t DEF Submit, TasksOK
<1> QED
  BY <1>0, <1>3, <1>4

\* What is submitted belongs to a step of a run that is in flight.
LEMMA SubmitsARunningStep ==
  ASSUME PlainRun, PlainInv, [Next]_vars, NEW n \in Steps, Len(task'[n]) > Len(task[n])
  PROVE  /\ Submit(1, n)
         /\ status \in InFlight
<1>1. PICK j \in Jobs : Submit(j, n)
  BY OnlySubmitSubmits DEF PlainInv
<1>2. j = 1
  BY <1>1, OnlyFirstJob DEF PlainInv, Submit, Driving
<1>3. Driving(1) /\ node[1][n] = "submit"
  BY <1>1, <1>2 DEF Submit
<1>4. step[n].status = "running" /\ job[1].state \in LiveJob
  BY <1>3, DrivingKnows DEF NodeAgrees, Executing
<1>5. status \notin RunTerminal
  BY <1>3, <1>4, DrivingKnows DEF StepTerminal
<1>6. status \in InFlight
  BY <1>5 DEF PlainInv, TypeInv, RowsOK
<1> QED
  BY <1>1, <1>2, <1>6

\* A run that succeeded has no step that did not, and when nothing is left to
\* act on a settled run its steps have settled, wherever crashes and transient
\* errors fell (worker.go: Work, runComponent; recovery.go: ReapStuckRuns).
THEOREM PlainRunAccountsForItsSteps ==
  ASSUME PlainRun PROVE Spec => []SettledRunAccountsForItsSteps
<1>1. PlainInv => SettledRunAccountsForItsSteps
  BY DEF PlainInv, RowsAgree, SettledRunAccountsForItsSteps, Quiet
<1> QED
  BY <1>1, PlainInit, PlainNext, PTL DEF Spec

\* The attempt that settles a run is the last one to submit anything for it:
\* an attempt that follows finds every row settled.
THEOREM PlainRunSubmitsNothingAfterSettle ==
  ASSUME PlainRun PROVE Spec => NothingSubmittedAfterSettle
<1>1. PlainInv /\ [Next]_vars =>
        [(\E n \in Steps : Len(task'[n]) > Len(task[n])) => status \in InFlight]_vars
  BY SubmitsARunningStep
<1> QED
  BY <1>1, PlainInit, PlainNext, PTL DEF Spec, NothingSubmittedAfterSettle

-----------------------------------------------------------------------------
(* A retry re-attaches *)

\* At first nothing is on the cluster.
LEMMA ReattachInit == ASSUME Init PROVE ReattachInv
<1>1. 1 \in Jobs
  BY WorkflowRunAssumption DEF Jobs
<1>2. \A n \in Steps : task[n] = << >> /\ Len(task[n]) = 0 /\ Active(n) = {}
  BY DEF Init, Active
<1>3. ~retryable[1] /\ BeforeCrash
  BY <1>1, <1>2 DEF Init, BeforeCrash, NoRow
<1>4. FindsActive
  BY <1>1, <1>2 DEF Init, FindsActive
<1> QED
  BY <1>3, <1>4 DEF Init, ReattachInv

\* Most steps neither submit nor look for a TaskRun: they move nodes forward
\* and write rows, and of the names only those of submitted TaskRuns.
LEMMA ReattachMove ==
  ASSUME ReattachInv,
         UNCHANGED <<task, job, seen, retryable, crashes, errors>>,
         pc'[1] = "off" <=> pc[1] = "off",
         \A n \in Steps :
           /\ node'[1][n] \in {"pending", "exec"} => node[1][n] \in {"pending", "exec"}
           /\ node'[1][n] = "submit" => node[1][n] = "submit"
           /\ \/ step'[n].runName = step[n].runName
              \/ pc[1] # "off" /\ step'[n].runName <= Len(task[n])
  PROVE  ReattachInv'
<1>1. CASE ~(crashes <= 1 /\ errors = 0)
  BY <1>1 DEF ReattachInv
<1>2. CASE crashes <= 1 /\ errors = 0
  <2>1. ~retryable[1] /\ BeforeCrash /\ FindsActive
    BY <1>2 DEF ReattachInv
  <2>2. BeforeCrash'
    BY <2>1 DEF BeforeCrash
  <2>3. \A n \in Steps : Active(n)' = Active(n)
    BY DEF Active
  <2>4. FindsActive'
    BY <2>1, <2>3 DEF FindsActive
  <2> QED
    BY <2>1, <2>2, <2>4 DEF ReattachInv
<1> QED
  BY <1>1, <1>2

\* Marks name a submitted TaskRun, or none.
LEMMA ReattachMark ==
  ASSUME PlainRun, PlainInv, ReattachInv, NEW n \in Steps,
         \/ Skip(1, n) \/ Launch(1, n) \/ PlanFails(1, n) \/ OnSubmitted(1, n) \/ Observe(1, n)
  PROVE  ReattachInv'
<1>t. 1 \in Jobs /\ Driving(1) /\ AttemptsOK /\ TypeInv /\ TasksOK
  BY WorkflowRunAssumption
  DEF Jobs, PlainInv, TypeInv, Skip, Launch, PlanFails, OnSubmitted, Observe
<1>1. PICK x : x \notin {"pending", "submit"} /\ Becomes(1, n, x) /\ (x = "exec" => node[1][n] = "pending")
  <2>1. Observe(1, n) => task[n][attached[1][n]] \in {"succeeded", "failed"}
    <3>1. SUFFICES ASSUME Observe(1, n) PROVE task[n][attached[1][n]] \in {"succeeded", "failed"}
      OBVIOUS
    <3>2. attached[1][n] \in 1 .. Len(task[n]) /\ task[n] \in Seq(Phases)
      BY <1>t, <3>1 DEF Observe, TypeInv, AttachedOK, TasksOK
    <3>3. task[n][attached[1][n]] \in Phases
      BY <3>2
    <3> QED
      BY <3>1, <3>3 DEF Observe, Phases
  <2> QED
    BY <2>1
    DEF Skip, Launch, PlanFails, OnSubmitted, Observe, Sweepable, ShortCircuit, StepTerminal
<1>2. node'[1][n] = x /\ \A m \in Steps : m # n => node'[1][m] = node[1][m]
  BY <1>t, <1>1, BecomesOnly
<1>3. PICK s \in InFlight \cup StepTerminal, t \in 0 .. MaxTasks :
        /\ MarkComponentRun(1, n, s, t) \/ UNCHANGED step
        /\ t # 0 => t \in 1 .. Len(task[n])
  <2>1. CASE Skip(1, n) \/ Launch(1, n) \/ PlanFails(1, n)
    BY <2>1, WorkflowRunAssumption DEF Skip, Launch, PlanFails, InFlight, StepTerminal
  <2>2. CASE OnSubmitted(1, n)
    <3>1. attached[1][n] \in 1 .. Len(task[n]) /\ attached[1][n] \in 0 .. MaxTasks
      BY <1>t, <2>2 DEF OnSubmitted, TypeInv, NamedOK, AttemptsOK
    <3> QED
      BY <2>2, <3>1 DEF OnSubmitted, InFlight
  <2>3. CASE Observe(1, n)
    <3>1. attached[1][n] \in 1 .. Len(task[n]) /\ attached[1][n] \in 0 .. MaxTasks
      BY <1>t, <2>3 DEF Observe, TypeInv, AttachedOK, AttemptsOK
    <3>2. task[n] \in Seq(Phases)
      BY <1>t DEF TasksOK
    <3>3. task[n][attached[1][n]] \in Phases
      BY <3>1, <3>2
    <3>4. task[n][attached[1][n]] \in InFlight \cup StepTerminal
      BY <2>3, <3>3 DEF Observe, Phases, StepTerminal
    <3> QED
      BY <2>3, <3>1, <3>4 DEF Observe
  <2> QED
    BY <2>1, <2>2, <2>3
<1>4. \A m \in Steps : step'[m].runName = step[m].runName \/ step'[m].runName <= Len(task[m])
  <2>1. CASE UNCHANGED step
    BY <2>1
  <2>2. CASE MarkComponentRun(1, n, s, t)
    <3>1. /\ step'[n].runName = IF t = 0 THEN step[n].runName ELSE t
          /\ \A m \in Steps : m # n => step'[m] = step[m]
      BY <2>2, MarkWrites
    <3>2. step'[n].runName = step[n].runName \/ step'[n].runName <= Len(task[n])
      BY <1>3, <3>1
    <3> QED
      BY <3>1, <3>2
  <2> QED
    BY <1>3, <2>1, <2>2
<1>5. UNCHANGED <<task, job, pc, seen, retryable, crashes, errors>>
  BY DEF Skip, Launch, PlanFails, OnSubmitted, Observe
<1>6. \A m \in Steps :
        /\ node'[1][m] \in {"pending", "exec"} => node[1][m] \in {"pending", "exec"}
        /\ node'[1][m] = "submit" => node[1][m] = "submit"
  BY <1>1, <1>2
<1> QED
  BY <1>t, <1>4, <1>5, <1>6, ReattachMove DEF Driving

\* recover finds the active TaskRun if there is one, so Execute submits only
\* when there is none.
LEMMA ReattachLookup ==
  ASSUME PlainRun, PlainInv, ReattachInv, NEW n \in Steps, Lookup(1, n)
  PROVE  ReattachInv'
<1>t. 1 \in Jobs /\ AttemptsOK /\ TypeInv /\ pc[1] # "off" /\ node[1][n] = "exec" /\ job[1].state \in LiveJob
  BY DrivingKnows DEF PlainInv, Lookup, Driving
<1>u. UNCHANGED <<step, task, job, pc, seen, retryable, crashes, errors>>
  BY DEF Lookup, rows
<1> SUFFICES ASSUME crashes <= 1, errors = 0 PROVE (~retryable[1] /\ BeforeCrash /\ FindsActive)'
  BY <1>u DEF ReattachInv
<1>1. ~retryable[1] /\ BeforeCrash /\ FindsActive
  BY DEF ReattachInv
<1>2. PICK x \in {"await", "submit"} : Becomes(1, n, x) /\ (x = "submit" => Candidate(1, n) \notin Active(n))
  BY DEF Lookup
<1>3. node'[1][n] = x /\ \A m \in Steps : m # n => node'[1][m] = node[1][m]
  BY <1>t, <1>2, BecomesOnly
<1>4. \A m \in Steps : Active(m)' = Active(m)
  BY <1>u DEF Active
<1>5. x = "submit" => Active(n) = {}
  <2>1. SUFFICES ASSUME x = "submit", Active(n) # {} PROVE FALSE
    OBVIOUS
  <2>2. Candidate(1, n) \notin Active(n)
    BY <1>2, <2>1
  <2>3. \A t, u \in Active(n) : t = u
    BY <1>1 DEF FindsActive
  <2>4. seen[1][n].runName = 0
    <3>1. SUFFICES ASSUME seen[1][n].runName # 0 PROVE FALSE
      OBVIOUS
    <3>2. Candidate(1, n) = seen[1][n].runName
      BY <3>1 DEF Candidate
    <3>3. Active(n) \subseteq {seen[1][n].runName}
      BY <1>1, <1>t, <3>1 DEF FindsActive
    <3> QED
      BY <2>1, <2>2, <3>2, <3>3
  <2>5. Candidate(1, n) = CHOOSE t \in Active(n) : \A u \in Active(n) : u <= t
    BY <2>1, <2>4 DEF Candidate
  <2>6. \A t \in Active(n) : t \in Nat
    <3>1. task[n] \in Seq(Phases)
      BY <1>t DEF TypeInv, TasksOK
    <3> QED
      BY <3>1 DEF Active
  <2>7. \E t \in Active(n) : \A u \in Active(n) : u <= t
    BY <2>1, <2>3, <2>6
  <2>8. (CHOOSE t \in Active(n) : \A u \in Active(n) : u <= t) \in Active(n)
    BY <2>7
  <2> QED
    BY <2>2, <2>5, <2>8
<1>6. BeforeCrash'
  BY <1>1, <1>t, <1>u, <1>2, <1>3 DEF BeforeCrash
<1>7. FindsActive'
  <2>1. ASSUME NEW m \in Steps PROVE node'[1][m] = "submit" => Active(m) = {}
    BY <1>1, <1>3, <1>5 DEF FindsActive
  <2>2. ASSUME NEW m \in Steps
        PROVE  node'[1][m] \in {"pending", "exec"} => node[1][m] \in {"pending", "exec"}
    BY <1>2, <1>3
  <2> QED
    BY <1>1, <1>u, <1>4, <2>1, <2>2 DEF FindsActive
<1> QED
  BY <1>1, <1>u, <1>6, <1>7

\* The fresh TaskRun is the only active one.
LEMMA ReattachSubmit ==
  ASSUME PlainRun, PlainInv, ReattachInv, NEW n \in Steps, Submit(1, n)
  PROVE  ReattachInv'
<1>t. /\ 1 \in Jobs /\ AttemptsOK /\ TypeInv /\ TasksOK
      /\ pc[1] # "off" /\ node[1][n] = "submit" /\ job[1].state \in LiveJob
  BY DrivingKnows DEF PlainInv, Submit, Driving, TypeInv
<1>u. UNCHANGED <<step, job, pc, seen, retryable, crashes, errors>>
  BY DEF Submit, rows
<1> SUFFICES ASSUME crashes <= 1, errors = 0 PROVE (~retryable[1] /\ BeforeCrash /\ FindsActive)'
  BY <1>u DEF ReattachInv
<1>1. ~retryable[1] /\ BeforeCrash /\ FindsActive
  BY DEF ReattachInv
<1>2. node'[1][n] = "named" /\ \A m \in Steps : m # n => node'[1][m] = node[1][m]
  BY <1>t, BecomesOnly DEF Submit
<1>3. task[n] \in Seq(Phases) /\ Len(task[n]) \in Nat
  BY <1>t DEF TasksOK
<1>4. task'[n] = Append(task[n], "active") /\ \A m \in Steps : m # n => task'[m] = task[m]
  BY <1>t DEF Submit, TasksOK
<1>5. Len(task'[n]) = Len(task[n]) + 1
  BY <1>3, <1>4
<1>6. Active(n) = {} /\ \A t \in 1 .. Len(task[n]) : task[n][t] # "active"
  BY <1>1, <1>t, <1>3 DEF FindsActive, Active
<1>7. \A t, u \in Active(n)' : t = u
  <2>1. \A t \in DOMAIN task'[n] : task'[n][t] = "active" => t = Len(task[n]) + 1
    <3>1. \A t \in 1 .. Len(task[n]) : task'[n][t] = task[n][t]
      BY <1>3, <1>4
    <3>2. DOMAIN task'[n] = 1 .. Len(task[n]) + 1
      BY <1>3, <1>4
    <3> QED
      BY <1>3, <1>6, <3>1, <3>2
  <2> QED
    BY <2>1 DEF Active
<1>8. \A m \in Steps : m # n => Active(m)' = Active(m)
  BY <1>4 DEF Active
<1>9. BeforeCrash'
  <2>1. SUFFICES ASSUME crashes = 0 PROVE BeforeCrash'
    BY <1>u DEF BeforeCrash
  <2>2. Len(task[n]) = 0
    BY <1>1, <1>t, <2>1 DEF BeforeCrash
  <2>3. ASSUME NEW m \in Steps
        PROVE  /\ Len(task'[m]) <= 1
               /\ step'[m].runName <= Len(task'[m])
               /\ job'[1].state \in LiveJob /\ node'[1][m] \in {"pending", "exec", "submit"} =>
                    Len(task'[m]) = 0
    <3>1. CASE m = n
      <4>1. step[n].runName <= 0 /\ step[n].runName \in Nat
        BY <1>1, <1>t, <2>1, <2>2 DEF BeforeCrash, TypeInv, RowsOK, Row
      <4>2. Len(task'[n]) = 1
        BY <1>5, <2>2
      <4>3. step'[n].runName <= 1
        BY <1>u, <4>1
      <4>4. node'[1][n] \notin {"pending", "exec", "submit"}
        BY <1>2
      <4> QED
        BY <3>1, <4>2, <4>3, <4>4
    <3>2. CASE m # n
      BY <1>1, <1>2, <1>4, <1>u, <2>1, <3>2 DEF BeforeCrash
    <3> QED
      BY <3>1, <3>2
  <2> QED
    BY <1>1, <1>u, <2>1, <2>3 DEF BeforeCrash
<1>10. FindsActive'
  <2>1. ASSUME NEW m \in Steps
        PROVE  /\ \A t, u \in Active(m)' : t = u
               /\ job'[1].state \in LiveJob /\ pc'[1] = "off" =>
                    (step'[m].runName # 0 => Active(m)' \subseteq {step'[m].runName})
               /\ pc'[1] # "off" /\ node'[1][m] \in {"pending", "exec"} =>
                    (seen'[1][m].runName # 0 => Active(m)' \subseteq {seen'[1][m].runName})
               /\ node'[1][m] = "submit" => Active(m)' = {}
    <3>1. CASE m = n
      BY <1>2, <1>7, <1>t, <1>u, <3>1
    <3>2. CASE m # n
      BY <1>1, <1>2, <1>8, <1>t, <1>u, <3>2 DEF FindsActive
    <3> QED
      BY <3>1, <3>2
  <2> QED
    BY <2>1 DEF FindsActive
<1> QED
  BY <1>1, <1>u, <1>9, <1>10

\* A TaskRun that ends is active no more.
LEMMA ReattachTaskEnds ==
  ASSUME PlainRun, PlainInv, ReattachInv, NEW n \in Steps, TaskEnds(n)
  PROVE  ReattachInv'
<1>t. TypeInv /\ TasksOK
  BY DEF PlainInv, TypeInv
<1>u. UNCHANGED <<step, job, pc, seen, node, retryable, crashes, errors>>
  BY DEF TaskEnds, rows, attempt
<1>1. \A m \in Steps : Len(task'[m]) = Len(task[m])
  BY <1>t, TaskEndsKeepsTypes
<1>2. PICK t \in Active(n), phase \in {"succeeded", "failed"} : task' = [task EXCEPT ![n][t] = phase]
  BY DEF TaskEnds
<1>3. ASSUME NEW m \in Steps PROVE Active(m)' \subseteq Active(m)
  <2>1. CASE m # n
    BY <1>2, <1>t, <2>1 DEF Active, TasksOK
  <2>2. CASE m = n
    <3>1. task[n] \in Seq(Phases) /\ task'[n] = [task[n] EXCEPT ![t] = phase]
      BY <1>2, <1>t DEF TasksOK
    <3>2. t \in DOMAIN task[n]
      BY DEF Active
    <3>3. DOMAIN task'[n] = DOMAIN task[n]
      BY <3>1
    <3>4. task'[n][t] = phase /\ \A u \in DOMAIN task[n] : u # t => task'[n][u] = task[n][u]
      BY <3>1, <3>2
    <3>5. \A u \in DOMAIN task'[n] : task'[n][u] = "active" => u \in DOMAIN task[n] /\ task[n][u] = "active"
      BY <1>2, <3>3, <3>4
    <3> QED
      BY <2>2, <3>5 DEF Active
  <2> QED
    BY <2>1, <2>2
<1> SUFFICES ASSUME crashes <= 1, errors = 0 PROVE (~retryable[1] /\ BeforeCrash /\ FindsActive)'
  BY <1>u DEF ReattachInv
<1>4. ~retryable[1] /\ BeforeCrash /\ FindsActive
  BY DEF ReattachInv
<1>5. BeforeCrash'
  BY <1>1, <1>4, <1>u DEF BeforeCrash
<1>6. FindsActive'
  BY <1>3, <1>4, <1>u DEF FindsActive
<1> QED
  BY <1>4, <1>5, <1>6, <1>u

\* Wherever the one crash falls, the rows name what was submitted or name
\* nothing, and an attempt loads the rows as they are.
LEMMA ReattachQueue ==
  ASSUME PlainRun, PlainInv, ReattachInv, Fetch(1) \/ Rescue(1) \/ Crash(1) \/ Return(1)
  PROVE  ReattachInv'
<1>t. /\ 1 \in Jobs /\ TypeInv /\ AttemptsOK /\ QueueOK /\ RunningOK /\ Alone /\ TasksOK /\ AttemptAgrees
      /\ RowsOK
  BY WorkflowRunAssumption DEF PlainInv, TypeInv, Jobs
<1>u. UNCHANGED <<step, task, errors>> /\ crashes \in Nat /\ errors \in Nat
  BY DEF Fetch, Rescue, Crash, Return, rows, ReattachInv
<1>c. crashes' \in Nat /\ crashes <= crashes'
  <2>1. crashes' = crashes \/ crashes' = crashes + 1
    BY Zenon DEF Fetch, Rescue, Crash, Return
  <2> QED
    BY <1>u, <2>1
<1>l. job[1].state \in LiveJob
  BY <1>t DEF Fetch, Rescue, Crash, Return, RunningOK, LiveJob
<1>n. \A n \in Steps : Active(n)' = Active(n)
  BY <1>u DEF Active
<1> SUFFICES ASSUME crashes' <= 1, errors' = 0 PROVE (~retryable[1] /\ BeforeCrash /\ FindsActive)'
  BY <1>u, <1>c DEF ReattachInv
<1>1. ~retryable[1] /\ BeforeCrash /\ FindsActive /\ crashes <= 1 /\ errors = 0
  BY <1>u, <1>c DEF ReattachInv
<1>2. CASE Fetch(1)
  <2>1. /\ pc[1] = "off" /\ pc'[1] = "loaded" /\ UNCHANGED <<node, retryable, crashes>>
        /\ job'[1].state = "running"
    BY <1>t, <1>2 DEF Fetch, RunningOK, AttemptsOK, QueueOK
  <2>2. \A n \in Steps : seen'[1][n] = step[n]
    BY <1>t, <1>2 DEF Fetch, AttemptsOK
  <2>3. BeforeCrash'
    BY <1>1, <1>l, <1>u, <2>1 DEF BeforeCrash, LiveJob
  <2>4. FindsActive'
    BY <1>1, <1>l, <1>n, <1>u, <2>1, <2>2 DEF FindsActive
  <2> QED
    BY <1>1, <2>1, <2>3, <2>4
<1>3. CASE Rescue(1)
  <2>1. /\ pc[1] = "off" /\ job[1].state = "running"
        /\ UNCHANGED <<pc, node, seen, retryable, crashes>>
    BY <1>3 DEF Rescue, attempt
  <2>2. crashes # 0
    BY <1>1, <2>1 DEF BeforeCrash
  <2>3. BeforeCrash'
    BY <2>1, <2>2 DEF BeforeCrash
  <2>4. FindsActive'
    BY <1>1, <1>l, <1>n, <1>u, <2>1 DEF FindsActive
  <2> QED
    BY <1>1, <2>1, <2>3, <2>4
<1>4. CASE Crash(1)
  <2>1. /\ pc'[1] = "off" /\ ~retryable'[1]
        /\ \A n \in Steps : node'[1][n] = "pending"
        /\ crashes' = crashes + 1
    BY <1>t, <1>4 DEF Crash, Leave, AttemptsOK
  <2>2. crashes = 0 /\ crashes' # 0
    BY <1>c, <1>u, <2>1
  <2>3. BeforeCrash'
    BY <2>2 DEF BeforeCrash
  <2>4. ASSUME NEW n \in Steps, step[n].runName # 0 PROVE Active(n) \subseteq {step[n].runName}
    <3>1. Len(task[n]) \in Nat /\ task[n] \in Seq(Phases) /\ step[n].runName \in Nat
      BY <1>t DEF TasksOK, RowsOK, Row
    <3>2. Len(task[n]) <= 1 /\ step[n].runName <= Len(task[n])
      BY <1>1, <2>2 DEF BeforeCrash
    <3>3. step[n].runName = 1
      BY <2>4, <3>1, <3>2
    <3>4. \A t \in DOMAIN task[n] : t = 1
      BY <3>1, <3>2
    <3> QED
      BY <3>3, <3>4 DEF Active
  <2>5. FindsActive'
    BY <1>1, <1>n, <1>u, <2>1, <2>4 DEF FindsActive
  <2> QED
    BY <2>1, <2>3, <2>5
<1>5. CASE Return(1)
  <2>1. pc'[1] = "off" /\ ~retryable'[1] /\ \A n \in Steps : node'[1][n] = "pending"
    BY <1>t, <1>5 DEF Return, Leave, AttemptsOK
  <2>2. ~ctxDone[1]
    BY <1>t DEF Alone
  <2>3. job'[1].state = "completed"
    BY <1>1, <1>t, <1>5, <2>2 DEF Return, AfterAttempt, QueueOK
  <2>4. UNCHANGED crashes
    BY <1>5 DEF Return
  <2>5. BeforeCrash'
    BY <1>1, <1>u, <2>3, <2>4 DEF BeforeCrash, LiveJob
  <2>6. FindsActive'
    BY <1>1, <1>n, <1>u, <2>1, <2>3 DEF FindsActive, LiveJob
  <2> QED
    BY <2>1, <2>5, <2>6
<1> QED
  BY <1>2, <1>3, <1>4, <1>5

\* The statements of Work around schedule(), and the reaper: they submit
\* nothing, and a sweep keeps the names.
LEMMA ReattachAround ==
  ASSUME PlainRun, PlainInv, ReattachInv,
         \/ MarkRunning(1) \/ ScheduleReturns(1) \/ Suspend(1) \/ Finish(1) \/ Sweep(1)
         \/ Reaper
  PROVE  ReattachInv'
<1>t. 1 \in Jobs /\ TypeInv /\ AttemptsOK /\ RowsOK
  BY WorkflowRunAssumption DEF PlainInv, TypeInv, Jobs
<1>1. UNCHANGED <<task, job, seen, node, retryable, crashes, errors>>
  BY DEF MarkRunning, ScheduleReturns, Suspend, Finish, Sweep, Reaper, FindStuck, ReapStuckRun,
         ReapSteps, FindExpired, ExpireSteps, ExpireRun, ExpireSweep, attempt, rows
<1>2. pc'[1] = "off" <=> pc[1] = "off"
  BY <1>t
  DEF MarkRunning, ScheduleReturns, Suspend, Finish, Sweep, Reaper, FindStuck, ReapStuckRun,
      ReapSteps, FindExpired, ExpireSteps, ExpireRun, ExpireSweep, attempt, AttemptsOK, Driving
<1>3. ASSUME NEW n \in Steps PROVE step'[n].runName = step[n].runName
  <2>1. \A from, to : SweepSteps(step, from, to)[n].runName = step[n].runName
    BY <1>t DEF SweepSteps, RowsOK, Row
  <2>2. ExpireSteps => step'[n].runName = step[n].runName
    BY <1>t DEF ExpireSteps, RowsOK, Row
  <2> QED
    BY <2>1, <2>2
    DEF MarkRunning, ScheduleReturns, Suspend, Finish, Sweep, Reaper, FindStuck, ReapStuckRun,
        ReapSteps, FindExpired, ExpireRun, ExpireSweep, SettleStuckComponentRuns, rows
<1> QED
  BY <1>1, <1>2, <1>3, ReattachMove

\* An error of the cluster ends the promise.
LEMMA ReattachErrors ==
  ASSUME PlainRun, PlainInv, ReattachInv, NEW n \in Steps, ListFails(1, n) \/ ExecuteFails(1, n)
  PROVE  ReattachInv'
<1>1. ~ctxDone[1]
  BY WorkflowRunAssumption DEF PlainInv, Alone, Jobs
<1>2. errors \in Nat /\ crashes \in Nat /\ errors' = errors + 1 /\ UNCHANGED crashes
  BY <1>1 DEF ListFails, ExecuteFails, ReattachInv
<1>3. errors' \in Nat /\ errors' # 0
  BY <1>2
<1> QED
  BY <1>2, <1>3 DEF ReattachInv

\* Every step keeps what a retry needs to find.
LEMMA ReattachNext == ASSUME PlainRun, PlainInv, ReattachInv, [Next]_vars PROVE ReattachInv'
<1>t. TypeInv /\ Alone
  BY DEF PlainInv
<1>1. ASSUME NEW j \in Jobs, Fetch(j) \/ Rescue(j) \/ Crash(j) \/ Work(j) PROVE ReattachInv'
  <2>1. j = 1
    <3>1. job[j].state # "none" \/ pc[j] # "off"
      BY <1>1 DEF Fetch, Rescue, Crash, Work, StepWork, MarkRunning, Skip, Park, Launch, PlanFails,
                  Lookup, ListFails, Submit, OnSubmitted, Observe, ExecuteFails, ScheduleReturns,
                  Suspend, Finish, Sweep, Return, Driving
    <3> QED
      BY <1>t, <3>1, OnlyFirstJob
  <2>2. ASSUME NEW n \in Steps PROVE ~Park(1, n)
    BY DEF Park, GateClosed, PlainRun
  <2> QED
    BY <1>1, <2>1, <2>2, ReattachMark, ReattachLookup, ReattachSubmit, ReattachQueue, ReattachAround,
       ReattachErrors DEF Work, StepWork
<1>2. ASSUME NEW j \in Jobs, Abort(j) PROVE FALSE
  BY <1>2 DEF Abort, PlainRun
<1>3. ASSUME NEW n \in Steps, TaskEnds(n) PROVE ReattachInv'
  BY <1>3, ReattachTaskEnds
<1>4. ASSUME NEW n \in Steps, Handler(n) \/ \E d \in {"approve", "reject"} : DecideCheck(n, d)
      PROVE  FALSE
  BY <1>t, <1>4 DEF Handler, DecideWrite, DecideInsert, DecideSetRunJob, DecideFails, DecideCheck,
                    Alone, PlainRun
<1>5. ASSUME CancelRun \/ CancelJob PROVE FALSE
  BY <1>t, <1>5 DEF CancelRun, CancelJob, Alone, PlainRun
<1>6. CASE Reaper
  BY <1>6, ReattachAround
<1>7. CASE UNCHANGED vars
  BY <1>7, ReattachMove DEF vars
<1> QED
  BY <1>1, <1>2, <1>3, <1>4, <1>5, <1>6, <1>7 DEF Next

\* One active TaskRun at most, in cardinals.
LEMMA OneActive ==
  ASSUME NEW n \in Steps, \A t, u \in Active(n) : t = u
  PROVE  Cardinality(Active(n)) <= 1
<1>1. CASE Active(n) = {}
  BY <1>1, FS_EmptySet
<1>2. CASE Active(n) # {}
  <2>1. PICK t \in Active(n) : TRUE
    BY <1>2
  <2>2. Active(n) = {t}
    BY <2>1
  <2>3. Cardinality({t}) = 1
    BY FS_Singleton
  <2> QED
    BY <2>2, <2>3
<1> QED
  BY <1>1, <1>2

\* As long as the cluster answers, the attempt after a crash re-attaches to the
\* TaskRun that was in flight, and never submits a second one beside it,
\* wherever the crash fell: before the name was persisted or after it
\* (runexec.go: Execute, recover, latestActiveRun).
THEOREM PlainRunReattaches == ASSUME PlainRun PROVE Spec => []RetryReattaches
<1>1. ReattachInv => RetryReattaches
  BY OneActive DEF ReattachInv, FindsActive, RetryReattaches, OneActiveTaskRun
<1>2. Init => ReattachInv
  BY ReattachInit
<1> QED
  BY <1>1, <1>2, PlainInit, PlainNext, ReattachNext, PTL DEF Spec

-----------------------------------------------------------------------------
(* Runs with one gate *)

\* One step at most is gated, and no worker is killed.  Retries, transient
\* errors, cancellations, timeouts of attempts and of gates are all there.
OneGate == (\A m, n \in Gated : m = n) /\ MaxCrashes = 0

\* The first job has parked the run, and is not going to touch it again.
FirstDone ==
  \/ pc[1] = "return" /\ final[1] = "suspended"
  \/ pc[1] = "off" /\ job[1].state \notin LiveJob

\* Before the decision the first job is the only one, and a handler that is
\* going to decide has found the run parked.
Undecided(g) ==
  /\ \A j \in Jobs : j # 1 => job[j].state = "none"
  /\ decide[g].at \notin {"insert", "setjob"}
  /\ status = "awaiting_approval" \/ decide[g].at \in {"approve", "reject"} => FirstDone

\* After it every attempt that drives the run has loaded the decision, and
\* none parks the step again.
Decided(g) ==
  /\ FirstDone
  /\ step[g].approved /\ step[g].status # "awaiting_approval"
  /\ decide[g].at \notin {"approve", "reject"}
  /\ \A j \in Jobs : j # 1 /\ pc[j] # "off" => seen[j][g].approved

\* After a rejection it has loaded a settled row.
Rejected(g) ==
  /\ step[g].status \in StepTerminal /\ task[g] = << >>
  /\ \A j \in Jobs : j # 1 =>
       node[j][g] \notin Executing /\ (pc[j] # "off" => seen[j][g].status \in StepTerminal)

GateOK(g) ==
  /\ decision[g] = "none" => Undecided(g)
  /\ decision[g] # "none" => Decided(g)
  /\ decision[g] = "reject" => Rejected(g)

NoOrphans == \A j \in Jobs : pc[j] = "off" => job[j].state # "running"

OneGateInv ==
  /\ crashes \in Nat /\ NoOrphans
  /\ \A n \in Steps : n \notin Gated => decide[n].at = "idle"
  /\ \A g \in Gated : GateOK(g)

\* Nothing has been decided at first.
LEMMA OneGateInit == Init => OneGateInv
<1> SUFFICES ASSUME Init PROVE OneGateInv
  OBVIOUS
<1>1. NoOrphans /\ crashes \in Nat
  BY DEF Init, NoOrphans
<1>2. \A n \in Steps : decide[n].at = "idle" /\ decision[n] = "none"
  BY DEF Init
<1>3. \A j \in Jobs : j # 1 => job[j].state = "none"
  BY DEF Init
<1>4. status # "awaiting_approval"
  BY DEF Init
<1> QED
  BY <1>1, <1>2, <1>3, <1>4, WorkflowRunAssumption DEF OneGateInv, GateOK, Undecided

\* Rows stay, or settle, and keep their approval.
RowsSettle ==
  \A m \in Steps :
    /\ step'[m].approved = step[m].approved
    /\ \/ step'[m].status = step[m].status
       \/ step[m].status \in InFlight /\ step'[m].status \in StepTerminal

\* A sweep settles rows.
LEMMA SweepSettles ==
  ASSUME TypeInv, NEW from \in SUBSET InFlight, NEW to \in StepTerminal,
         step' = SweepSteps(step, from, to)
  PROVE  RowsSettle
<1>1. step \in [Steps -> Row]
  BY DEF TypeInv, RowsOK
<1> QED
  BY <1>1 DEF RowsSettle, SweepSteps, Row

\* A step around the attempts: rows settle, no job begins, the first job stays
\* done, and nobody but it parks the run.
LEMMA GateFrame ==
  ASSUME OneGateInv, RowsSettle, UNCHANGED <<decision, task, seen, node, decide, crashes>>,
         \A j \in Jobs : pc'[j] = "off" <=> pc[j] = "off",
         \A j \in Jobs : job'[j].state = "running" => job[j].state = "running",
         \A j \in Jobs : job[j].state = "none" => job'[j].state = "none",
         FirstDone => FirstDone',
         status' = "awaiting_approval" => status = "awaiting_approval" \/ FirstDone'
  PROVE  OneGateInv'
<1> USE WorkflowRunAssumption
<1>1. NoOrphans' /\ crashes' \in Nat
  BY DEF OneGateInv, NoOrphans
<1>2. \A n \in Steps : n \notin Gated => decide'[n].at = "idle"
  BY DEF OneGateInv
<1>3. ASSUME NEW g \in Gated PROVE GateOK(g)'
  <2>t. g \in Steps /\ GateOK(g)
    BY DEF OneGateInv
  <2>1. ASSUME decision[g] = "none" PROVE Undecided(g)'
    BY <2>t, <2>1 DEF GateOK, Undecided
  <2>2. ASSUME decision[g] # "none" PROVE Decided(g)'
    <3>1. Decided(g)
      BY <2>t, <2>2 DEF GateOK
    <3>2. step'[g].approved /\ step'[g].status # "awaiting_approval"
      BY <2>t, <3>1 DEF Decided, RowsSettle, StepTerminal
    <3> QED
      BY <3>1, <3>2 DEF Decided
  <2>3. ASSUME decision[g] = "reject" PROVE Rejected(g)'
    <3>1. Rejected(g)
      BY <2>t, <2>3 DEF GateOK
    <3>2. step'[g].status \in StepTerminal
      BY <2>t, <3>1 DEF Rejected, RowsSettle
    <3> QED
      BY <3>1, <3>2 DEF Rejected
  <2> QED
    BY <2>1, <2>2, <2>3 DEF GateOK
<1> QED
  BY <1>1, <1>2, <1>3 DEF OneGateInv

\* An attempt that has work to do is not the first job's, once that is done.
LEMMA DriverIsAnother ==
  ASSUME FirstDone, NEW j \in Jobs, pc[j] \in {"loaded", "drive", "finish", "sweep"}
  PROVE  j # 1
  BY DEF FirstDone

\* What schedule() and Execute do to the step they are about.
LEMMA StepWorkDoes ==
  ASSUME TypeInv, NEW j \in Jobs, NEW n \in Steps, StepWork(j, n)
  PROVE  /\ pc[j] = "drive"
         /\ UNCHANGED <<status, decision, job, pc, seen, final, decide, crashes>>
         /\ \A m \in Steps : m # n => step'[m] = step[m] /\ task'[m] = task[m]
         /\ \A i \in Jobs, m \in Steps : i # j \/ m # n => node'[i][m] = node[i][m]
         /\ step'[n].approved = step[n].approved
         /\ ~GateClosed(j, n) /\ step'[n].status = "awaiting_approval" =>
              step[n].status = "awaiting_approval"
         /\ ~GateClosed(j, n) /\ seen[j][n].status \in StepTerminal /\ node[j][n] \notin Executing =>
              /\ node'[j][n] \notin Executing /\ task'[n] = task[n]
              /\ step'[n].status \in {step[n].status, "skipped"}
<1>t. AttemptsOK /\ TasksOK /\ step \in [Steps -> Row]
  BY DEF TypeInv, RowsOK
<1>a. attached[j][n] \in 0 .. MaxTasks /\ KnownRun(j, n) \in 0 .. MaxTasks /\ 0 \in 0 .. MaxTasks
  BY <1>t, KnownRunType, WorkflowRunAssumption DEF AttemptsOK
<1>1. ASSUME NEW s \in InFlight \cup StepTerminal, NEW t \in 0 .. MaxTasks,
             MarkComponentRun(j, n, s, t) \/ UNCHANGED step
      PROVE  /\ \A m \in Steps : m # n => step'[m] = step[m]
             /\ step'[n].approved = step[n].approved
             /\ step'[n].status \in {step[n].status, s}
  BY <1>1, <1>t DEF MarkComponentRun, Row
<1>2. CASE Skip(j, n)
  <2>1. Becomes(j, n, "skipped") /\ (MarkComponentRun(j, n, "skipped", 0) \/ UNCHANGED step)
    BY <1>2 DEF Skip
  <2>2. "skipped" \in InFlight \cup StepTerminal /\ "skipped" \notin Executing
    BY DEF StepTerminal, Executing
  <2>3. /\ \A m \in Steps : m # n => step'[m] = step[m]
        /\ step'[n].approved = step[n].approved
        /\ step'[n].status \in {step[n].status, "skipped"}
    BY <1>1, <1>a, <2>1, <2>2
  <2>4. /\ node'[j][n] = "skipped"
        /\ \A i \in Jobs, m \in Steps : i # j \/ m # n => node'[i][m] = node[i][m]
    BY <1>t, <2>1, BecomesOnly
  <2> QED
    BY <1>2, <2>2, <2>3, <2>4 DEF Skip, Driving, handlers
<1>3. CASE Park(j, n)
  <2>1. Becomes(j, n, "parked") /\ MarkComponentRun(j, n, "awaiting_approval", 0) /\ GateClosed(j, n)
    BY <1>3 DEF Park
  <2>3. /\ \A m \in Steps : m # n => step'[m] = step[m]
        /\ step'[n].approved = step[n].approved
    BY <1>1, <1>a, <2>1 DEF InFlight
  <2>4. \A i \in Jobs, m \in Steps : i # j \/ m # n => node'[i][m] = node[i][m]
    BY <1>t, <2>1, BecomesOnly
  <2> QED
    BY <1>3, <2>1, <2>3, <2>4 DEF Park, Driving, handlers
<1>4. CASE Launch(j, n)
  <2>1. \/ seen[j][n].status \in StepTerminal /\ Becomes(j, n, seen[j][n].status) /\ UNCHANGED step
        \/ /\ seen[j][n].status \notin StepTerminal
           /\ Becomes(j, n, "exec") /\ MarkComponentRun(j, n, "running", 0)
    BY <1>4 DEF Launch, ShortCircuit
  <2>2. StepTerminal \cap Executing = {} /\ "running" \in InFlight
    BY DEF StepTerminal, Executing, InFlight
  <2>3. /\ \A m \in Steps : m # n => step'[m] = step[m]
        /\ step'[n].approved = step[n].approved
        /\ step'[n].status \in {step[n].status, "running"}
        /\ seen[j][n].status \in StepTerminal => step' = step
    BY <1>1, <1>a, <2>1, <2>2
  <2>4. /\ seen[j][n].status \in StepTerminal => node'[j][n] \in StepTerminal
        /\ \A i \in Jobs, m \in Steps : i # j \/ m # n => node'[i][m] = node[i][m]
    BY <1>t, <2>1, BecomesOnly
  <2> QED
    BY <1>4, <2>2, <2>3, <2>4 DEF Launch, Driving, handlers
<1>5. CASE PlanFails(j, n) \/ OnSubmitted(j, n) \/ Observe(j, n) \/ ExecuteFails(j, n)
  <2>1. \E x : Becomes(j, n, x)
    BY <1>5 DEF PlanFails, OnSubmitted, Observe, ExecuteFails
  <2>2. \E s \in {"running", "succeeded", "failed"}, t \in 0 .. MaxTasks : MarkComponentRun(j, n, s, t)
    <3>1. Observe(j, n) => task[n][attached[j][n]] \in {"succeeded", "failed"}
      BY <1>t DEF Observe, TypeInv, AttachedOK, TasksOK, Phases
    <3> QED
      BY <1>5, <1>a, <3>1 DEF PlanFails, OnSubmitted, Observe, ExecuteFails
  <2>3. /\ \A m \in Steps : m # n => step'[m] = step[m]
        /\ step'[n].approved = step[n].approved
        /\ step'[n].status \in {step[n].status, "running", "succeeded", "failed"}
    BY <1>1, <2>2 DEF InFlight, StepTerminal
  <2>4. \A i \in Jobs, m \in Steps : i # j \/ m # n => node'[i][m] = node[i][m]
    BY <1>t, <2>1, BecomesOnly
  <2>5. node[j][n] \in Executing
    BY <1>5 DEF PlanFails, OnSubmitted, Observe, ExecuteFails, Executing
  <2> QED
    BY <1>5, <2>3, <2>4, <2>5 DEF PlanFails, OnSubmitted, Observe, ExecuteFails, Driving, handlers
<1>6. CASE Lookup(j, n) \/ ListFails(j, n) \/ Submit(j, n)
  <2>1. \E x : Becomes(j, n, x)
    BY <1>6 DEF Lookup, ListFails, Submit
  <2>4. \A i \in Jobs, m \in Steps : i # j \/ m # n => node'[i][m] = node[i][m]
    BY <1>t, <2>1, BecomesOnly
  <2>5. node[j][n] \in Executing
    BY <1>6 DEF Lookup, ListFails, Submit, Executing
  <2>6. \A m \in Steps : m # n => task'[m] = task[m]
    BY <1>6, <1>t DEF Lookup, ListFails, Submit, TasksOK
  <2> QED
    BY <1>6, <2>4, <2>5, <2>6 DEF Lookup, ListFails, Submit, Driving, handlers, rows
<1> QED
  BY <1>2, <1>3, <1>4, <1>5, <1>6 DEF StepWork

\* schedule() and Execute respect the decision the attempt has loaded.
LEMMA StepWorkGate ==
  ASSUME TypeInv, OneGateInv, NEW j \in Jobs, NEW n \in Steps, StepWork(j, n)
  PROVE  OneGateInv'
<1> USE WorkflowRunAssumption
<1>1. /\ pc[j] = "drive"
      /\ UNCHANGED <<status, decision, job, pc, seen, final, decide, crashes>>
      /\ \A m \in Steps : m # n => step'[m] = step[m] /\ task'[m] = task[m]
      /\ \A i \in Jobs, m \in Steps : i # j \/ m # n => node'[i][m] = node[i][m]
      /\ step'[n].approved = step[n].approved
      /\ ~GateClosed(j, n) /\ step'[n].status = "awaiting_approval" =>
           step[n].status = "awaiting_approval"
      /\ ~GateClosed(j, n) /\ seen[j][n].status \in StepTerminal /\ node[j][n] \notin Executing =>
           /\ node'[j][n] \notin Executing /\ task'[n] = task[n]
           /\ step'[n].status \in {step[n].status, "skipped"}
  BY StepWorkDoes
<1>2. NoOrphans' /\ crashes' \in Nat /\ \A m \in Steps : m \notin Gated => decide'[m].at = "idle"
  BY <1>1 DEF OneGateInv, NoOrphans
<1>3. FirstDone' <=> FirstDone
  BY <1>1 DEF FirstDone
<1>4. ASSUME NEW g \in Gated PROVE GateOK(g)'
  <2>t. g \in Steps /\ GateOK(g)
    BY DEF OneGateInv
  <2>1. ASSUME decision[g] = "none" PROVE Undecided(g)'
    BY <1>1, <1>3, <2>t, <2>1 DEF GateOK, Undecided
  <2>o. ASSUME decision[g] # "none" PROVE Decided(g) /\ j # 1 /\ seen[j][g].approved
    <3>1. Decided(g)
      BY <2>t, <2>o DEF GateOK
    <3>2. j # 1
      BY <1>1, <3>1, DriverIsAnother DEF Decided
    <3> QED
      BY <1>1, <3>1, <3>2 DEF Decided
  <2>2. ASSUME decision[g] # "none" PROVE Decided(g)'
    <3>1. n = g => ~GateClosed(j, n)
      BY <2>2, <2>o DEF GateClosed
    <3>2. step'[g].approved /\ step'[g].status # "awaiting_approval"
      BY <1>1, <2>t, <2>2, <2>o, <3>1 DEF Decided
    <3> QED
      BY <1>1, <1>3, <2>2, <2>o, <3>2 DEF Decided
  <2>3. ASSUME decision[g] = "reject" PROVE Rejected(g)'
    <3>1. Rejected(g) /\ j # 1 /\ seen[j][g].approved
      BY <2>t, <2>3, <2>o DEF GateOK
    <3>2. seen[j][g].status \in StepTerminal /\ node[j][g] \notin Executing
      BY <1>1, <3>1 DEF Rejected
    <3>3. n = g => ~GateClosed(j, n)
      BY <3>1 DEF GateClosed
    <3>4. node'[j][g] \notin Executing /\ task'[g] = task[g] /\ step'[g].status \in {step[g].status, "skipped"}
      BY <1>1, <2>t, <3>2, <3>3
    <3>5. \A i \in Jobs : i # 1 => node'[i][g] \notin Executing
      BY <1>1, <2>t, <3>1, <3>4 DEF Rejected
    <3>6. step'[g].status \in StepTerminal
      BY <3>1, <3>4 DEF Rejected, StepTerminal
    <3> QED
      BY <1>1, <3>1, <3>4, <3>5, <3>6 DEF Rejected
  <2> QED
    BY <1>1, <2>1, <2>2, <2>3 DEF GateOK
<1> QED
  BY <1>2, <1>4 DEF OneGateInv

\* Work around schedule(): only the first job can park the run, and it is done
\* when it has.
LEMMA WorkGate ==
  ASSUME TypeInv, OneGateInv, NEW j \in Jobs,
         MarkRunning(j) \/ ScheduleReturns(j) \/ Suspend(j) \/ Finish(j) \/ Sweep(j) \/ Abort(j)
  PROVE  OneGateInv'
<1>t. AttemptsOK /\ RunningOK /\ 1 \in Jobs
  BY WorkflowRunAssumption DEF TypeInv, Jobs
<1>1. /\ pc[j] \in {"loaded", "drive", "finish", "sweep"}
      /\ UNCHANGED <<decision, task, seen, node, decide, crashes, job>>
      /\ \E x \in {"drive", "finish", "sweep", "return", pc[j]} : pc' = [pc EXCEPT ![j] = x]
      /\ \A i \in Jobs : i # j => final'[i] = final[i]
  <2>1. /\ pc[j] \in {"loaded", "drive", "finish", "sweep"}
        /\ UNCHANGED <<decision, task, seen, node, decide, crashes, job>>
    BY DEF MarkRunning, ScheduleReturns, Suspend, Finish, Sweep, Abort, Driving, rows, handlers
  <2>2. Abort(j) => pc' = [pc EXCEPT ![j] = pc[j]]
    BY <1>t DEF Abort, AttemptsOK
  <2>3. \E x \in {"drive", "finish", "sweep", "return", pc[j]} : pc' = [pc EXCEPT ![j] = x]
    BY <2>2 DEF MarkRunning, ScheduleReturns, Suspend, Finish, Sweep
  <2>4. \A i \in Jobs : i # j => final'[i] = final[i]
    BY <1>t DEF MarkRunning, ScheduleReturns, Suspend, Finish, Sweep, Abort, AttemptsOK
  <2> QED
    BY <2>1, <2>3, <2>4
<1>2. \A i \in Jobs : pc'[i] = "off" <=> pc[i] = "off"
  BY <1>1, <1>t DEF AttemptsOK
<1>3. FirstDone => FirstDone'
  <2> SUFFICES ASSUME FirstDone PROVE FirstDone'
    OBVIOUS
  <2>1. j # 1
    BY <1>1, DriverIsAnother
  <2>2. pc'[1] = pc[1] /\ final'[1] = final[1] /\ job' = job
    BY <1>1, <1>t, <2>1 DEF AttemptsOK
  <2> QED
    BY <2>2 DEF FirstDone
<1>4. RowsSettle
  <2>1. Sweep(j) => RowsSettle
    <3>1. InFlight \in SUBSET InFlight /\ "skipped" \in StepTerminal
      BY DEF StepTerminal
    <3> QED
      BY <3>1, SweepSettles DEF Sweep, SettleStuckComponentRuns
  <2>2. ~Sweep(j) => step' = step
    BY DEF MarkRunning, ScheduleReturns, Suspend, Finish, Abort, rows
  <2> QED
    BY <2>1, <2>2 DEF RowsSettle
<1>5. CASE Suspend(j)
  <2>1. final' = final /\ pc'[j] = "return" /\ final[j] = "suspended"
    BY <1>5, <1>t DEF Suspend, AttemptsOK
  <2>2. CASE j = 1
    <3>1. FirstDone'
      BY <2>1, <2>2 DEF FirstDone
    <3> QED
      BY <1>1, <1>2, <1>3, <1>4, <3>1, GateFrame
  <2>3. CASE j # 1
    <3>1. \A g \in Gated : decision[g] # "none"
      BY <1>1, <1>t, <2>3 DEF OneGateInv, GateOK, Undecided, RunningOK
    <3>2. \A g \in Gated : GateOK(g)'
      <4> SUFFICES ASSUME NEW g \in Gated PROVE GateOK(g)'
        OBVIOUS
      <4>1. g \in Steps /\ decision[g] # "none" /\ GateOK(g)
        BY <3>1, WorkflowRunAssumption DEF OneGateInv
      <4>2. step' = step
        BY <1>5 DEF Suspend
      <4>3. Decided(g)'
        BY <1>1, <1>2, <1>3, <4>1, <4>2 DEF GateOK, Decided
      <4>4. decision[g] = "reject" => Rejected(g)'
        BY <1>1, <1>2, <4>1, <4>2 DEF GateOK, Rejected
      <4> QED
        BY <1>1, <4>1, <4>3, <4>4 DEF GateOK
    <3> QED
      BY <1>1, <1>2, <3>2 DEF OneGateInv, NoOrphans
  <2> QED
    BY <2>2, <2>3
<1>6. CASE ~Suspend(j)
  <2>1. Finish(j) => final[j] \in RunTerminal
    BY <1>t DEF Finish, AttemptsOK
  <2>2. status' = "awaiting_approval" => status = "awaiting_approval"
    BY <1>6, <2>1 DEF MarkRunning, ScheduleReturns, Finish, Sweep, Abort, MarkRun, RunTerminal, rows
  <2> QED
    BY <1>1, <1>2, <1>3, <1>4, <2>2, GateFrame
<1> QED
  BY <1>5, <1>6

\* The attempt of a done first job completes it; whatever River fetches then
\* has loaded the decision.
LEMMA QueueGate ==
  ASSUME TypeInv, OneGate, OneGateInv, NEW j \in Jobs,
         Fetch(j) \/ Rescue(j) \/ Crash(j) \/ Return(j)
  PROVE  OneGateInv'
<1> USE WorkflowRunAssumption
<1>t. AttemptsOK /\ RunningOK /\ 1 \in Jobs /\ QueueOK
  BY DEF TypeInv, Jobs
<1>1. ~Rescue(j)
  BY DEF Rescue, OneGateInv, NoOrphans
<1>2. ~Crash(j)
  BY DEF Crash, OneGateInv, OneGate
<1>3. CASE Fetch(j)
  <2>1. /\ job[j].state \in {"available", "retryable"}
        /\ job'[j].state = "running" /\ pc'[j] = "loaded" /\ seen'[j] = step
        /\ \A i \in Jobs : i # j => job'[i] = job[i] /\ pc'[i] = pc[i] /\ seen'[i] = seen[i]
        /\ UNCHANGED <<status, step, decision, task, node, final, decide, crashes>>
    BY <1>3, <1>t DEF Fetch, AttemptsOK, QueueOK, rows, handlers
  <2>2. NoOrphans' /\ crashes' \in Nat /\ \A n \in Steps : n \notin Gated => decide'[n].at = "idle"
    BY <2>1 DEF OneGateInv, NoOrphans
  <2>3. FirstDone => j # 1 /\ FirstDone'
    BY <1>t, <2>1 DEF FirstDone, LiveJob, RunningOK
  <2>4. ASSUME NEW g \in Gated PROVE GateOK(g)'
    <3>t. g \in Steps /\ GateOK(g)
      BY DEF OneGateInv
    <3>1. ASSUME decision[g] = "none" PROVE Undecided(g)'
      <4>1. Undecided(g)
        BY <3>t, <3>1 DEF GateOK
      <4>2. j = 1
        BY <2>1, <4>1 DEF Undecided
      <4> QED
        BY <2>1, <2>3, <4>1, <4>2 DEF Undecided
    <3>2. ASSUME decision[g] # "none" PROVE Decided(g)'
      BY <2>1, <2>3, <3>t, <3>2 DEF GateOK, Decided
    <3>3. ASSUME decision[g] = "reject" PROVE Rejected(g)'
      BY <2>1, <3>t, <3>3 DEF GateOK, Rejected
    <3> QED
      BY <2>1, <3>1, <3>2, <3>3 DEF GateOK
  <2> QED
    BY <2>2, <2>4 DEF OneGateInv
<1>4. CASE Return(j)
  <2> DEFINE ok == ~(final[j] = "failed" /\ (ctxDone[j] \/ retryable[j]))
  <2>1. /\ pc[j] \in {"return", "finish"} /\ pc'[j] = "off" /\ \A n \in Steps : node'[j][n] = "pending"
        /\ \A i \in Jobs : i # j => pc'[i] = pc[i] /\ seen'[i] = seen[i] /\ node'[i] = node[i] /\ final'[i] = final[i]
        /\ UNCHANGED <<status, step, decision, task, decide, crashes>>
    BY <1>4, <1>t DEF Return, Leave, AttemptsOK, rows, handlers
  <2>2. /\ job'[j].state = AfterAttempt(j, ok)
        /\ \A i \in Jobs : i # j => job'[i] = job[i]
        /\ AfterAttempt(j, ok) \notin {"running", "none"}
    BY <1>4, <1>t, AfterAttemptType DEF Return, QueueOK
  <2>3. job[j].state = "running"
    BY <1>t, <2>1 DEF RunningOK
  <2>4. NoOrphans' /\ crashes' \in Nat /\ \A n \in Steps : n \notin Gated => decide'[n].at = "idle"
    BY <2>1, <2>2 DEF OneGateInv, NoOrphans
  <2>5. FirstDone => FirstDone'
    <3> SUFFICES ASSUME FirstDone PROVE FirstDone'
      OBVIOUS
    <3>1. CASE j # 1
      BY <1>t, <2>1, <2>2, <3>1 DEF FirstDone
    <3>2. CASE j = 1
      <4>1. final[j] = "suspended"
        BY <2>1, <3>2 DEF FirstDone
      <4>2. AfterAttempt(j, ok) = "completed"
        BY <4>1 DEF AfterAttempt
      <4> QED
        BY <2>1, <2>2, <3>2, <4>2 DEF FirstDone, LiveJob
    <3> QED
      BY <3>1, <3>2
  <2>6. ASSUME NEW g \in Gated PROVE GateOK(g)'
    <3>t. g \in Steps /\ GateOK(g)
      BY DEF OneGateInv
    <3>1. ASSUME decision[g] = "none" PROVE Undecided(g)'
      <4>1. Undecided(g)
        BY <3>t, <3>1 DEF GateOK
      <4>2. j = 1
        BY <2>3, <4>1 DEF Undecided
      <4> QED
        BY <2>1, <2>2, <2>5, <4>1, <4>2 DEF Undecided
    <3>2. ASSUME decision[g] # "none" PROVE Decided(g)'
      BY <2>1, <2>5, <3>t, <3>2 DEF GateOK, Decided
    <3>3. ASSUME decision[g] = "reject" PROVE Rejected(g)'
      <4>1. Rejected(g)
        BY <3>t, <3>3 DEF GateOK
      <4>2. \A i \in Jobs : i # 1 => node'[i][g] \notin Executing
        BY <2>1, <3>t, <4>1 DEF Rejected, Executing
      <4> QED
        BY <2>1, <4>1, <4>2 DEF Rejected
    <3> QED
      BY <2>1, <3>1, <3>2, <3>3 DEF GateOK
  <2> QED
    BY <2>4, <2>6 DEF OneGateInv
<1> QED
  BY <1>1, <1>2, <1>3, <1>4

\* A TaskRun ends; a rejected step has none.
LEMMA TaskEndsGate ==
  ASSUME TypeInv, OneGateInv, NEW n \in Steps, TaskEnds(n)
  PROVE  OneGateInv'
<1>1. UNCHANGED <<status, step, decision, job, pc, seen, node, final, decide, crashes>>
  BY DEF TaskEnds, rows, attempt, handlers
<1>2. ASSUME NEW g \in Steps, task[g] = << >> PROVE task'[g] = << >>
  <2>1. g # n
    BY <1>2 DEF TaskEnds, Active
  <2> QED
    BY <1>2, <2>1 DEF TaskEnds, TypeInv, TasksOK
<1> QED
  BY <1>1, <1>2, WorkflowRunAssumption
  DEF OneGateInv, NoOrphans, GateOK, Undecided, Decided, Rejected, FirstDone

\* The handler decides once: it has found the run parked, so the first job is
\* done, no other exists, and nothing of the step has been submitted.
LEMMA HandlerGate ==
  ASSUME TypeInv, ApprovalsAreDecisions, OneGate, OneGateInv, NEW n \in Steps,
         Handler(n) \/ \E d \in {"approve", "reject"} : DecideCheck(n, d)
  PROVE  OneGateInv'
<1> USE WorkflowRunAssumption
<1>t. AttemptsOK /\ RunningOK /\ HandlersOK /\ RowsOK /\ QueueOK /\ 1 \in Jobs
  BY DEF TypeInv, Jobs
<1>a. UNCHANGED <<status, task, pc, seen, node, final, crashes>>
  BY DEF Handler, DecideWrite, DecideInsert, DecideSetRunJob, DecideFails, DecideCheck, rows, attempt
<1>b. \A m \in Steps : m # n => decide'[m] = decide[m]
  BY <1>t DEF Handler, DecideWrite, DecideInsert, DecideSetRunJob, DecideFails, DecideCheck, HandlersOK
<1>c. n \in Gated
  BY DEF Handler, DecideWrite, DecideInsert, DecideSetRunJob, DecideFails, DecideCheck, OneGateInv
<1>d. \A g \in Gated : g = n
  BY <1>c DEF OneGate
<1>g. GateOK(n)
  BY <1>c DEF OneGateInv
<1> SUFFICES NoOrphans' /\ GateOK(n)'
  BY <1>a, <1>b, <1>c, <1>d DEF OneGateInv
<1>1. ASSUME NEW d \in {"approve", "reject"}, DecideCheck(n, d) PROVE NoOrphans' /\ GateOK(n)'
  <2>1. /\ status = "awaiting_approval" /\ step[n].status = "awaiting_approval" /\ decide'[n].at = d
        /\ UNCHANGED <<step, decision, job>>
    BY <1>1, <1>t DEF DecideCheck, HandlersOK, rows
  <2>2. decision[n] = "none" /\ Undecided(n)
    BY <1>g, <2>1 DEF GateOK, Decided
  <2>3. FirstDone'
    BY <1>a, <2>1, <2>2 DEF Undecided, FirstDone
  <2>4. Undecided(n)'
    BY <2>1, <2>2, <2>3 DEF Undecided
  <2> QED
    BY <1>a, <2>1, <2>2, <2>4 DEF GateOK, NoOrphans, OneGateInv
<1>2. CASE DecideWrite(n)
  <2>1. decide[n].at \in {"approve", "reject"} /\ UNCHANGED job
    BY <1>2 DEF DecideWrite
  <2>2. decision[n] = "none" /\ Undecided(n) /\ FirstDone
    BY <1>g, <2>1 DEF GateOK, Decided, Undecided
  <2>3. FirstDone' /\ NoOrphans'
    BY <1>a, <2>1, <2>2 DEF FirstDone, NoOrphans, OneGateInv
  <2>4. CASE step[n].status = "awaiting_approval"
    <3>1. /\ step'[n].approved /\ step'[n].status \in {"pending", "failed"}
          /\ decide[n].at = "reject" => step'[n].status = "failed"
          /\ decision'[n] = decide[n].at /\ decide'[n].at = "insert"
      BY <1>2, <1>t, <2>1, <2>4 DEF DecideWrite, RowsOK, Row, HandlersOK
    <3>2. \A j \in Jobs : j # 1 => pc[j] = "off" /\ node[j][n] \notin Executing
      BY <1>c, <1>t, <2>2 DEF Undecided, RunningOK, ApprovalsAreDecisions
    <3>3. task[n] = << >>
      BY <1>c, <2>2 DEF ApprovalsAreDecisions, GateDecided
    <3>4. Decided(n)'
      BY <1>a, <2>3, <3>1, <3>2 DEF Decided
    <3>5. decision'[n] = "reject" => Rejected(n)'
      BY <1>a, <3>1, <3>2, <3>3 DEF Rejected, StepTerminal
    <3>6. decision'[n] # "none"
      BY <2>1, <3>1
    <3> QED
      BY <2>3, <3>4, <3>5, <3>6 DEF GateOK
  <2>5. CASE step[n].status # "awaiting_approval"
    <3>1. decide'[n].at = "idle" /\ UNCHANGED <<step, decision>>
      BY <1>2, <1>t, <2>5 DEF DecideWrite, HandlersOK
    <3>2. Undecided(n)'
      BY <1>a, <2>1, <2>2, <2>3, <3>1 DEF Undecided
    <3> QED
      BY <2>2, <2>3, <3>1, <3>2 DEF GateOK
  <2> QED
    BY <2>4, <2>5
<1>3. CASE DecideInsert(n) \/ DecideSetRunJob(n) \/ DecideFails(n)
  <2>1. decide[n].at \in {"insert", "setjob"} /\ decide'[n].at \in {"idle", "setjob"} /\ UNCHANGED <<step, decision>>
    BY <1>3, <1>t DEF DecideInsert, DecideSetRunJob, DecideFails, HandlersOK, rows
  <2>2. decision[n] # "none" /\ Decided(n)
    BY <1>g, <2>1 DEF GateOK, Undecided
  <2>3. /\ job'[1] = job[1]
        /\ \A j \in Jobs : job'[j].state = "running" => job[j].state = "running"
    <3>1. CASE DecideInsert(n)
      <4>1. NextJob \in Jobs /\ Insert
        BY <3>1 DEF DecideInsert
      <4>2. \A j \in Jobs : job[j].state # "none" <=> j < NextJob
        BY <1>t, <4>1, InsertTakesNext
      <4>3. job[1].state # "none"
        BY <1>t DEF QueueOK, Jobs
      <4>4. NextJob # 1
        BY <1>t, <4>2, <4>3
      <4>5. job' = [job EXCEPT ![NextJob].state = "available"]
        BY <4>1 DEF Insert
      <4> QED
        BY <1>t, <4>1, <4>4, <4>5 DEF QueueOK
    <3>2. CASE ~DecideInsert(n)
      BY <1>3, <3>2 DEF DecideSetRunJob, DecideFails
    <3> QED
      BY <3>1, <3>2
  <2>4. NoOrphans' /\ FirstDone'
    BY <1>a, <2>2, <2>3 DEF NoOrphans, OneGateInv, Decided, FirstDone
  <2>5. Decided(n)'
    BY <1>a, <2>1, <2>2, <2>4 DEF Decided
  <2>6. decision[n] = "reject" => Rejected(n)'
    BY <1>a, <1>g, <2>1 DEF GateOK, Rejected
  <2> QED
    BY <2>1, <2>2, <2>4, <2>5, <2>6 DEF GateOK
<1> QED
  BY <1>1, <1>2, <1>3 DEF Handler

\* Cancel and the reapers settle rows and begin nothing.
LEMMA AroundGate ==
  ASSUME TypeInv, OneGateInv, CancelRun \/ CancelJob \/ Reaper
  PROVE  OneGateInv'
<1>t. RowsOK /\ QueueOK /\ 1 \in Jobs
  BY WorkflowRunAssumption DEF TypeInv, Jobs
<1>1. UNCHANGED <<decision, task, seen, node, decide, crashes, pc, final>>
  BY DEF CancelRun, CancelJob, Reaper, FindStuck, ReapStuckRun, ReapSteps, FindExpired,
         ExpireSteps, ExpireRun, ExpireSweep, rows, attempt
<1>2. status' = "awaiting_approval" => status = "awaiting_approval"
  BY DEF CancelRun, CancelJob, Reaper, FindStuck, ReapStuckRun, ReapSteps, FindExpired,
         ExpireSteps, ExpireRun, ExpireSweep, rows, MarkRun
<1>3. RowsSettle
  <2>1. InFlight \in SUBSET InFlight /\ ReapedStatuses \in SUBSET InFlight
    BY DEF InFlight, ReapedStatuses
  <2>2. "failed" \in StepTerminal /\ "skipped" \in StepTerminal
    BY DEF StepTerminal
  <2>3. CancelRun \/ ReapSteps \/ ExpireSweep => RowsSettle
    BY <2>1, <2>2, SweepSettles DEF CancelRun, ReapSteps, ExpireSweep, SettleStuckComponentRuns
  <2>4. ExpireSteps => RowsSettle
    <3>1. \A m \in Steps : step[m] \in Row
      BY <1>t DEF RowsOK
    <3> QED
      BY <3>1 DEF ExpireSteps, RowsSettle, Row, InFlight, StepTerminal
  <2>5. CancelJob \/ FindStuck \/ ReapStuckRun \/ FindExpired \/ ExpireRun => step' = step
    BY DEF CancelJob, FindStuck, ReapStuckRun, FindExpired, ExpireRun, rows
  <2> QED
    BY <2>3, <2>4, <2>5 DEF Reaper, RowsSettle
<1>4. \A j \in Jobs : \/ job'[j].state = job[j].state
                      \/ job[j].state \in {"available", "retryable"} /\ job'[j].state = "cancelled"
  <2>1. CASE CancelJob /\ JobCancel(jobID)
    BY <1>t, <2>1 DEF JobCancel, QueueOK, RowsOK
  <2>2. CASE ~(CancelJob /\ JobCancel(jobID))
    <3>1. job' = job
      BY <2>2 DEF CancelRun, CancelJob, Reaper, FindStuck, ReapStuckRun, ReapSteps, FindExpired,
             ExpireSteps, ExpireRun, ExpireSweep
    <3> QED
      BY <3>1
  <2> QED
    BY <2>1, <2>2
<1>5. FirstDone => FirstDone'
  BY <1>t, <1>1, <1>4 DEF FirstDone, LiveJob
<1> QED
  BY <1>1, <1>2, <1>3, <1>4, <1>5, GateFrame

\* Every step keeps the gate.
LEMMA OneGateNext ==
  ASSUME TypeInv, ApprovalsAreDecisions, OneGate, OneGateInv, [Next]_vars
  PROVE  OneGateInv'
<1>1. ASSUME NEW j \in Jobs, Fetch(j) \/ Rescue(j) \/ Crash(j) \/ Abort(j) \/ Work(j) PROVE OneGateInv'
  BY <1>1, QueueGate, WorkGate, StepWorkGate DEF Work
<1>2. ASSUME NEW n \in Steps, TaskEnds(n) \/ Handler(n) \/ \E d \in {"approve", "reject"} : DecideCheck(n, d)
      PROVE  OneGateInv'
  BY <1>2, TaskEndsGate, HandlerGate
<1>3. CASE CancelRun \/ CancelJob \/ Reaper
  BY <1>3, AroundGate
<1>4. CASE UNCHANGED vars
  <2>1. UNCHANGED <<status, step, decision, task, job, pc, seen, node, final, decide, crashes>>
    BY <1>4 DEF vars
  <2> QED
    BY <2>1 DEF OneGateInv, NoOrphans, GateOK, Undecided, Decided, Rejected, FirstDone
<1> QED
  BY <1>1, <1>2, <1>3, <1>4 DEF Next

\* With one gate and no worker killed, a gated step touches the cluster only
\* after it was approved, and one that was rejected never does, whatever
\* cancels, timeouts, expiries and retries surround the decision (runs.go:
\* ApproveComponentRun, RejectComponentRun; worker.go: runComponent).
THEOREM OneGateHolds == ASSUME OneGate PROVE Spec => []GateHolds
<1>1. ApprovalsAreDecisions /\ OneGateInv /\ TypeInv => GateHolds
  <2> SUFFICES ASSUME ApprovalsAreDecisions, OneGateInv, TypeInv, NEW n \in Gated, task[n] # << >>
               PROVE  decision[n] = "approve"
    BY DEF GateHolds
  <2>1. decision[n] # "none" /\ n \in Steps
    BY WorkflowRunAssumption DEF ApprovalsAreDecisions, GateDecided
  <2>2. decision[n] # "reject"
    BY DEF OneGateInv, GateOK, Rejected
  <2>3. decision[n] \in {"none", "approve", "reject"}
    BY <2>1 DEF TypeInv, RowsOK
  <2> QED
    BY <2>1, <2>2, <2>3
<1> QED
  BY <1>1, TypeInvInit, TypeInvNext, ApprovalsInit, ApprovalsNext, OneGateInit, OneGateNext, PTL DEF Spec

-----------------------------------------------------------------------------
(* The dependency order in the database *)

\* An attempt that has loaded the rows and still acts on what it loaded.
Working(j) == pc[j] \in {"loaded", "drive"}

\* Two attempts never work on the run at once.
SoleDriver == \A i, j \in Jobs : Working(i) /\ Working(j) => i = j

\* Without a gate there is nothing to decide, and so no second job.
NoGateInv ==
  /\ \A n \in Steps : decide[n].at = "idle"
  /\ \A j \in Jobs : j # 1 => job[j].state = "none"

\* One decision inserts one job.
OneResumeInv ==
  /\ \A j \in Jobs : j > 2 => job[j].state = "none"
  /\ \A g \in Gated : decide[g].at = "insert" => \A j \in Jobs : j # 1 => job[j].state = "none"

\* A job comes from a handler.
LEMMA OnlyDecideInserts ==
  ASSUME TypeInv, [Next]_vars, NEW j \in Jobs, job[j].state = "none", job'[j].state # "none"
  PROVE  \E n \in Steps : DecideInsert(n) /\ j = NextJob
<1>t. QueueOK /\ RowsOK /\ RunningOK
  BY DEF TypeInv
<1>1. ASSUME NEW i \in Jobs, Fetch(i) \/ Rescue(i) \/ Crash(i) \/ Abort(i) \/ Work(i) PROVE FALSE
  <2>1. i # j => job'[j] = job[j]
    BY <1>1, <1>t DEF Fetch, Rescue, Crash, Abort, Work, StepWork, MarkRunning, Skip, Park, Launch,
       PlanFails, Lookup, ListFails, Submit, OnSubmitted, Observe, ExecuteFails, ScheduleReturns,
       Suspend, Finish, Sweep, Return, QueueOK
  <2>2. i = j
    BY <2>1
  <2>3. pc[j] = "off"
    BY <1>t DEF RunningOK
  <2> QED
    BY <1>1, <2>2, <2>3 DEF Fetch, Rescue, Crash, Abort, Work, StepWork, MarkRunning, Skip, Park, Launch,
       PlanFails, Lookup, ListFails, Submit, OnSubmitted, Observe, ExecuteFails, ScheduleReturns,
       Suspend, Finish, Sweep, Return, Driving
<1>2. CASE CancelJob
  <2>1. jobID \in Jobs
    BY <1>t DEF RowsOK
  <2> QED
    BY <1>2, <1>t, <2>1 DEF CancelJob, JobCancel, QueueOK
<1>3. PICK n \in Steps : DecideInsert(n)
  BY <1>1, <1>2 DEF Next, TaskEnds, Handler, DecideWrite, DecideSetRunJob, DecideFails, DecideCheck,
     CancelRun, Reaper, FindStuck, ReapStuckRun, ReapSteps, FindExpired, ExpireSteps, ExpireRun,
     ExpireSweep, vars
<1>4. j # NextJob => job'[j] = job[j]
  BY <1>3, <1>t DEF DecideInsert, Insert, QueueOK
<1> QED
  BY <1>3, <1>4

\* Where a handler is changes by its own step.
LEMMA OnlyHandlersMove ==
  ASSUME TypeInv, [Next]_vars, NEW n \in Steps, decide'[n] # decide[n]
  PROVE  Handler(n) \/ \E d \in {"approve", "reject"} : DecideCheck(n, d)
<1>t. HandlersOK
  BY DEF TypeInv
<1>1. PICK m \in Steps : Handler(m) \/ \E d \in {"approve", "reject"} : DecideCheck(m, d)
  <2>1. ASSUME NEW j \in Jobs, Fetch(j) \/ Rescue(j) \/ Crash(j) \/ Abort(j) \/ Work(j) PROVE FALSE
    <3>1. ASSUME NEW k \in Steps, StepWork(j, k) PROVE decide' = decide
      BY <3>1, StepWorkDoes
    <3> QED
      BY <2>1, <3>1 DEF Fetch, Rescue, Crash, Abort, Work, MarkRunning, ScheduleReturns, Suspend,
         Finish, Sweep, Return, handlers
  <2> QED
    BY <2>1 DEF Next, TaskEnds, CancelRun, CancelJob, Reaper, FindStuck, ReapStuckRun, ReapSteps,
       FindExpired, ExpireSteps, ExpireRun, ExpireSweep, vars, handlers
<1>2. m # n => decide'[n] = decide[n]
  BY <1>1, <1>t DEF Handler, DecideWrite, DecideInsert, DecideSetRunJob, DecideFails, DecideCheck, HandlersOK
<1> QED
  BY <1>1, <1>2

LEMMA NoGateInit == Init => NoGateInv
  BY DEF Init, NoGateInv

\* Nothing is ever decided.
LEMMA NoGateNext == ASSUME TypeInv, Gated = {}, NoGateInv, [Next]_vars PROVE NoGateInv'
<1>1. ASSUME NEW n \in Steps PROVE decide'[n].at = "idle"
  <2>1. decide[n].at = "idle"
    BY DEF NoGateInv
  <2>2. ~Handler(n) /\ ~\E d \in {"approve", "reject"} : DecideCheck(n, d)
    BY <2>1 DEF Handler, DecideWrite, DecideInsert, DecideSetRunJob, DecideFails, DecideCheck
  <2> QED
    BY <2>1, <2>2, OnlyHandlersMove
<1>2. ASSUME NEW j \in Jobs, j # 1 PROVE job'[j].state = "none"
  BY <1>2, OnlyDecideInserts DEF NoGateInv, DecideInsert
<1> QED
  BY <1>1, <1>2 DEF NoGateInv

LEMMA OneResumeInit == Init => OneResumeInv
  BY DEF Init, OneResumeInv, Jobs

\* A handler comes to insert when no other job exists, and moves on when it has
\* inserted one.
LEMMA OneResumeNext ==
  ASSUME TypeInv, OneGate, OneGateInv, OneResumeInv, [Next]_vars
  PROVE  OneResumeInv'
<1> USE WorkflowRunAssumption
<1>t. QueueOK /\ HandlersOK
  BY DEF TypeInv
<1>1. ASSUME NEW n \in Steps, DecideInsert(n) PROVE NextJob = 2 /\ n \in Gated /\ decide'[n].at = "setjob"
  <2>1. decide[n].at = "insert" /\ NextJob \in Jobs /\ decide'[n].at = "setjob"
    BY <1>1, <1>t DEF DecideInsert, HandlersOK
  <2>2. n \in Gated
    BY <2>1 DEF OneGateInv
  <2>3. \A j \in Jobs : j # 1 => job[j].state = "none"
    BY <2>1, <2>2 DEF OneResumeInv
  <2>4. \A j \in Jobs : job[j].state # "none" <=> j < NextJob
    BY <1>t, <2>1, InsertTakesNext
  <2>5. 1 \in Jobs /\ job[1].state # "none"
    BY <1>t DEF QueueOK, Jobs
  <2>6. 1 < NextJob /\ NextJob \in Nat
    BY <2>1, <2>4, <2>5 DEF Jobs
  <2>7. NextJob > 2 => 2 \in Jobs /\ job[2].state # "none"
    BY <2>1, <2>4, <2>6 DEF Jobs
  <2> QED
    BY <2>1, <2>2, <2>3, <2>6, <2>7
<1>2. ASSUME NEW j \in Jobs, j > 2 PROVE job'[j].state = "none"
  <2>1. j # 2 /\ job[j].state = "none"
    BY <1>2 DEF OneResumeInv, Jobs
  <2> QED
    BY <2>1, <1>1, OnlyDecideInserts
<1>3. ASSUME NEW g \in Gated, decide'[g].at = "insert", NEW j \in Jobs, j # 1 PROVE job'[j].state = "none"
  <2>1. job[j].state = "none"
    <3>1. CASE decide[g].at = "insert"
      BY <1>3, <3>1 DEF OneResumeInv
    <3>2. CASE decide[g].at # "insert"
      <4>1. Handler(g) \/ \E d \in {"approve", "reject"} : DecideCheck(g, d)
        BY <1>3, <3>2, OnlyHandlersMove
      <4>2. DecideWrite(g)
        BY <4>1, <1>3, <1>t DEF Handler, DecideInsert, DecideSetRunJob, DecideFails, DecideCheck, HandlersOK
      <4>3. Undecided(g)
        BY <4>2 DEF DecideWrite, OneGateInv, GateOK, Decided
      <4> QED
        BY <4>3, <1>3 DEF Undecided
    <3> QED
      BY <3>1, <3>2
  <2>2. ~\E n \in Steps : DecideInsert(n)
    <3> SUFFICES ASSUME NEW n \in Steps, DecideInsert(n) PROVE FALSE
      OBVIOUS
    <3>1. n = g
      BY <1>1 DEF OneGate
    <3> QED
      BY <1>1, <1>3, <3>1
  <2> QED
    BY <2>1, <2>2, OnlyDecideInserts
<1> QED
  BY <1>2, <1>3 DEF OneResumeInv

\* One step at most is gated; if one is, no worker is killed.
OneDriver == Gated = {} \/ OneGate

SoleInv ==
  \/ Gated = {} /\ NoGateInv
  \/ Gated # {} /\ OneGateInv /\ OneResumeInv

LEMMA SoleInit == Init => SoleInv
  BY NoGateInit, OneGateInit, OneResumeInit DEF SoleInv

LEMMA SoleNext ==
  ASSUME OneDriver, TypeInv, ApprovalsAreDecisions, SoleInv, [Next]_vars
  PROVE  SoleInv'
<1>1. CASE Gated = {}
  BY <1>1, NoGateNext DEF SoleInv
<1>2. CASE Gated # {}
  BY <1>2, OneGateNext, OneResumeNext DEF SoleInv, OneDriver
<1> QED
  BY <1>1, <1>2

\* The job that resumes a run begins when the first one is done with it.
LEMMA SoleInvIsSole == ASSUME TypeInv, SoleInv PROVE SoleDriver
<1> SUFFICES ASSUME NEW i \in Jobs, NEW j \in Jobs, Working(i), Working(j), i # j PROVE FALSE
  BY DEF SoleDriver
<1>1. job[i].state # "none" /\ job[j].state # "none"
  BY DEF Working, TypeInv, RunningOK
<1>2. CASE NoGateInv
  BY <1>1, <1>2 DEF NoGateInv
<1>3. CASE Gated # {} /\ OneGateInv /\ OneResumeInv
  <2>1. i \in {1, 2} /\ j \in {1, 2}
    BY <1>1, <1>3 DEF OneResumeInv, Jobs
  <2>2. Working(1) /\ 2 \in Jobs /\ job[2].state # "none"
    BY <1>1, <2>1
  <2>3. FirstDone
    BY <1>3, <2>2 DEF OneGateInv, GateOK, Undecided, Decided
  <2> QED
    BY <2>2, <2>3 DEF FirstDone, Working
<1> QED
  BY <1>2, <1>3 DEF SoleInv

\* What a worker that drives the run knows of the rows.  A fresh attempt has
\* looked at nothing yet; what is launched has its dependencies behind it; an
\* outcome others depend on is in the database, as long as the attempt's writes
\* reach it; and an outcome that was loaded is still there when it is used.
Fresh ==
  \A j \in Jobs : pc[j] \in {"off", "loaded"} => \A n \in Steps : node[j][n] = "pending"

LaunchedReady ==
  \A j \in Jobs, n \in Steps : pc[j] = "drive" /\ node[j][n] \in Executing => Ready(j, n)

OutcomePersisted ==
  \A j \in Jobs, d \in Steps :
    pc[j] = "drive" /\ ~ctxDone[j] /\ Passed(j, d) => step[d].status = node[j][d]

LoadedHolds ==
  \A j \in Jobs, d \in Steps :
    Working(j) /\ node[j][d] = "pending" /\ seen[j][d].status \in {"succeeded", "failed"} =>
      step[d].status = seen[j][d].status

DriveInv == errors \in Nat /\ Fresh /\ LaunchedReady /\ OutcomePersisted /\ LoadedHolds

LEMMA DriveInit == Init => DriveInv
<1> SUFFICES ASSUME Init PROVE DriveInv
  OBVIOUS
<1>1. errors \in Nat /\ \A j \in Jobs : pc[j] = "off" /\ \A n \in Steps : node[j][n] = "pending"
  BY DEF Init
<1> QED
  BY <1>1 DEF DriveInv, Fresh, LaunchedReady, OutcomePersisted, LoadedHolds, Working

\* Only open rows change.
OutcomesStay == \A m \in Steps : step[m].status \in InFlight \/ step'[m].status = step[m].status

\* A step around schedule() leaves the attempts' views alone, and begins to
\* drive only what it has just loaded.
LEMMA DriveFrame ==
  ASSUME DriveInv, OutcomesStay, UNCHANGED <<seen, node>>, errors' \in Nat,
         \A j \in Jobs : ctxDone[j] => ctxDone'[j],
         \A j \in Jobs : \/ pc'[j] = pc[j]
                         \/ pc[j] = "loaded" /\ pc'[j] = "drive"
                         \/ pc'[j] \in {"finish", "sweep", "return"}
  PROVE  DriveInv'
<1> USE DEF DriveInv
<1>1. Fresh'
  BY DEF Fresh
<1>2. LaunchedReady'
  BY DEF Fresh, LaunchedReady, Ready, Passed, Executing
<1>3. OutcomePersisted'
  <2> SUFFICES ASSUME NEW j \in Jobs, NEW d \in Steps, pc'[j] = "drive", ~ctxDone'[j], Passed(j, d)'
               PROVE  step'[d].status = node'[j][d]
    BY DEF OutcomePersisted
  <2>1. ~ctxDone[j] /\ Passed(j, d)
    BY DEF Passed
  <2>2. pc[j] = "drive"
    BY <2>1 DEF Fresh, Passed
  <2>3. step[d].status = node[j][d] /\ node[j][d] \in {"succeeded", "failed"}
    BY <2>1, <2>2 DEF OutcomePersisted, Passed
  <2> QED
    BY <2>3 DEF OutcomesStay, InFlight
<1>4. LoadedHolds'
  <2> SUFFICES ASSUME NEW j \in Jobs, NEW d \in Steps, Working(j)', node'[j][d] = "pending",
                      seen'[j][d].status \in {"succeeded", "failed"}
               PROVE  step'[d].status = seen'[j][d].status
    BY DEF LoadedHolds
  <2>1. Working(j)
    BY DEF Working
  <2>2. step[d].status = seen[j][d].status
    BY <2>1 DEF LoadedHolds
  <2> QED
    BY <2>2 DEF OutcomesStay, InFlight
<1> QED
  BY <1>1, <1>2, <1>3, <1>4

\* What schedule() and Execute make of a step: a node moves once and for all
\* out of pending, and then out of executing; what is launched is ready; and an
\* outcome is written along with the node, or was loaded.  A transient error
\* leaves a row open although its node has failed.
LEMMA StepWorkPersists ==
  ASSUME ContOnFail = {} \/ MaxErrors = 0, TypeInv, DriveInv,
         NEW j \in Jobs, NEW n \in Steps, StepWork(j, n)
  PROVE  /\ errors' \in Nat /\ ctxDone' = ctxDone
         /\ node[j][n] \in {"pending"} \cup Executing /\ node'[j][n] # "pending"
         /\ node'[j][n] \in Executing => Ready(j, n)
         /\ ~ctxDone[j] /\ Passed(j, n)' => step'[n].status = node'[j][n]
<1>t. AttemptsOK /\ TasksOK /\ step \in [Steps -> Row] /\ errors \in Nat
  BY DEF TypeInv, RowsOK, DriveInv
<1>d. pc[j] = "drive" /\ (node[j][n] \in Executing => Ready(j, n))
  BY StepWorkDoes DEF DriveInv, LaunchedReady
<1>m. ASSUME NEW x, NEW t, MarkComponentRun(j, n, x, t), ~ctxDone[j] PROVE step'[n].status = x
  BY <1>m, <1>t DEF MarkComponentRun, Row
<1>1. CASE Skip(j, n)
  <2>1. node'[j][n] = "skipped" /\ node[j][n] = "pending" /\ UNCHANGED <<ctxDone, errors>>
    BY <1>1, <1>t, BecomesOnly DEF Skip, Sweepable
  <2> QED
    BY <1>t, <2>1 DEF Passed, Executing
<1>2. CASE Park(j, n)
  <2>1. node'[j][n] = "parked" /\ node[j][n] = "pending" /\ UNCHANGED <<ctxDone, errors>>
    BY <1>2, <1>t, BecomesOnly DEF Park, Sweepable
  <2> QED
    BY <1>t, <2>1 DEF Passed, Executing
<1>3. CASE Launch(j, n)
  <2>1. node[j][n] = "pending" /\ Ready(j, n) /\ UNCHANGED <<ctxDone, errors>>
    BY <1>3 DEF Launch, Sweepable
  <2>2. CASE seen[j][n].status \in StepTerminal
    <3>1. node'[j][n] = seen[j][n].status /\ step' = step
      BY <1>3, <1>t, <2>2, BecomesOnly DEF Launch, ShortCircuit
    <3>2. Passed(j, n)' => seen[j][n].status \in {"succeeded", "failed"}
      BY <3>1 DEF Passed
    <3>3. Passed(j, n)' => step[n].status = seen[j][n].status
      BY <1>d, <2>1, <3>2 DEF DriveInv, LoadedHolds, Working
    <3> QED
      BY <1>t, <2>1, <2>2, <3>1, <3>3 DEF StepTerminal
  <2>3. CASE seen[j][n].status \notin StepTerminal
    <3>1. node'[j][n] = "exec"
      BY <1>3, <1>t, <2>3, BecomesOnly DEF Launch
    <3> QED
      BY <1>t, <2>1, <3>1 DEF Passed
  <2> QED
    BY <2>2, <2>3
<1>4. CASE PlanFails(j, n)
  <2>1. /\ node'[j][n] = "failed" /\ node[j][n] = "exec" /\ UNCHANGED <<ctxDone, errors>>
        /\ MarkComponentRun(j, n, "failed", 0)
    BY <1>4, <1>t, BecomesOnly DEF PlanFails
  <2> QED
    BY <1>t, <1>m, <2>1 DEF Executing
<1>5. CASE Lookup(j, n) \/ ListFails(j, n) \/ Submit(j, n) \/ OnSubmitted(j, n)
  <2>1. \E x \in Executing : Becomes(j, n, x)
    BY <1>5 DEF Lookup, ListFails, Submit, OnSubmitted, Executing
  <2>2. node[j][n] \in Executing /\ errors' \in {errors, errors + 1} /\ ctxDone' = ctxDone
    BY <1>5 DEF Lookup, ListFails, Submit, OnSubmitted, Executing
  <2>3. node'[j][n] \in Executing
    BY <1>t, <2>1, BecomesOnly
  <2> QED
    BY <1>t, <1>d, <2>2, <2>3 DEF Executing, Passed
<1>6. CASE Observe(j, n)
  <2> DEFINE x == task[n][attached[j][n]]
  <2>1. node'[j][n] = x /\ node[j][n] = "await" /\ UNCHANGED <<ctxDone, errors>>
    BY <1>6, <1>t, BecomesOnly DEF Observe
  <2>2. x \in {"succeeded", "failed"}
    BY <1>6, <1>t DEF Observe, TypeInv, AttachedOK, TasksOK, Phases
  <2>3. ~ctxDone[j] => step'[n].status = x
    BY <1>6, <1>m DEF Observe
  <2> QED
    BY <1>t, <2>1, <2>2, <2>3 DEF Executing
<1>7. CASE ExecuteFails(j, n)
  <2>1. /\ node'[j][n] = "failed" /\ node[j][n] \in Executing /\ ctxDone' = ctxDone
        /\ errors' \in {errors, errors + 1}
    BY <1>7, <1>t, BecomesOnly DEF ExecuteFails
  <2>2. ~ctxDone[j] => n \notin ContOnFail
    BY <1>7, <1>t DEF ExecuteFails
  <2>3. ~ctxDone[j] => ~Passed(j, n)'
    BY <2>1, <2>2 DEF Passed
  <2> QED
    BY <1>t, <2>1, <2>3 DEF Executing
<1> QED
  BY <1>1, <1>2, <1>3, <1>4, <1>5, <1>6, <1>7 DEF StepWork

\* schedule() and Execute, by the only attempt that works on the run.
LEMMA StepWorkDrives ==
  ASSUME ContOnFail = {} \/ MaxErrors = 0, TypeInv, SoleDriver, DriveInv,
         NEW j \in Jobs, NEW n \in Steps, StepWork(j, n)
  PROVE  DriveInv'
<1>1. /\ pc[j] = "drive" /\ UNCHANGED <<pc, seen>>
      /\ \A m \in Steps : m # n => step'[m] = step[m]
      /\ \A i \in Jobs, m \in Steps : i # j \/ m # n => node'[i][m] = node[i][m]
  BY StepWorkDoes
<1>2. /\ errors' \in Nat /\ ctxDone' = ctxDone
      /\ node[j][n] \in {"pending"} \cup Executing /\ node'[j][n] # "pending"
      /\ node'[j][n] \in Executing => Ready(j, n)
      /\ ~ctxDone[j] /\ Passed(j, n)' => step'[n].status = node'[j][n]
  BY StepWorkPersists
<1>3. \A i \in Jobs : pc[i] \in {"loaded", "drive"} => i = j
  BY <1>1 DEF SoleDriver, Working
<1>4. Fresh'
  BY <1>1 DEF DriveInv, Fresh
<1>5. LaunchedReady'
  <2> SUFFICES ASSUME NEW m \in Steps, node'[j][m] \in Executing PROVE Ready(j, m)'
    BY <1>1, <1>3 DEF LaunchedReady
  <2>1. Ready(j, m)
    BY <1>1, <1>2 DEF DriveInv, LaunchedReady
  <2>2. \A d \in DependsOn[m] : d \in Steps /\ Passed(j, d) /\ d # n
    BY <1>2, <2>1, WorkflowRunAssumption DEF Ready, Passed, Executing
  <2> QED
    BY <1>1, <2>2 DEF Ready, Passed
<1>6. OutcomePersisted'
  <2> SUFFICES ASSUME NEW d \in Steps, ~ctxDone[j], Passed(j, d)' PROVE step'[d].status = node'[j][d]
    BY <1>1, <1>2, <1>3 DEF OutcomePersisted
  <2>1. CASE d = n
    BY <1>2, <2>1
  <2>2. CASE d # n
    BY <1>1, <2>2 DEF Passed, DriveInv, OutcomePersisted
  <2> QED
    BY <2>1, <2>2
<1>7. LoadedHolds'
  <2> SUFFICES ASSUME NEW d \in Steps, node'[j][d] = "pending", seen[j][d].status \in {"succeeded", "failed"}
               PROVE  step'[d].status = seen[j][d].status
    BY <1>1, <1>3 DEF LoadedHolds, Working
  <2> QED
    BY <1>1, <1>2 DEF DriveInv, LoadedHolds, Working
<1> QED
  BY <1>2, <1>4, <1>5, <1>6, <1>7 DEF DriveInv

\* River begins an attempt, with the rows as they are, and ends one.
LEMMA QueueDrives ==
  ASSUME TypeInv, DriveInv, NEW j \in Jobs, Fetch(j) \/ Rescue(j) \/ Crash(j) \/ Return(j)
  PROVE  DriveInv'
<1>t. AttemptsOK /\ RunningOK
  BY DEF TypeInv
<1>1. CASE Rescue(j)
  <2>1. UNCHANGED <<pc, seen, node, ctxDone, step, errors>>
    BY <1>1 DEF Rescue, attempt, rows
  <2> QED
    BY <2>1, DriveFrame DEF OutcomesStay, DriveInv
<1>2. CASE Fetch(j) \/ Crash(j) \/ Return(j)
  <2>1. /\ pc'[j] \in {"off", "loaded"} /\ UNCHANGED <<step, errors>>
        /\ \A i \in Jobs : i # j => /\ pc'[i] = pc[i] /\ seen'[i] = seen[i]
                                    /\ node'[i] = node[i] /\ ctxDone'[i] = ctxDone[i]
    BY <1>2, <1>t DEF Fetch, Crash, Return, Leave, AttemptsOK, rows
  <2>2. \A m \in Steps : node'[j][m] = "pending"
    <3>1. CASE Fetch(j)
      <4>1. pc[j] = "off" /\ node' = node
        BY <1>t, <3>1 DEF Fetch, RunningOK
      <4> QED
        BY <4>1 DEF DriveInv, Fresh
    <3>2. CASE Crash(j) \/ Return(j)
      BY <1>t, <3>2 DEF Crash, Return, Leave, AttemptsOK
    <3> QED
      BY <1>2, <3>1, <3>2
  <2>3. pc'[j] = "loaded" => seen'[j] = step
    BY <1>2, <1>t DEF Fetch, Crash, Return, Leave, AttemptsOK
  <2>4. Fresh'
    BY <2>1, <2>2 DEF DriveInv, Fresh
  <2>5. LaunchedReady'
    BY <2>1 DEF DriveInv, LaunchedReady, Ready, Passed
  <2>6. OutcomePersisted'
    BY <2>1 DEF DriveInv, OutcomePersisted, Passed
  <2>7. LoadedHolds'
    BY <2>1, <2>3 DEF DriveInv, LoadedHolds, Working
  <2> QED
    BY <2>1, <2>4, <2>5, <2>6, <2>7 DEF DriveInv
<1> QED
  BY <1>1, <1>2

\* Work around schedule().
LEMMA WorkDrives ==
  ASSUME TypeInv, DriveInv, NEW j \in Jobs,
         MarkRunning(j) \/ ScheduleReturns(j) \/ Suspend(j) \/ Finish(j) \/ Sweep(j) \/ Abort(j)
  PROVE  DriveInv'
<1>t. AttemptsOK
  BY DEF TypeInv
<1>1. UNCHANGED <<seen, node, errors>>
  BY DEF MarkRunning, ScheduleReturns, Suspend, Finish, Sweep, Abort
<1>2. \A i \in Jobs : ctxDone[i] => ctxDone'[i]
  BY <1>t DEF MarkRunning, ScheduleReturns, Suspend, Finish, Sweep, Abort, AttemptsOK
<1>3. \A i \in Jobs : \/ pc'[i] = pc[i]
                      \/ pc[i] = "loaded" /\ pc'[i] = "drive"
                      \/ pc'[i] \in {"finish", "sweep", "return"}
  BY <1>t DEF MarkRunning, ScheduleReturns, Suspend, Finish, Sweep, Abort, AttemptsOK
<1>4. OutcomesStay
  <2>1. Sweep(j) => OutcomesStay
    BY DEF Sweep, SettleStuckComponentRuns, SweepSteps, OutcomesStay
  <2>2. ~Sweep(j) => step' = step
    BY DEF MarkRunning, ScheduleReturns, Suspend, Finish, Abort, rows
  <2> QED
    BY <2>1, <2>2 DEF OutcomesStay
<1> QED
  BY <1>1, <1>2, <1>3, <1>4, DriveFrame DEF DriveInv

\* Everybody else writes open rows only.
LEMMA AroundDrives ==
  ASSUME TypeInv, DriveInv,
         \/ \E n \in Steps : TaskEnds(n) \/ Handler(n)
         \/ \E n \in Steps, d \in {"approve", "reject"} : DecideCheck(n, d)
         \/ CancelRun \/ CancelJob \/ Reaper \/ UNCHANGED vars
  PROVE  DriveInv'
<1>t. AttemptsOK /\ RowsOK
  BY DEF TypeInv
<1>1. UNCHANGED <<pc, seen, node>> /\ errors' \in {errors, errors + 1}
  BY DEF TaskEnds, Handler, DecideWrite, DecideInsert, DecideSetRunJob, DecideFails, DecideCheck,
     CancelRun, CancelJob, Reaper, FindStuck, ReapStuckRun, ReapSteps, FindExpired, ExpireSteps,
     ExpireRun, ExpireSweep, vars, attempt
<1>2. \A i \in Jobs : ctxDone[i] => ctxDone'[i]
  <2>1. CASE CancelJob
    BY <1>t, <2>1 DEF CancelJob, JobCancel, AttemptsOK, RowsOK
  <2>2. CASE ~CancelJob
    <3>1. ctxDone' = ctxDone
      BY <2>2 DEF TaskEnds, Handler, DecideWrite, DecideInsert, DecideSetRunJob, DecideFails,
         DecideCheck, CancelRun, Reaper, FindStuck, ReapStuckRun, ReapSteps, FindExpired, ExpireSteps,
         ExpireRun, ExpireSweep, vars, attempt
    <3> QED
      BY <3>1
  <2> QED
    BY <2>1, <2>2
<1>3. OutcomesStay
  <2>1. CASE CancelRun \/ ReapSteps \/ ExpireSweep
    BY <2>1 DEF CancelRun, ReapSteps, ExpireSweep, SettleStuckComponentRuns, SweepSteps, OutcomesStay,
       ReapedStatuses, InFlight
  <2>2. CASE ExpireSteps
    BY <2>2 DEF ExpireSteps, OutcomesStay, InFlight
  <2>3. ASSUME NEW n \in Steps, DecideWrite(n) PROVE OutcomesStay
    BY <2>3, <1>t DEF DecideWrite, OutcomesStay, InFlight, RowsOK
  <2>4. CASE ~CancelRun /\ ~ReapSteps /\ ~ExpireSweep /\ ~ExpireSteps /\ ~\E n \in Steps : DecideWrite(n)
    <3>1. step' = step
      BY <2>4 DEF TaskEnds, Handler, DecideInsert, DecideSetRunJob, DecideFails, DecideCheck,
         CancelJob, Reaper, FindStuck, ReapStuckRun, FindExpired, ExpireRun, vars, rows
    <3> QED
      BY <3>1 DEF OutcomesStay
  <2> QED
    BY <2>1, <2>2, <2>3, <2>4
<1>4. errors' \in Nat
  BY <1>1 DEF DriveInv
<1> QED
  BY <1>1, <1>2, <1>3, <1>4, DriveFrame

LEMMA DriveNext ==
  ASSUME ContOnFail = {} \/ MaxErrors = 0, TypeInv, SoleDriver, DriveInv, [Next]_vars
  PROVE  DriveInv'
<1>1. ASSUME NEW j \in Jobs, Fetch(j) \/ Rescue(j) \/ Crash(j) \/ Abort(j) \/ Work(j) PROVE DriveInv'
  BY <1>1, QueueDrives, WorkDrives, StepWorkDrives DEF Work
<1>2. CASE \/ \E n \in Steps : TaskEnds(n) \/ Handler(n)
           \/ \E n \in Steps, d \in {"approve", "reject"} : DecideCheck(n, d)
           \/ CancelRun \/ CancelJob \/ Reaper \/ UNCHANGED vars
  BY <1>2, AroundDrives
<1> QED
  BY <1>1, <1>2 DEF Next

\* What Execute submits has, in the database, every dependency behind it.
LEMMA SubmitsInOrder ==
  ASSUME TypeInv, DriveInv, [Next]_vars, NEW n \in Steps, Len(task'[n]) > Len(task[n]),
         NEW d \in DependsOn[n]
  PROVE  /\ step[d].status \in {"succeeded", "failed"}
         /\ step[d].status = "failed" => d \in ContOnFail
<1>1. PICK j \in Jobs : Submit(j, n)
  BY OnlySubmitSubmits
<1>2. pc[j] = "drive" /\ ~ctxDone[j] /\ node[j][n] \in Executing
  BY <1>1 DEF Submit, Driving, Executing
<1>3. d \in Steps /\ Passed(j, d)
  BY <1>2, WorkflowRunAssumption DEF DriveInv, LaunchedReady, Ready
<1>4. step[d].status = node[j][d]
  BY <1>2, <1>3 DEF DriveInv, OutcomePersisted
<1> QED
  BY <1>3, <1>4 DEF Passed

\* The dependency order holds in the database, on any graph, wherever cancels,
\* timeouts of attempts and of gates, the reaper, transient errors and, without
\* a gate, crashes fall: an attempt that reloads the rows launches nothing that
\* they do not justify, and nobody takes an outcome back (worker.go: Work,
\* runComponent; runs.go: MarkComponentRun; recovery.go: CancelRun).  A step
\* with ContinueOnFailure is excepted from transient errors: its row stays
\* running for the retry while what depends on it is launched.
THEOREM OneDriverRespectsDependencies ==
  ASSUME OneDriver, ContOnFail = {} \/ MaxErrors = 0
  PROVE  Spec => DependenciesFirst
<1>1. TypeInv /\ DriveInv /\ [Next]_vars =>
        [\A n \in Steps : Len(task'[n]) > Len(task[n]) =>
           \A d \in DependsOn[n] :
             /\ step[d].status \in {"succeeded", "failed"}
             /\ step[d].status = "failed" => d \in ContOnFail]_vars
  BY SubmitsInOrder
<1>2. TypeInv /\ SoleInv /\ DriveInv /\ [Next]_vars => DriveInv'
  BY SoleInvIsSole, DriveNext
<1> QED
  BY <1>1, <1>2, TypeInvInit, TypeInvNext, ApprovalsInit, ApprovalsNext, SoleInit, SoleNext, DriveInit,
     PTL DEF Spec, DependenciesFirst

=============================================================================
