--------------------------- MODULE ApprovalsProofs ---------------------------
(***************************************************************************)
(* Theorems about Approvals, for every number of people, gates, concurrent *)
(* requests, jobs and failures and every valid policy.                     *)
(***************************************************************************)
EXTENDS Approvals, FiniteSetTheorems, TLAPS

-----------------------------------------------------------------------------
(* The inductive invariant *)

\* What every tally satisfies, in a row or in the hands of a request: people who
\* may approve and did, each once, and a reason for everybody who is missing
\* among those who had approved.
GoodTally(t, p, had) ==
  /\ \A i, j \in DOMAIN t : i # j => t[i].by # t[j].by
  /\ \A i \in DOMAIN t : MayApprove(p, t[i].by)
  /\ \A u \in had : ~ AlreadyApproved(t, u) => \E i \in DOMAIN t : u \notin t[i].at

\* A request about to write holds a good tally that ends with its own entry, and
\* everybody in it but the request itself has approved.
GoodRequest(r) ==
  (req[r].pc = "write" /\ req[r].ask.decision = "approve") =>
    LET w == req[r]
        g == w.ask.gate
    IN
    /\ Len(w.tally) >= 1 /\ w.tally[Len(w.tally)].by = w.ask.user
    /\ w.tally[Len(w.tally)].at \subseteq acked[g]
    /\ GoodTally(w.tally, policy[g], acked[g])
    /\ \A i \in DOMAIN w.tally : w.tally[i].by \in acked[g] \cup {w.ask.user}

\* A row's tally is good, and everybody in it has approved.
GoodRow(g) ==
  /\ GoodTally(step[g].tally, policy[g], acked[g])
  /\ \A i \in DOMAIN step[g].tally : step[g].tally[i].by \in acked[g]

TallyInv ==
  /\ \A r \in Requests : GoodRequest(r)
  /\ \A g \in Gates : GoodRow(g)

\* What an attempt holds of a step that it has not loaded as decided.
Shut == {"none", "gated", "parked"}

\* Only a decided step runs, or is held to be open by an attempt; and a step that
\* was decided on but never rejected has its quorum.
Decided(g) ==
  /\ step[g].status \in {"running", "succeeded"} => step[g].approved
  /\ \A j \in Jobs : job[j].node[g] \notin Shut => step[g].approved
  /\ step[g].approved /\ g \notin rejected => Quorum(g)

IInv ==
  /\ TypeOK
  /\ TallyInv
  /\ \A g \in Gates : Decided(g)

-----------------------------------------------------------------------------
(* Type correctness *)

\* The fields a request has depend on where it is.
LEMMA RequestShape ==
  ASSUME TypeOK, NEW r \in Requests
  PROVE  /\ req[r].pc = "read" => req[r] \in ReadRequest
         /\ req[r].pc = "write" => req[r] \in WriteRequest
         /\ req[r].pc = "record" => req[r] \in RecordRequest
BY DEF TypeOK, ReadRequest, WriteRequest, RecordRequest

\* And so do those of what it asks for.
LEMMA AskShape ==
  ASSUME NEW q \in Asks
  PROVE  /\ q.gate \in Gates /\ q.decision \in {"approve", "reject"}
         /\ q.decision = "approve" => q.user \in Users
BY DEF Asks

\* A job that leaves its attempt.
LEMMA WithoutType ==
  ASSUME NEW pc \in JobPcs
  PROVE  Without(pc) \in [pc : JobPcs, node : [Gates -> NodeStates]]
BY DEF Without, NodeStates

LEMMA SettledType ==
  ASSUME step \in [Gates -> Rows]
  PROVE  Settled(step) \in [Gates -> Rows]
BY DEF Settled, Rows, StepStatuses

\* A read tally with one more approval is a tally.
LEMMA WithApprovalType ==
  ASSUME NEW t \in Seq(Entries), NEW u \in Users, NEW at \in SUBSET Users
  PROVE  WithApproval(t, u, at) \in Seq(Entries)
BY DEF WithApproval, Entries

\* Its entries are the old ones and the new one, which comes last.
LEMMA WithApprovalEntries ==
  ASSUME NEW t \in Seq(Entries), NEW u \in Users, NEW at \in SUBSET Users
  PROVE  LET n == WithApproval(t, u, at) IN
         /\ Len(t) \in Nat /\ Len(n) = Len(t) + 1
         /\ DOMAIN t = 1 .. Len(t) /\ DOMAIN n = 1 .. Len(t) + 1
         /\ n[Len(t) + 1] = [by |-> u, at |-> at]
         /\ \A i \in DOMAIN t : n[i] = t[i]
<1>1. [by |-> u, at |-> at] \in Entries
  BY DEF Entries
<1> QED
  BY <1>1 DEF WithApproval

LEMMA TypeInit == Init => TypeOK
<1> SUFFICES ASSUME Init PROVE TypeOK
  OBVIOUS
<1> USE DEF Init
<1>1. step \in [Gates -> Rows]
  <2>1. <<>> \in Seq(Entries)
    OBVIOUS
  <2> QED
    BY <2>1 DEF Rows, StepStatuses
<1>2. req \in [Requests -> [pc : {"idle", "enqueue"}] \cup ReadRequest \cup WriteRequest
                          \cup RecordRequest]
  BY DEF Idle
<1>3. job \in [Jobs -> [pc : JobPcs, node : [Gates -> NodeStates]]]
  BY WithoutType DEF JobPcs
<1>4. /\ recorded \in Jobs /\ failures \in 0 .. Failures
  BY ApprovalsAssumption DEF Jobs
<1> QED
  BY <1>1, <1>2, <1>3, <1>4 DEF TypeOK

LEMMA TypeServe ==
  ASSUME TypeOK, NEW r \in Requests, Serve(r)
  PROVE  TypeOK'
<1> USE DEF TypeOK
<1>1. CASE ReadStep(r)
  <2> DEFINE q == req[r].ask
             s == step[q.gate]
  <2>1. q \in Asks /\ q.gate \in Gates /\ q.decision \in {"approve", "reject"}
        /\ (q.decision = "approve" => q.user \in Users)
    BY <1>1, RequestShape, AskShape DEF ReadStep, ReadRequest
  <2>2. Tally(q, s) \in Seq(Entries)
    <3>1. s.tally \in Seq(Entries) /\ acked[q.gate] \in SUBSET Users
      BY <2>1 DEF Rows
    <3>2. CASE q.decision = "approve"
      <4>1. WithApproval(s.tally, q.user, acked[q.gate]) \in Seq(Entries)
        BY <2>1, <3>1, <3>2, WithApprovalType
      <4> QED
        BY <3>2, <4>1 DEF Tally
    <3>3. CASE q.decision # "approve"
      BY <3>3 DEF Tally
    <3> QED
      BY <3>2, <3>3
  <2>3. [pc |-> "write", ask |-> q, tally |-> Tally(q, s)] \in WriteRequest
    BY <2>1, <2>2 DEF WriteRequest
  <2>4. Idle \in [pc : {"idle", "enqueue"}]
    BY DEF Idle
  <2> QED
    BY <1>1, <2>3, <2>4 DEF ReadStep
<1>2. CASE Approve(r)
  <2> DEFINE w == req[r]
             g == w.ask.gate
  <2>1. w \in WriteRequest /\ g \in Gates /\ w.ask.user \in Users /\ w.tally \in Seq(Entries)
    BY <1>2, RequestShape, AskShape DEF Approve, Writes, WriteRequest
  <2>2. req' \in [Requests -> [pc : {"idle", "enqueue"}] \cup ReadRequest \cup WriteRequest
                             \cup RecordRequest]
    BY <1>2 DEF Approve, Idle
  <2>3. step' \in [Gates -> Rows]
    BY <1>2, <2>1 DEF Approve, Rows, StepStatuses
  <2>4. acked' \in [Gates -> SUBSET Users] /\ old' \subseteq Gates
    BY <1>2, <2>1 DEF Approve
  <2> QED
    BY <1>2, <2>2, <2>3, <2>4 DEF Approve
<1>3. CASE Reject(r)
  <2>1. req[r].ask.gate \in Gates
    BY <1>3, RequestShape, AskShape DEF Reject, RejectThen, Writes, WriteRequest
  <2>2. step' \in [Gates -> Rows]
    BY <1>3, <2>1 DEF Reject, RejectThen, Rows, StepStatuses
  <2> QED
    BY <1>3, <2>1, <2>2 DEF Reject, RejectThen
<1>4. CASE TooLate(r)
  BY <1>4 DEF TooLate, Idle
<1>5. CASE Enqueue(r)
  <2>1. PICK j \in Jobs : /\ job' = [job EXCEPT ![j] = Without("queued")]
                         /\ req' = [req EXCEPT ![r] = [pc |-> "record", job |-> j]]
    BY <1>5 DEF Enqueue
  <2>2. Without("queued") \in [pc : JobPcs, node : [Gates -> NodeStates]]
    BY WithoutType DEF JobPcs
  <2>3. [pc |-> "record", job |-> j] \in RecordRequest
    BY DEF RecordRequest
  <2> QED
    BY <1>5, <2>1, <2>2, <2>3 DEF Enqueue
<1>6. CASE Record(r)
  <2>1. req[r].job \in Jobs
    BY <1>6, RequestShape DEF Record, RecordRequest
  <2> QED
    BY <1>6, <2>1 DEF Record, Idle
<1> QED
  BY <1>1, <1>2, <1>3, <1>4, <1>5, <1>6 DEF Serve

LEMMA TypeRead ==
  ASSUME TypeOK, NEW r \in Requests, NEW q \in Asks, ReadRun(r, q)
  PROVE  TypeOK'
BY DEF TypeOK, ReadRun, ReadRequest

\* A job leaves its attempt for one of the states of a job.
LEMMA LeaveType ==
  ASSUME TypeOK, NEW j \in Jobs, NEW pc \in JobPcs, Leave(j, pc)
  PROVE  job' \in [Jobs -> [pc : JobPcs, node : [Gates -> NodeStates]]]
BY WithoutType DEF TypeOK, Leave

LEMMA TypeDrive ==
  ASSUME TypeOK, NEW j \in Jobs, Drive(j)
  PROVE  TypeOK'
<1> DEFINE JobType == [Jobs -> [pc : JobPcs, node : [Gates -> NodeStates]]]
<1>1. /\ UNCHANGED <<policy, acked, rejected, req, recorded, cancelling, reap>>
  BY DEF Drive
<1>2. SUFFICES /\ run' \in {"pending", "running", "awaiting_approval", "succeeded", "failed"}
               /\ step' \in [Gates -> Rows] /\ old' \subseteq Gates
               /\ job' \in JobType /\ failures' \in 0 .. Failures
  BY <1>1 DEF TypeOK
<1> USE DEF TypeOK
<1>3. CASE Load(j)
  <2>1. [g \in Gates |-> Loaded(step[g])] \in [Gates -> NodeStates]
    BY DEF Loaded, Rows, StepStatuses, NodeStates, InFlight
  <2>2. job' \in JobType
    BY <1>3, <2>1 DEF Load, JobPcs
  <2>3. failures' = failures
    BY <1>3 DEF Drive, Load, Suspend, Finish, Sweep, Drained, At
  <2> QED
    BY <1>3, <2>2, <2>3 DEF Load
<1>4. CASE MarkRunning(j) /\ UNCHANGED failures
  BY <1>4 DEF MarkRunning, Goto, MarkRun, JobPcs
<1>5. ASSUME NEW g \in Gates, NEW n \in NodeStates, NEW s \in StepStatuses,
             Becomes(j, g, n), MarkComponentRun(g, s), UNCHANGED <<run, failures>>
      PROVE  /\ run' \in {"pending", "running", "awaiting_approval", "succeeded", "failed"}
             /\ step' \in [Gates -> Rows] /\ old' \subseteq Gates
             /\ job' \in JobType /\ failures' \in 0 .. Failures
  <2>1. job' \in JobType
    BY <1>5 DEF Becomes
  <2>2. step' \in [Gates -> Rows]
    BY <1>5 DEF MarkComponentRun, Rows
  <2> QED
    BY <1>5, <2>1, <2>2 DEF MarkComponentRun
<1>6. CASE (\E g \in Gates : Park(j, g) \/ Launch(j, g) \/ Result(j, g)) /\ UNCHANGED failures
  <2>1. PICK g \in Gates : Park(j, g) \/ Launch(j, g) \/ Result(j, g)
    BY <1>6
  <2>2. PICK n \in NodeStates, s \in StepStatuses : Becomes(j, g, n) /\ MarkComponentRun(g, s)
    BY <2>1 DEF Park, Launch, Result, NodeStates, StepStatuses
  <2>3. UNCHANGED run
    BY <2>1 DEF Park, Launch, Result
  <2> QED
    BY <1>5, <1>6, <2>2, <2>3
<1>7. ASSUME End(j) PROVE job' \in JobType /\ failures' \in 0 .. Failures
  <2>1. job' \in JobType
    BY <1>7, LeaveType DEF End, JobPcs
  <2>2. failures' \in 0 .. Failures
    BY <1>7, ApprovalsAssumption DEF End
  <2> QED
    BY <2>1, <2>2
<1>8. CASE Suspend(j)
  BY <1>7, <1>8 DEF Suspend, MarkRun
<1>9. CASE Finish(j)
  <2>1. job' \in JobType /\ failures' \in 0 .. Failures
    BY <1>7, <1>9, LeaveType DEF Finish, JobPcs
  <2> QED
    BY <1>9, <2>1 DEF Finish, MarkRun
<1>10. CASE Sweep(j)
  BY <1>7, <1>10, SettledType DEF Sweep, Update
<1> QED
  BY <1>3, <1>4, <1>6, <1>8, <1>9, <1>10 DEF Drive

LEMMA TypeFail ==
  ASSUME TypeOK, NEW j \in Jobs, Fail(j)
  PROVE  TypeOK'
<1>1. job' \in [Jobs -> [pc : JobPcs, node : [Gates -> NodeStates]]]
  BY LeaveType DEF Fail, JobPcs
<1>2. run' \in {"pending", "running", "awaiting_approval", "succeeded", "failed"}
  BY DEF Fail, MarkRun, TypeOK
<1>3. failures' \in 0 .. Failures
  BY ApprovalsAssumption DEF Fail, TypeOK
<1> QED
  BY <1>1, <1>2, <1>3 DEF Fail, TypeOK

LEMMA TypeCancel ==
  ASSUME TypeOK, CancelRun \/ JobCancel
  PROVE  TypeOK'
<1>1. CASE CancelRun
  BY <1>1 DEF CancelRun, Update, TypeOK, Rows, StepStatuses
<1>2. CASE JobCancel
  <2>1. job' \in [Jobs -> [pc : JobPcs, node : [Gates -> NodeStates]]]
    BY <1>2, LeaveType DEF JobCancel, TypeOK, JobPcs
  <2> QED
    BY <1>2, <2>1 DEF JobCancel, TypeOK
<1> QED
  BY <1>1, <1>2

LEMMA TypeReap ==
  ASSUME TypeOK, Reap \/ \E g \in Gates : Age(g)
  PROVE  TypeOK'
<1> USE DEF TypeOK
<1>1. CASE Reap
  <2>1. UNCHANGED <<policy, acked, rejected, req, job, recorded, cancelling, failures>>
    BY <1>1 DEF Reap
  <2>2. CASE StuckFind \/ ReapFind \/ ReapSteps
    BY <2>1, <2>2 DEF StuckFind, ReapFind, ReapSteps
  <2>3. CASE StuckRun \/ ReapRun
    BY <2>1, <2>3 DEF StuckRun, ReapRun, MarkRun
  <2>4. CASE StuckSteps
    BY <2>1, <2>4 DEF StuckSteps, Update, Rows, StepStatuses
  <2>5. ASSUME NEW g \in Gates, ReapFail(g) PROVE TypeOK'
    BY <2>1, <2>5 DEF ReapFail, Update, Rows, StepStatuses
  <2>6. CASE ReapSettle
    BY <2>1, <2>6, SettledType DEF ReapSettle, Update
  <2> QED
    BY <1>1, <2>2, <2>3, <2>4, <2>5, <2>6 DEF Reap
<1>2. ASSUME NEW g \in Gates, Age(g) PROVE TypeOK'
  BY <1>2 DEF Age
<1> QED
  BY <1>1, <1>2

LEMMA TypeStep == TypeOK /\ [Next]_vars => TypeOK'
<1> SUFFICES ASSUME TypeOK, [Next]_vars PROVE TypeOK'
  OBVIOUS
<1>1. CASE UNCHANGED vars
  BY <1>1 DEF TypeOK, vars
<1> QED
  BY <1>1, TypeServe, TypeRead, TypeDrive, TypeFail, TypeCancel, TypeReap DEF Next

\* Type correctness of the approval gates: rows, requests, attempts and reapers.
THEOREM ApprovalsTypeCorrect == Spec => []TypeOK
BY TypeInit, TypeStep, PTL DEF Spec

-----------------------------------------------------------------------------
(* Tallies *)

\* A step that changes no tally, no stored approval and no request that is
\* about to write.
TalliesKept ==
  /\ acked' = acked /\ policy' = policy
  /\ \A g \in Gates : step'[g].tally = step[g].tally
  /\ \A r \in Requests : req'[r] = req[r] \/ req'[r].pc # "write"

\* A step that decides on nothing.
DecisionsKept ==
  rejected' = rejected /\ \A g \in Gates : step'[g].approved = step[g].approved

LEMMA KeepTallies ==
  ASSUME TallyInv, TypeOK, TalliesKept
  PROVE  TallyInv'
<1>1. ASSUME NEW r \in Requests PROVE GoodRequest(r)'
  <2>1. CASE req'[r].pc # "write"
    BY <2>1 DEF GoodRequest
  <2>2. CASE req'[r] = req[r]
    <3>1. GoodRequest(r)
      BY DEF TallyInv
    <3> QED
      BY <2>2, <3>1 DEF TalliesKept, GoodRequest
  <2> QED
    BY <2>1, <2>2 DEF TalliesKept
<1>2. ASSUME NEW g \in Gates PROVE GoodRow(g)'
  <2>1. GoodRow(g)
    BY DEF TallyInv
  <2> QED
    BY <2>1 DEF TalliesKept, GoodRow
<1> QED
  BY <1>1, <1>2 DEF TallyInv

LEMMA RejectKeepsTallies ==
  ASSUME TypeOK, NEW r \in Requests, Reject(r)
  PROVE  TalliesKept
BY RequestShape, AskShape DEF TypeOK, Rows, Reject, RejectThen, Writes, WriteRequest, TalliesKept

\* A step that changes statuses only.
LEMMA StatusKeeps ==
  ASSUME step \in [Gates -> Rows], NEW g \in Gates, NEW h \in Gates, NEW s
  PROVE  LET rows == [step EXCEPT ![h].status = s] IN
         rows[g].tally = step[g].tally /\ rows[g].approved = step[g].approved
BY DEF Rows

\* And so does a sweep, which changes them to s.
LEMMA SweptKeeps ==
  ASSUME step \in [Gates -> Rows], NEW g \in Gates, NEW S, NEW s
  PROVE  LET rows == [h \in Gates |-> IF step[h].status \in S THEN [step[h] EXCEPT !.status = s]
                                     ELSE step[h]]
         IN  rows[g].tally = step[g].tally /\ rows[g].approved = step[g].approved
BY DEF Rows

LEMMA SettledKeeps ==
  ASSUME step \in [Gates -> Rows], NEW g \in Gates
  PROVE  Settled(step)[g].tally = step[g].tally /\ Settled(step)[g].approved = step[g].approved
BY DEF Settled, Rows

\* Everything but reading and deciding leaves the tallies and the decisions alone.
LEMMA OthersKeep ==
  ASSUME TypeOK, [Next]_vars,
         ~ \E r \in Requests : ReadStep(r) \/ Approve(r) \/ Reject(r)
  PROVE  TalliesKept /\ DecisionsKept
<1> USE DEF TalliesKept, DecisionsKept, TypeOK
<1>1. CASE UNCHANGED vars
  BY <1>1 DEF vars
<1>2. ASSUME NEW r \in Requests, TooLate(r) \/ Enqueue(r) \/ Record(r)
      PROVE  TalliesKept /\ DecisionsKept
  BY <1>2 DEF TooLate, Enqueue, Record, Idle
<1>3. ASSUME NEW r \in Requests, NEW q \in Asks, ReadRun(r, q)
      PROVE  TalliesKept /\ DecisionsKept
  BY <1>3 DEF ReadRun
<1>4. ASSUME NEW j \in Jobs, Drive(j)
      PROVE  TalliesKept /\ DecisionsKept
  <2>1. UNCHANGED <<policy, acked, rejected, req>>
    BY <1>4 DEF Drive
  <2>2. CASE Load(j) \/ MarkRunning(j) \/ Suspend(j) \/ Finish(j)
    BY <2>1, <2>2 DEF Load, MarkRunning, Suspend, Finish
  <2>3. ASSUME NEW g \in Gates, Park(j, g) \/ Launch(j, g) \/ Result(j, g)
        PROVE  TalliesKept /\ DecisionsKept
    <3>1. PICK s \in StepStatuses : MarkComponentRun(g, s)
      BY <2>3 DEF Park, Launch, Result, StepStatuses
    <3> QED
      BY <2>1, <3>1, StatusKeeps DEF MarkComponentRun
  <2>4. CASE Sweep(j)
    BY <2>1, <2>4, SettledKeeps DEF Sweep, Update
  <2> QED
    BY <1>4, <2>2, <2>3, <2>4 DEF Drive
<1>5. ASSUME NEW j \in Jobs, Fail(j) PROVE TalliesKept /\ DecisionsKept
  BY <1>5 DEF Fail
<1>6. CASE CancelRun \/ JobCancel
  <2>1. CASE CancelRun
    BY <2>1, SweptKeeps DEF CancelRun, Update
  <2>2. CASE JobCancel
    BY <2>2 DEF JobCancel
  <2> QED
    BY <1>6, <2>1, <2>2
<1>7. CASE Reap
  <2>1. UNCHANGED <<policy, acked, rejected, req>>
    BY <1>7 DEF Reap
  <2>2. CASE StuckFind \/ StuckRun \/ ReapFind \/ ReapSteps \/ ReapRun
    BY <2>1, <2>2 DEF StuckFind, StuckRun, ReapFind, ReapSteps, ReapRun
  <2>3. CASE StuckSteps
    BY <2>1, <2>3, SweptKeeps DEF StuckSteps, Update
  <2>4. ASSUME NEW g \in Gates, ReapFail(g) PROVE TalliesKept /\ DecisionsKept
    BY <2>1, <2>4 DEF ReapFail, Update, Rows
  <2>5. CASE ReapSettle
    BY <2>1, <2>5, SettledKeeps DEF ReapSettle, Update
  <2> QED
    BY <1>7, <2>2, <2>3, <2>4, <2>5 DEF Reap
<1>8. ASSUME NEW g \in Gates, Age(g) PROVE TalliesKept /\ DecisionsKept
  BY <1>8 DEF Age
<1> QED
  BY <1>1, <1>2, <1>3, <1>4, <1>5, <1>6, <1>7, <1>8 DEF Next, Serve

\* A request that has read a good tally and is allowed to add to it holds a
\* good one.
LEMMA ReadStepTally ==
  ASSUME TypeOK, TallyInv, NEW r \in Requests, ReadStep(r)
  PROVE  TallyInv'
<1> DEFINE q == req[r].ask
           g == q.gate
           t == step[g].tally
           n == WithApproval(t, q.user, acked[g])
<1>1. /\ q \in Asks /\ g \in Gates /\ q.decision \in {"approve", "reject"}
      /\ q.decision = "approve" => q.user \in Users
  BY RequestShape, AskShape DEF ReadStep, ReadRequest
<1>2. t \in Seq(Entries) /\ GoodRow(g)
  BY <1>1 DEF TypeOK, TallyInv, Rows
<1>3. \A h \in Gates : GoodRow(h)'
  BY DEF ReadStep, TallyInv, GoodRow
<1>4. ASSUME NEW s \in Requests, s # r PROVE GoodRequest(s)'
  <2>1. GoodRequest(s) /\ req'[s] = req[s] /\ UNCHANGED <<policy, acked>>
    BY <1>4 DEF ReadStep, TallyInv, TypeOK
  <2> QED
    BY <2>1 DEF GoodRequest
<1>5. GoodRequest(r)'
  <2>1. CASE req'[r] = Idle
    BY <2>1 DEF GoodRequest, Idle
  <2>2. CASE q.decision = "reject"
    BY <2>2 DEF ReadStep, TypeOK, GoodRequest, Idle
  <2>3. ASSUME req'[r] # Idle, q.decision = "approve"
        PROVE  GoodRequest(r)'
    <3>1. /\ req'[r] = [pc |-> "write", ask |-> q, tally |-> n]
          /\ MayApprove(policy[g], q.user) /\ ~ AlreadyApproved(t, q.user)
      BY <2>3 DEF ReadStep, TypeOK, Tally
    <3>2. /\ DOMAIN n = 1 .. Len(t) + 1 /\ DOMAIN t = 1 .. Len(t) /\ Len(n) = Len(t) + 1
          /\ Len(t) \in Nat
          /\ n[Len(t) + 1] = [by |-> q.user, at |-> acked[g]]
          /\ \A i \in DOMAIN t : i \in DOMAIN n /\ n[i] = t[i]
      <4>1. acked[g] \in SUBSET Users
        BY <1>1 DEF TypeOK
      <4>2. /\ Len(t) \in Nat /\ Len(n) = Len(t) + 1
            /\ DOMAIN t = 1 .. Len(t) /\ DOMAIN n = 1 .. Len(t) + 1
            /\ n[Len(t) + 1] = [by |-> q.user, at |-> acked[g]]
            /\ \A i \in DOMAIN t : n[i] = t[i]
        <5> HIDE DEF q, g, t
        <5> QED
          BY <1>1, <1>2, <2>3, <4>1, WithApprovalEntries
      <4> HIDE DEF n, t
      <4> QED
        BY <4>2
    <3>10. /\ \A i, j \in DOMAIN t : i # j => t[i].by # t[j].by
           /\ \A i \in DOMAIN t : MayApprove(policy[g], t[i].by)
           /\ \A u \in acked[g] : ~ AlreadyApproved(t, u) => \E i \in DOMAIN t : u \notin t[i].at
           /\ \A i \in DOMAIN t : t[i].by \in acked[g]
      BY <1>2 DEF GoodRow, GoodTally
    <3> HIDE DEF n, t
    <3>3. \A i \in DOMAIN n : i \in DOMAIN t \/ i = Len(t) + 1
      BY <3>2
    <3>4. \A i, j \in DOMAIN n : i # j => n[i].by # n[j].by
      BY <3>10, <3>1, <3>2, <3>3 DEF AlreadyApproved
    <3>5. \A i \in DOMAIN n : MayApprove(policy[g], n[i].by)
      BY <3>10, <3>1, <3>2, <3>3
    <3>6. \A u \in acked[g] : ~ AlreadyApproved(n, u) => \E i \in DOMAIN n : u \notin n[i].at
      BY <3>10, <3>2 DEF AlreadyApproved
    <3>7. \A i \in DOMAIN n : n[i].by \in acked[g] \cup {q.user}
      BY <3>10, <3>2, <3>3
    <3>8. Len(n) >= 1 /\ n[Len(n)].by = q.user /\ n[Len(n)].at \subseteq acked[g]
      BY <3>2
    <3>9. acked' = acked /\ policy' = policy
      BY DEF ReadStep
    <3> QED
      BY <3>1, <3>4, <3>5, <3>6, <3>7, <3>8, <3>9 DEF GoodRequest, GoodTally
  <2> QED
    BY <1>1, <2>1, <2>2, <2>3
<1> QED
  BY <1>3, <1>4, <1>5 DEF TallyInv

\* Storing a tally keeps every tally good: in the hands of another request, the
\* new approval is either counted, or newer than that request's own entry.
LEMMA ApproveTally ==
  ASSUME TypeOK, TallyInv, NEW r \in Requests, Approve(r)
  PROVE  TallyInv'
<1> DEFINE w == req[r]
           g == w.ask.gate
<1>1. /\ w \in WriteRequest /\ g \in Gates /\ w.ask.user \in Users /\ w.tally \in Seq(Entries)
      /\ GoodRequest(r) /\ w.pc = "write" /\ w.ask.decision = "approve"
  BY RequestShape, AskShape DEF Approve, Writes, WriteRequest, TallyInv
<1>2. /\ step'[g].tally = w.tally /\ \A h \in Gates \ {g} : step'[h] = step[h]
      /\ acked'[g] = acked[g] \cup {w.ask.user} /\ \A h \in Gates \ {g} : acked'[h] = acked[h]
      /\ policy' = policy
      /\ req'[r].pc # "write" /\ \A s \in Requests \ {r} : req'[s] = req[s]
  BY <1>1 DEF Approve, TypeOK, Rows, Idle
<1>3. ASSUME NEW h \in Gates PROVE GoodRow(h)'
  <2>1. CASE h = g
    <3>1. AlreadyApproved(w.tally, w.ask.user)
      BY <1>1 DEF GoodRequest, AlreadyApproved
    <3>2. \A u \in acked'[g] : ~ AlreadyApproved(w.tally, u) =>
            \E i \in DOMAIN w.tally : u \notin w.tally[i].at
      BY <1>1, <1>2, <3>1 DEF GoodRequest, GoodTally
    <3>3. /\ \A i, j \in DOMAIN w.tally : i # j => w.tally[i].by # w.tally[j].by
          /\ \A i \in DOMAIN w.tally : MayApprove(policy[g], w.tally[i].by)
          /\ \A i \in DOMAIN w.tally : w.tally[i].by \in acked'[g]
      BY <1>1, <1>2 DEF GoodRequest, GoodTally
    <3>4. GoodTally(w.tally, policy[g], acked'[g])
      BY <3>2, <3>3 DEF GoodTally
    <3> QED
      BY <1>2, <2>1, <3>3, <3>4 DEF GoodRow
  <2>2. CASE h # g
    BY <1>2, <2>2 DEF TallyInv, GoodRow
  <2> QED
    BY <2>1, <2>2
<1>4. ASSUME NEW s \in Requests, s # r PROVE GoodRequest(s)'
  <2> DEFINE p == req[s]
  <2>1. req'[s] = p /\ GoodRequest(s)
    BY <1>2, <1>4 DEF TallyInv
  <2>2. CASE ~ (p.pc = "write" /\ p.ask.decision = "approve")
    BY <2>1, <2>2 DEF GoodRequest
  <2>3. ASSUME p.pc = "write", p.ask.decision = "approve" PROVE GoodRequest(s)'
    <3>1. p \in WriteRequest /\ p.ask.gate \in Gates /\ p.tally \in Seq(Entries)
      BY <2>3, RequestShape, AskShape DEF WriteRequest
    <3>2. acked[p.ask.gate] \subseteq acked'[p.ask.gate]
      BY <1>2, <3>1
    <3>3. \A u \in acked'[p.ask.gate] : ~ AlreadyApproved(p.tally, u) =>
            \E i \in DOMAIN p.tally : u \notin p.tally[i].at
      <4> TAKE u \in acked'[p.ask.gate]
      <4>1. CASE u \in acked[p.ask.gate]
        BY <2>1, <2>3, <4>1 DEF GoodRequest, GoodTally
      <4>2. CASE u \notin acked[p.ask.gate]
        <5>1. Len(p.tally) \in DOMAIN p.tally /\ p.tally[Len(p.tally)].at \subseteq acked[p.ask.gate]
          BY <2>1, <2>3, <3>1 DEF GoodRequest
        <5> QED
          BY <4>2, <5>1
      <4> QED
        BY <4>1, <4>2
    <3>4. /\ Len(p.tally) >= 1 /\ p.tally[Len(p.tally)].by = p.ask.user
          /\ p.tally[Len(p.tally)].at \subseteq acked'[p.ask.gate]
          /\ \A i, j \in DOMAIN p.tally : i # j => p.tally[i].by # p.tally[j].by
          /\ \A i \in DOMAIN p.tally : MayApprove(policy[p.ask.gate], p.tally[i].by)
          /\ \A i \in DOMAIN p.tally : p.tally[i].by \in acked'[p.ask.gate] \cup {p.ask.user}
      BY <2>1, <2>3, <3>2 DEF GoodRequest, GoodTally
    <3> QED
      BY <1>2, <2>1, <3>3, <3>4 DEF GoodRequest, GoodTally
  <2> QED
    BY <2>2, <2>3
<1>5. GoodRequest(r)'
  BY <1>2 DEF GoodRequest
<1> QED
  BY <1>3, <1>4, <1>5 DEF TallyInv

LEMMA TallyStep ==
  ASSUME TypeOK, TallyInv, [Next]_vars
  PROVE  TallyInv'
<1>1. CASE \E r \in Requests : ReadStep(r) \/ Approve(r)
  BY <1>1, ReadStepTally, ApproveTally
<1>2. CASE \E r \in Requests : Reject(r)
  BY <1>2, RejectKeepsTallies, KeepTallies
<1>3. CASE ~ \E r \in Requests : ReadStep(r) \/ Approve(r) \/ Reject(r)
  BY <1>3, OthersKeep, KeepTallies
<1> QED
  BY <1>1, <1>2, <1>3

-----------------------------------------------------------------------------
(* Decisions *)

\* A quorum is never lost.
LEMMA QuorumKept ==
  ASSUME TypeOK, TypeOK', NEW g \in Gates, acked[g] \subseteq acked'[g], policy' = policy, Quorum(g)
  PROVE  Quorum(g)'
<1> DEFINE S == {u \in acked[g] : MayApprove(policy[g], u)}
           T == {u \in acked'[g] : MayApprove(policy[g], u)}
<1>1. S \subseteq T /\ T \subseteq Users
  BY DEF TypeOK
<1>2. IsFiniteSet(T)
  BY <1>1, FS_Subset, ApprovalsAssumption
<1>3. Cardinality(S) <= Cardinality(T) /\ Cardinality(S) \in Nat /\ Cardinality(T) \in Nat
  BY <1>1, <1>2, FS_Subset, FS_CardinalityType
<1>4. Cardinality(S) >= approvalsRequired(policy[g]) /\ approvalsRequired(policy[g]) \in Nat
  BY ApprovalsAssumption DEF Quorum, approvalsRequired, TypeOK, ValidPolicy
<1>5. Cardinality(T) >= approvalsRequired(policy[g])
  BY <1>3, <1>4
<1> QED
  BY <1>5 DEF Quorum

\* Its entries are of different people who may approve, so a complete tally is a
\* quorum.
LEMMA QuorumReached ==
  ASSUME TypeOK, TallyInv, NEW r \in Requests, Approve(r), Complete(req[r]),
         NEW g \in Gates, g = req[r].ask.gate
  PROVE  Quorum(g)'
<1> DEFINE w == req[r]
           I == 1 .. Len(w.tally)
           T == {u \in acked'[g] : MayApprove(policy[g], u)}
           f == [i \in I |-> w.tally[i].by]
<1>1. /\ w \in WriteRequest /\ g \in Gates /\ w.ask.user \in Users /\ w.tally \in Seq(Entries)
      /\ GoodRequest(r) /\ w.pc = "write" /\ w.ask.decision = "approve"
  BY RequestShape, AskShape DEF Approve, Writes, WriteRequest, TallyInv
<1>2. acked'[g] = acked[g] \cup {w.ask.user} /\ policy' = policy /\ acked[g] \subseteq Users
  BY <1>1 DEF Approve, TypeOK
<1>3. DOMAIN w.tally = I /\ Len(w.tally) \in Nat
  BY <1>1
<1>4. /\ \A i, j \in I : i # j => w.tally[i].by # w.tally[j].by
      /\ \A i \in I : MayApprove(policy[g], w.tally[i].by)
      /\ \A i \in I : w.tally[i].by \in acked'[g]
  BY <1>1, <1>2, <1>3 DEF GoodRequest, GoodTally
<1>5. f \in Injection(I, T)
  <2>1. f \in [I -> T]
    BY <1>4
  <2>2. \A i, j \in I : f[i] = f[j] => i = j
    BY <1>4
  <2> QED
    BY <2>1, <2>2 DEF Injection, IsInjective
<1>6. IsFiniteSet(T)
  <2>1. T \subseteq Users
    BY <1>1, <1>2
  <2> QED
    BY <2>1, FS_Subset, ApprovalsAssumption
<1>7. Cardinality(I) <= Cardinality(T)
  <2> HIDE DEF f, T, I
  <2> QED
    BY <1>5, <1>6, FS_Injection
<1>8. Cardinality(I) = Len(w.tally)
  <2>1. Cardinality(I) = IF 1 > Len(w.tally) THEN 0 ELSE Len(w.tally) - 1 + 1
    BY <1>3, FS_Interval
  <2> QED
    BY <1>3, <2>1
<1>9. Len(w.tally) >= approvalsRequired(policy[g]) /\ approvalsRequired(policy[g]) \in Nat
  BY <1>1, ApprovalsAssumption DEF Complete, approvalsRequired, TypeOK, ValidPolicy
<1>10. Cardinality(T) \in Nat
  BY <1>6, FS_CardinalityType
<1>11. Cardinality(T) >= approvalsRequired(policy[g])
  <2> HIDE DEF T, I
  <2> QED
    BY <1>3, <1>7, <1>8, <1>9, <1>10
<1>12. policy'[g] = policy[g]
  BY <1>2
<1> QED
  BY <1>11, <1>12 DEF Quorum

\* An attempt holds a step to be decided only when it loaded it as decided.
LEMMA NodesFollow ==
  ASSUME TypeOK, [Next]_vars, NEW j \in Jobs, NEW g \in Gates, job'[j].node[g] \notin Shut
  PROVE  job[j].node[g] \notin Shut \/ step[g].approved
<1> USE DEF TypeOK, Shut
<1>1. CASE UNCHANGED job
  BY <1>1
<1>2. ASSUME NEW i \in Jobs, NEW pc, Leave(i, pc) \/ job' = [job EXCEPT ![i] = Without(pc)]
      PROVE  job[j].node[g] \notin Shut
  BY <1>2 DEF Leave, Without
<1>3. ASSUME NEW i \in Jobs, Drive(i)
      PROVE  job[j].node[g] \notin Shut \/ step[g].approved
  <2>1. CASE Load(i)
    BY <2>1 DEF Load, Loaded
  <2>2. CASE MarkRunning(i)
    BY <2>2 DEF MarkRunning, Goto
  <2>3. ASSUME NEW h \in Gates, Park(i, h) \/ Launch(i, h) \/ Result(i, h)
        PROVE  job[j].node[g] \notin Shut
    BY <2>3 DEF Park, Launch, Result, Becomes
  <2>4. CASE Suspend(i) \/ Finish(i) \/ Sweep(i)
    BY <1>2, <2>4 DEF Suspend, Finish, Sweep, End
  <2> QED
    BY <1>3, <2>1, <2>2, <2>3, <2>4 DEF Drive
<1>4. ASSUME NEW r \in Requests, Serve(r) \/ \E q \in Asks : ReadRun(r, q)
      PROVE  job[j].node[g] \notin Shut
  BY <1>1, <1>2, <1>4
     DEF Serve, ReadRun, ReadStep, Approve, Reject, RejectThen, TooLate, Enqueue, Record
<1>5. CASE CancelRun \/ JobCancel \/ Reap \/ \E h \in Gates : Age(h)
  BY <1>1, <1>2, <1>5 DEF CancelRun, JobCancel, Reap, Age
<1>6. ASSUME NEW i \in Jobs, Fail(i) PROVE job[j].node[g] \notin Shut
  BY <1>2, <1>6 DEF Fail
<1> QED
  BY <1>1, <1>3, <1>4, <1>5, <1>6 DEF Next, vars

\* A step that nobody holds to be decided does not start.
LEMMA RunsFollow ==
  ASSUME TypeOK, [Next]_vars, NEW g \in Gates, step'[g].status \in {"running", "succeeded"}
  PROVE  \/ step[g].status \in {"running", "succeeded"}
         \/ \E j \in Jobs : job[j].node[g] \notin Shut
<1> USE DEF TypeOK
<1>1. CASE step'[g] = step[g]
  BY <1>1
<1>2. CASE step'[g].status \in {"awaiting_approval", "pending", "failed", "skipped"}
  BY <1>2
<1>3. ASSUME NEW r \in Requests, Serve(r) \/ \E q \in Asks : ReadRun(r, q)
      PROVE  step'[g].status \in {step[g].status, "pending", "failed"}
  <2>1. CASE Approve(r)
    <3>1. req[r].ask.gate \in Gates
      BY <2>1, RequestShape, AskShape DEF Approve, Writes, WriteRequest
    <3> QED
      BY <2>1, <3>1 DEF Approve, Rows
  <2>2. CASE Reject(r)
    <3>1. req[r].ask.gate \in Gates
      BY <2>2, RequestShape, AskShape DEF Reject, RejectThen, Writes, WriteRequest
    <3> QED
      BY <2>2, <3>1 DEF Reject, RejectThen, Rows
  <2> QED
    BY <1>3, <2>1, <2>2 DEF Serve, ReadRun, ReadStep, TooLate, Enqueue, Record
<1>4. ASSUME NEW i \in Jobs, Drive(i)
      PROVE  \/ step[g].status \in {"running", "succeeded"}
             \/ \E j \in Jobs : job[j].node[g] \notin Shut
  <2>1. CASE Load(i) \/ MarkRunning(i) \/ Suspend(i) \/ Finish(i)
    BY <1>1, <2>1 DEF Load, MarkRunning, Suspend, Finish
  <2>2. ASSUME NEW h \in Gates, Park(i, h)
        PROVE  step'[g].status \in {step[g].status, "awaiting_approval"}
    BY <2>2 DEF Park, MarkComponentRun, Rows
  <2>3. ASSUME NEW h \in Gates, Launch(i, h) \/ Result(i, h)
        PROVE  step'[g] = step[g] \/ job[i].node[g] \notin Shut
    BY <2>3 DEF Launch, Result, MarkComponentRun, Rows, Shut
  <2>4. CASE Sweep(i)
    BY <2>4 DEF Sweep, Update, Settled, Rows
  <2> QED
    BY <1>1, <1>2, <1>4, <2>1, <2>2, <2>3, <2>4 DEF Drive
<1>5. CASE CancelRun \/ StuckSteps
  BY <1>5 DEF CancelRun, StuckSteps, Update, Rows
<1>6. ASSUME NEW h \in Gates, ReapFail(h) PROVE step'[g].status \in {step[g].status, "failed"}
  BY <1>6 DEF ReapFail, Update, Rows
<1>7. CASE ReapSettle
  BY <1>7 DEF ReapSettle, Update, Settled, Rows
<1>8. CASE \/ JobCancel \/ StuckFind \/ StuckRun \/ ReapFind \/ ReapSteps \/ ReapRun
           \/ \E h \in Gates : Age(h)
  BY <1>1, <1>8 DEF JobCancel, StuckFind, StuckRun, ReapFind, ReapSteps, ReapRun, Age
<1>9. ASSUME NEW i \in Jobs, Fail(i) PROVE step' = step
  BY <1>9 DEF Fail
<1>10. CASE UNCHANGED vars
  BY <1>1, <1>10 DEF vars
<1> QED
  BY <1>1, <1>2, <1>3, <1>4, <1>5, <1>6, <1>7, <1>8, <1>9, <1>10 DEF Next, Reap

\* A step that is decided on is approved by a quorum or rejected.
LEMMA ApprovedFollows ==
  ASSUME TypeOK, TallyInv, [Next]_vars, NEW g \in Gates, TypeOK'
  PROVE  /\ step[g].approved => step'[g].approved
         /\ rejected \subseteq rejected'
         /\ policy' = policy /\ acked[g] \subseteq acked'[g]
         /\ step'[g].approved /\ g \notin rejected' => step[g].approved \/ Quorum(g)'
<1> USE DEF TypeOK
<1>1. ASSUME NEW r \in Requests, Approve(r)
      PROVE  /\ step[g].approved => step'[g].approved
             /\ policy' = policy /\ acked[g] \subseteq acked'[g] /\ rejected' = rejected
             /\ step'[g].approved => step[g].approved \/ Quorum(g)'
  <2>1. req[r].ask.gate \in Gates /\ req[r].ask.user \in Users
    BY <1>1, RequestShape, AskShape DEF Approve, Writes, WriteRequest
  <2>2. CASE g = req[r].ask.gate /\ Complete(req[r])
    <3>1. Quorum(g)'
      BY <1>1, <2>2, QuorumReached
    <3> QED
      BY <1>1, <2>1, <2>2, <3>1 DEF Approve, Rows
  <2>3. CASE ~ (g = req[r].ask.gate /\ Complete(req[r]))
    BY <1>1, <2>1, <2>3 DEF Approve, Rows
  <2> QED
    BY <2>2, <2>3
<1>2. ASSUME NEW r \in Requests, Reject(r)
      PROVE  /\ step[g].approved => step'[g].approved
             /\ policy' = policy /\ acked' = acked /\ rejected \subseteq rejected'
             /\ step'[g].approved /\ g \notin rejected' => step[g].approved
  <2>1. req[r].ask.gate \in Gates
    BY <1>2, RequestShape, AskShape DEF Reject, RejectThen, Writes, WriteRequest
  <2> QED
    BY <1>2, <2>1 DEF Reject, RejectThen, Rows
<1>3. ASSUME NEW r \in Requests, ReadStep(r)
      PROVE  UNCHANGED <<step, policy, acked, rejected>>
  BY <1>3 DEF ReadStep
<1>4. CASE ~ \E r \in Requests : ReadStep(r) \/ Approve(r) \/ Reject(r)
  BY <1>4, OthersKeep DEF TalliesKept, DecisionsKept
<1> QED
  BY <1>1, <1>2, <1>3, <1>4

LEMMA DecidedStep ==
  ASSUME IInv, [Next]_vars, TypeOK'
  PROVE  \A g \in Gates : Decided(g)'
<1> SUFFICES ASSUME NEW g \in Gates PROVE Decided(g)'
  OBVIOUS
<1>1. TypeOK /\ TallyInv /\ Decided(g)
  BY DEF IInv
<1>2. step'[g].status \in {"running", "succeeded"} => step'[g].approved
  BY <1>1, RunsFollow, ApprovedFollows DEF Decided
<1>3. \A j \in Jobs : job'[j].node[g] \notin Shut => step'[g].approved
  BY <1>1, NodesFollow, ApprovedFollows DEF Decided
<1>4. step'[g].approved /\ g \notin rejected' => Quorum(g)'
  BY <1>1, ApprovedFollows, QuorumKept DEF Decided
<1> QED
  BY <1>2, <1>3, <1>4 DEF Decided

-----------------------------------------------------------------------------
(* The theorems *)

LEMMA InvInit == Init => IInv
<1> SUFFICES ASSUME Init PROVE IInv
  OBVIOUS
<1>1. TypeOK
  BY TypeInit
<1>2. TallyInv
  BY DEF Init, Idle, TallyInv, GoodRequest, GoodRow, GoodTally
<1>3. \A g \in Gates : Decided(g)
  BY DEF Init, Decided, Shut, Without
<1> QED
  BY <1>1, <1>2, <1>3 DEF IInv

LEMMA InvStep == IInv /\ [Next]_vars => IInv'
BY TypeStep, TallyStep, DecidedStep DEF IInv

LEMMA Invariant == Spec => []IInv
BY InvInit, InvStep, PTL DEF Spec

\* A step that nobody rejected runs only when as many different people as its
\* policy requires, all allowed to, have approved it (ApproveComponentRun), and
\* whatever attempts load, park and run it meanwhile (Work).
THEOREM ApprovalsOpenByQuorum == Spec => []OpensOnlyByQuorum
<1>1. IInv => OpensOnlyByQuorum
  BY DEF IInv, OpensOnlyByQuorum, Decided
<1> QED
  BY <1>1, Invariant, PTL

\* A stored approval can only be lost to a request that had read the tally
\* before it was stored (ApproveComponentRun's read and conditional update).
THEOREM ApprovalsLoseOnlyOverlapping == Spec => []OnlyOverlappingApprovalsAreLost
<1>1. IInv => OnlyOverlappingApprovalsAreLost
  BY DEF IInv, TallyInv, OnlyOverlappingApprovalsAreLost, GoodRow, GoodTally
<1> QED
  BY <1>1, Invariant, PTL

\* A step that was rejected, cancelled, timed out or skipped, or has failed, keeps
\* its row: the status predicates hold off every decision, cancel and reaper still
\* on its way, and only an attempt that holds the step open writes it again.
THEOREM ApprovalsDecideOnce == Spec => DecisionIsFinal
<1> DEFINE Closed == {"failed", "skipped"}
           Held(g) == \E j \in Jobs : Holds(j, g) /\ job'[j] # job[j]
           Final == \A g \in Gates :
                      step[g].status \in Closed /\ step'[g] # step[g] => Held(g)
<1>1. TypeOK /\ [Next]_vars => Final
  <2> SUFFICES ASSUME TypeOK, [Next]_vars, NEW g \in Gates, step[g].status \in Closed
               PROVE  step'[g] = step[g] \/ Held(g)
    OBVIOUS
  <2> USE DEF TypeOK
  <2>1. CASE UNCHANGED vars
    BY <2>1 DEF vars
  <2>2. ASSUME NEW r \in Requests, Serve(r) \/ \E q \in Asks : ReadRun(r, q)
        PROVE  step'[g] = step[g]
    <3>1. CASE Approve(r) \/ Reject(r)
      <4>1. req[r].ask.gate \in Gates /\ req[r].ask.gate # g
        BY <3>1, RequestShape, AskShape
           DEF Approve, Reject, RejectThen, Writes, StillParked, WriteRequest
      <4> QED
        BY <3>1, <4>1 DEF Approve, Reject, RejectThen
    <3> QED
      BY <2>2, <3>1 DEF Serve, ReadRun, ReadStep, TooLate, Enqueue, Record
  <2>3. ASSUME NEW j \in Jobs, Drive(j)
        PROVE  step'[g] = step[g] \/ Held(g)
    <3>1. CASE Load(j) \/ MarkRunning(j) \/ Suspend(j) \/ Finish(j)
      BY <3>1 DEF Load, MarkRunning, Suspend, Finish
    <3>2. ASSUME NEW h \in Gates, Park(j, h) \/ Launch(j, h) \/ Result(j, h)
          PROVE  step'[g] = step[g] \/ Held(g)
      <4>1. CASE h # g
        BY <3>2, <4>1 DEF Park, Launch, Result, MarkComponentRun
      <4>2. CASE h = g
        <5>1. Holds(j, g)
          BY <3>2, <4>2 DEF Park, Launch, Result, Holds
        <5>2. job'[j] # job[j]
          <6>1. job'[j].node[g] # job[j].node[g]
            BY <3>2, <4>2 DEF Park, Launch, Result, Becomes
          <6> QED
            BY <6>1
        <5> QED
          BY <5>1, <5>2
      <4> QED
        BY <4>1, <4>2
    <3>3. CASE Sweep(j)
      BY <3>3 DEF Sweep, Update, Settled, InFlight
    <3> QED
      BY <2>3, <3>1, <3>2, <3>3 DEF Drive
  <2>4. ASSUME NEW j \in Jobs, Fail(j) PROVE step'[g] = step[g]
    BY <2>4 DEF Fail
  <2>5. CASE CancelRun
    BY <2>5 DEF CancelRun, Update, InFlight
  <2>6. CASE JobCancel \/ \E h \in Gates : Age(h)
    BY <2>6 DEF JobCancel, Age
  <2>7. CASE Reap
    <3>1. CASE StuckFind \/ StuckRun \/ ReapFind \/ ReapSteps \/ ReapRun
      BY <3>1 DEF StuckFind, StuckRun, ReapFind, ReapSteps, ReapRun
    <3>2. CASE StuckSteps
      BY <3>2 DEF StuckSteps, Update
    <3>3. ASSUME NEW h \in Gates, ReapFail(h) PROVE step'[g] = step[g]
      BY <3>3 DEF ReapFail, Update, Rows
    <3>4. CASE ReapSettle
      BY <3>4 DEF ReapSettle, Update, Settled, InFlight
    <3> QED
      BY <2>7, <3>1, <3>2, <3>3, <3>4 DEF Reap
  <2> QED
    BY <2>1, <2>2, <2>3, <2>4, <2>5, <2>6, <2>7 DEF Next
<1>2. TypeOK /\ [Next]_vars => [Final]_vars
  BY <1>1
<1> QED
  BY <1>2, ApprovalsTypeCorrect, PTL DEF Spec, DecisionIsFinal

=============================================================================
