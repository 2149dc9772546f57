------------------------- MODULE RunAdmissionProofs -------------------------
(***************************************************************************)
(* Theorems about RunAdmission, for any number of starts and bounds.       *)
(***************************************************************************)
EXTENDS RunAdmission, TLAPS

\* A start has no run before it creates it; and every run a start saw when it
\* passed the gate was settled, and stays so.
GateInv ==
  \A c \in Starters :
    /\ pc[c] \in {"idle", "neutral", "refused", "create"} => row[c] = "none"
    /\ pc[c] \notin {"idle", "neutral", "refused"} => \A r \in saw[c] : row[r] \in Terminal

Agrees(outcome, r) ==
  \/ outcome = "success" /\ row[r] = "succeeded"
  \/ outcome = "failure" /\ row[r] \in {"failed", "partial"}

\* What a caller of CompleteTriggerCheck is about to post, and what it posted,
\* is the outcome of the run; and only a refused start posts "neutral".
CheckInv ==
  /\ \A r \in Starters : check[r] \in {"success", "failure"} => Agrees(check[r], r)
  /\ \A r \in Starters, k \in Callers :
       report[<<r, k>>] \in {"success", "failure"} => Agrees(report[<<r, k>>], r)
  /\ \A r \in Starters : check[r] = "neutral" => pc[r] = "refused"

IInv == TypeOK /\ GateInv /\ CheckInv

\* What a start, a worker or a cancel may do to a row.
RowsMove(c) ==
  \/ row' = row
  \/ \E s \in InFlight \cup Terminal : MarkRun(c, s)
  \/ row[c] = "none" /\ row' = [row EXCEPT ![c] = "pending"]

LEMMA TypeInit == Init => IInv
BY RunAdmissionAssumption DEF Init, IInv, TypeOK, GateInv, CheckInv

LEMMA TypeStarter ==
  ASSUME TypeOK, NEW c \in Starters, CheckGate(c) \/ Starter(c)
  PROVE  TypeOK'
<1> USE RunAdmissionAssumption DEF TypeOK, Goto, errorCounts, checks
<1>1. CASE CheckGate(c)
  BY <1>1 DEF CheckGate
<1>2. CASE CreateRun(c)
  BY <1>2 DEF CreateRun, InFlight
<1>3. CASE Annotate(c)
  BY <1>3 DEF Annotate
<1>4. CASE Insert(c)
  BY <1>4 DEF Insert
<1>5. CASE InsertFails(c)
  BY <1>5 DEF InsertFails, AfterInsertError
<1>6. CASE MarkFailed(c)
  <2>1. row' \in [Starters -> InFlight \cup Terminal \cup {"none"}]
    BY <1>6 DEF MarkFailed, MarkRun, Terminal
  <2>2. report' \in [Starters \X Callers -> {"idle", "load", "success", "failure"}]
    BY <1>6 DEF MarkFailed, Report
  <2>3. dbErrors' \in 0 .. MaxDBErrors
    BY <1>6 DEF MarkFailed, DBFails
  <2>4. check' = check /\ checkID' = checkID
    BY <1>6 DEF MarkFailed, Report
  <2> QED
    BY <1>6, <2>1, <2>2, <2>3, <2>4 DEF MarkFailed
<1>7. CASE SetRunJob(c)
  BY <1>7 DEF SetRunJob
<1>8. CASE WriteFails(c)
  BY <1>8 DEF WriteFails, DBFails
<1>9. CASE PostRefused(c)
  BY <1>9 DEF PostRefused, HubFails
<1>10. CASE OpenCheck(c)
  BY <1>10 DEF OpenCheck, HubFails
<1> QED
  BY <1>1, <1>2, <1>3, <1>4, <1>5, <1>6, <1>7, <1>8, <1>9, <1>10 DEF Starter

LEMMA TypeRun ==
  ASSUME TypeOK, NEW r \in Starters,
         Worker(r) \/ Resume(r) \/ CancelRun(r) \/ Canceller(r) \/ Reporter(r)
  PROVE  TypeOK'
<1> USE RunAdmissionAssumption DEF TypeOK, errorCounts, checks
<1>1. CASE Start(r)
  BY <1>1 DEF Start, MarkRun, InFlight
<1>2. CASE Finish(r)
  <2>1. row' \in [Starters -> InFlight \cup Terminal \cup {"none"}]
    BY <1>2 DEF Finish, MarkRun, Outcomes, InFlight
  <2>2. report' \in [Starters \X Callers -> {"idle", "load", "success", "failure"}]
    BY <1>2 DEF Finish, Report
  <2> QED
    BY <1>2, <2>1, <2>2 DEF Finish, Report
<1>3. CASE Resume(r)
  BY <1>3 DEF Resume
<1>4. CASE CancelRun(r)
  BY <1>4 DEF CancelRun, Terminal
<1>5. CASE JobCancel(r)
  BY <1>5 DEF JobCancel
<1>6. CASE CancelReports(r)
  BY <1>6 DEF CancelReports, Report
<1>7. ASSUME NEW k \in Callers, LoadCheck(r, k) PROVE TypeOK'
  <2>1. report' \in [Starters \X Callers -> {"idle", "load", "success", "failure"}]
    BY <1>7 DEF LoadCheck
  <2>2. dbErrors' \in 0 .. MaxDBErrors
    BY <1>7 DEF LoadCheck, DBFails
  <2> QED
    BY <1>7, <2>1, <2>2 DEF LoadCheck
<1>8. ASSUME NEW k \in Callers, PostCheck(r, k) PROVE TypeOK'
  BY <1>8 DEF PostCheck, HubFails
<1> QED
  BY <1>1, <1>2, <1>3, <1>4, <1>5, <1>6, <1>7, <1>8 DEF Worker, Canceller, Reporter

LEMMA TypeStep == TypeOK /\ [Next]_vars => TypeOK'
<1>1. TypeOK /\ UNCHANGED vars => TypeOK'
  BY DEF TypeOK, vars
<1> QED
  BY <1>1, TypeStarter, TypeRun DEF Next

\* Type correctness of run admission.
THEOREM RunAdmissionTypeCorrect == Spec => []TypeOK
BY TypeInit, TypeStep, PTL DEF Spec, IInv

\* Settled rows are frozen.
LEMMA SettledStays ==
  ASSUME TypeOK, NEW c \in Starters, RowsMove(c)
  PROVE  /\ \A r \in Starters : row[r] \in Terminal => row'[r] = row[r]
         /\ \A r \in Starters \ {c} : row'[r] = row[r]
BY DEF RowsMove, MarkRun, TypeOK, InFlight, Terminal

LEMMA StarterFrame ==
  ASSUME TypeOK, GateInv, NEW c \in Starters, Starter(c)
  PROVE  /\ RowsMove(c) /\ saw' = saw
         /\ \A d \in Starters \ {c} : pc'[d] = pc[d]
         /\ pc[c] \notin {"idle", "refused"} /\ pc'[c] \notin {"idle", "neutral", "create"}
         /\ pc[c] = "neutral" <=> pc'[c] = "refused"
         /\ pc[c] = "neutral" => row' = row
<1>1. /\ saw' = saw /\ \A d \in Starters \ {c} : pc'[d] = pc[d]
      /\ pc[c] \notin {"idle", "refused"} /\ pc'[c] \notin {"idle", "neutral", "create"}
      /\ pc[c] = "neutral" <=> pc'[c] = "refused"
  BY DEF Starter, CreateRun, Annotate, Insert, InsertFails, MarkFailed, SetRunJob, WriteFails,
         PostRefused, OpenCheck, Goto, TypeOK, AfterInsertError
<1>2. CASE CreateRun(c)
  BY <1>1, <1>2 DEF CreateRun, RowsMove, GateInv
<1>3. CASE MarkFailed(c)
  BY <1>1, <1>3 DEF MarkFailed, RowsMove, Terminal
<1>4. CASE ~ CreateRun(c) /\ ~ MarkFailed(c)
  BY <1>1, <1>4 DEF Starter, Annotate, Insert, InsertFails, SetRunJob, WriteFails, PostRefused,
                    OpenCheck, RowsMove
<1> QED
  BY <1>2, <1>3, <1>4

LEMMA RunFrame ==
  ASSUME TypeOK, NEW r \in Starters,
         Worker(r) \/ Resume(r) \/ CancelRun(r) \/ Canceller(r) \/ Reporter(r)
  PROVE  RowsMove(r) /\ saw' = saw /\ pc' = pc /\ (row[r] = "none" => row'[r] = "none")
<1> USE DEF RowsMove
<1>1. CASE Start(r)
  BY <1>1 DEF Start, MarkRun, TypeOK, InFlight
<1>2. CASE Finish(r)
  BY <1>2 DEF Finish, Outcomes, MarkRun, TypeOK, InFlight
<1>3. CASE CancelRun(r)
  BY <1>3 DEF CancelRun, MarkRun, Terminal, TypeOK, InFlight
<1>4. CASE Resume(r) \/ Canceller(r) \/ Reporter(r)
  BY <1>4 DEF Resume, Canceller, JobCancel, CancelReports, Reporter, LoadCheck, PostCheck
<1> QED
  BY <1>1, <1>2, <1>3, <1>4 DEF Worker

LEMMA GateStep ==
  ASSUME TypeOK, GateInv, [Next]_vars
  PROVE  GateInv'
<1>1. CASE UNCHANGED vars
  BY <1>1 DEF vars, GateInv
<1>2. ASSUME NEW c \in Starters, CheckGate(c) PROVE GateInv'
  <2>1. /\ row' = row /\ \A d \in Starters \ {c} : pc'[d] = pc[d] /\ saw'[d] = saw[d]
        /\ row[c] = "none"
    BY <1>2 DEF CheckGate, Goto, TypeOK, GateInv
  <2>2. pc'[c] \notin {"neutral", "refused"} => \A r \in saw'[c] : row[r] \in Terminal
    BY <1>2 DEF CheckGate, Goto, TypeOK, GateStatuses, InFlight
  <2>3. pc'[c] # "idle"
    BY <1>2 DEF CheckGate, Goto, TypeOK
  <2> QED
    BY <2>1, <2>2, <2>3 DEF GateInv
<1>3. ASSUME NEW c \in Starters, Starter(c) PROVE GateInv'
  <2>1. \A d \in Starters : \A r \in saw[d] : r \in Starters
    BY DEF TypeOK
  <2> QED
    BY <1>3, <2>1, StarterFrame, SettledStays DEF GateInv
<1>4. ASSUME NEW r \in Starters,
             Worker(r) \/ Resume(r) \/ CancelRun(r) \/ Canceller(r) \/ Reporter(r)
      PROVE  GateInv'
  <2>1. \A d \in Starters : \A q \in saw[d] : q \in Starters
    BY DEF TypeOK
  <2> QED
    BY <1>4, <2>1, RunFrame, SettledStays DEF GateInv
<1> QED
  BY <1>1, <1>2, <1>3, <1>4 DEF Next

\* The callers of CompleteTriggerCheck are told apart from run to run.
LEMMA Reported ==
  ASSUME TypeOK, NEW r \in Starters, NEW k \in Callers, Report(r, k),
         NEW q \in Starters, NEW j \in Callers, report'[<<q, j>>] # "load"
  PROVE  report'[<<q, j>>] = report[<<q, j>>]
BY DEF Report, TypeOK

LEMMA CheckFrame ==
  ASSUME TypeOK, CheckInv, NEW c \in Starters, RowsMove(c),
         \A r \in Starters : check'[r] \in {"success", "failure", "neutral"} => check'[r] = check[r],
         \A r \in Starters, k \in Callers :
           report'[<<r, k>>] \in {"success", "failure"} => report'[<<r, k>>] = report[<<r, k>>],
         \A r \in Starters : pc[r] = "refused" => pc'[r] = "refused"
  PROVE  CheckInv'
<1>1. \A r \in Starters, outcome \in {"success", "failure"} :
        Agrees(outcome, r) => Agrees(outcome, r)'
  BY SettledStays DEF Agrees, Terminal
<1> QED
  BY <1>1 DEF CheckInv

LEMMA CheckStarter ==
  ASSUME TypeOK, GateInv, CheckInv, NEW c \in Starters, Starter(c)
  PROVE  CheckInv'
<1>1. RowsMove(c) /\ \A r \in Starters : pc[r] = "refused" => pc'[r] = "refused"
  BY StarterFrame
<1>2. CASE PostRefused(c)
  <2>1. row' = row /\ report' = report /\ pc'[c] = "refused"
    BY <1>2 DEF PostRefused, Goto, TypeOK
  <2>2. \A r \in Starters : check'[r] \in {"success", "failure"} => check'[r] = check[r]
    BY <1>2 DEF PostRefused, TypeOK
  <2>3. \A r \in Starters \ {c} : check'[r] = check[r]
    BY <1>2 DEF PostRefused, TypeOK
  <2> QED
    BY <1>1, <2>1, <2>2, <2>3 DEF CheckInv, Agrees
<1>3. CASE OpenCheck(c)
  <2>1. \A r \in Starters : check'[r] # "open" => check'[r] = check[r]
    BY <1>3 DEF OpenCheck, TypeOK
  <2>2. report' = report
    BY <1>3 DEF OpenCheck
  <2> QED
    BY <1>1, <2>1, <2>2, CheckFrame
<1>4. CASE MarkFailed(c)
  <2>1. check' = check /\ Report(c, "start")
    BY <1>4 DEF MarkFailed, Report
  <2>2. \A r \in Starters, k \in Callers :
          report'[<<r, k>>] # "load" => report'[<<r, k>>] = report[<<r, k>>]
    BY <2>1, Reported DEF Callers
  <2> QED
    BY <1>1, <2>1, <2>2, CheckFrame
<1>5. CASE ~ PostRefused(c) /\ ~ OpenCheck(c) /\ ~ MarkFailed(c)
  <2>1. check' = check /\ report' = report
    BY <1>5 DEF Starter, CreateRun, Annotate, Insert, InsertFails, SetRunJob, WriteFails, checks
  <2> QED
    BY <1>1, <2>1, CheckFrame
<1> QED
  BY <1>2, <1>3, <1>4, <1>5

LEMMA CheckRun ==
  ASSUME TypeOK, CheckInv, NEW r \in Starters,
         Worker(r) \/ Resume(r) \/ CancelRun(r) \/ Canceller(r) \/ Reporter(r)
  PROVE  CheckInv'
<1>1. RowsMove(r) /\ pc' = pc
  BY RunFrame
<1>2. CASE Finish(r) \/ CancelReports(r)
  <2>1. PICK k \in Callers : Report(r, k)
    BY <1>2 DEF Finish, CancelReports, Callers
  <2>2. check' = check
    BY <2>1 DEF Report
  <2>3. \A q \in Starters, j \in Callers :
          report'[<<q, j>>] # "load" => report'[<<q, j>>] = report[<<q, j>>]
    BY <2>1, Reported
  <2> QED
    BY <1>1, <2>2, <2>3, CheckFrame
<1>3. ASSUME NEW k \in Callers, LoadCheck(r, k) PROVE CheckInv'
  <2>1. row' = row /\ check' = check
    BY <1>3 DEF LoadCheck
  <2>2. \A q \in Starters, j \in Callers :
          <<q, j>> # <<r, k>> => report'[<<q, j>>] = report[<<q, j>>]
    BY <1>3 DEF LoadCheck, TypeOK
  <2>3. report'[<<r, k>>] \in {"success", "failure"} => Agrees(report'[<<r, k>>], r)
    BY <1>3 DEF LoadCheck, TypeOK, Reportable, Terminal, Agrees
  <2> QED
    BY <1>1, <2>1, <2>2, <2>3 DEF CheckInv, Agrees
<1>4. ASSUME NEW k \in Callers, PostCheck(r, k) PROVE CheckInv'
  <2>1. row' = row
    BY <1>4 DEF PostCheck
  <2>2. \A q \in Starters, j \in Callers :
          report'[<<q, j>>] # "idle" => report'[<<q, j>>] = report[<<q, j>>]
    BY <1>4 DEF PostCheck, TypeOK
  <2>3. \A q \in Starters :
          check'[q] = check[q] \/ (q = r /\ check'[q] = report[<<r, k>>])
    BY <1>4 DEF PostCheck, TypeOK
  <2>4. report[<<r, k>>] \in {"success", "failure"}
    BY <1>4 DEF PostCheck
  <2> QED
    BY <1>1, <2>1, <2>2, <2>3, <2>4 DEF CheckInv, Agrees
<1>5. CASE Start(r) \/ Resume(r) \/ CancelRun(r) \/ JobCancel(r)
  <2>1. check' = check /\ report' = report
    BY <1>5 DEF Start, Resume, CancelRun, JobCancel, checks
  <2> QED
    BY <1>1, <2>1, CheckFrame
<1> QED
  BY <1>2, <1>3, <1>4, <1>5 DEF Worker, Canceller, Reporter

LEMMA CheckStep ==
  ASSUME TypeOK, GateInv, CheckInv, [Next]_vars
  PROVE  CheckInv'
<1>1. CASE UNCHANGED vars
  BY <1>1 DEF vars, CheckInv, Agrees
<1>2. ASSUME NEW c \in Starters, CheckGate(c) PROVE CheckInv'
  <2>1. row' = row /\ check' = check /\ report' = report
    BY <1>2 DEF CheckGate, checks
  <2>2. \A r \in Starters : pc[r] = "refused" => pc'[r] = "refused"
    BY <1>2 DEF CheckGate, Goto, TypeOK
  <2> QED
    BY <2>1, <2>2 DEF CheckInv, Agrees
<1> QED
  BY <1>1, <1>2, CheckStarter, CheckRun DEF Next

LEMMA Invariant == Spec => []IInv
<1>1. IInv /\ [Next]_vars => IInv'
  BY TypeStep, GateStep, CheckStep DEF IInv
<1> QED
  BY <1>1, TypeInit, PTL DEF Spec

\* Two runs are in flight together only when each start passed the gate before
\* the other one's run existed (assertNoRunInFlight, then createRun).
THEOREM RunAdmissionCollisions == Spec => []OnlyOverlappingStartsCollide
<1>1. IInv => OnlyOverlappingStartsCollide
  <2> SUFFICES ASSUME IInv, NEW a \in Starters, NEW b \in Starters,
                      row[a] \in InFlight, row[b] \in InFlight
               PROVE  a \notin saw[b]
    BY DEF OnlyOverlappingStartsCollide
  <2>1. pc[b] \notin {"idle", "neutral", "refused"}
    BY DEF IInv, GateInv, InFlight
  <2>2. row[a] \notin Terminal
    BY DEF InFlight, Terminal
  <2> QED
    BY <2>1, <2>2 DEF IInv, GateInv
<1> QED
  BY <1>1, Invariant, PTL

\* However the worker, a cancel and a failed start interleave in
\* CompleteTriggerCheck, a completed check run has the outcome of the run.
THEOREM RunAdmissionChecksAgree == Spec => []CheckAgrees
<1>1. IInv => CheckAgrees
  BY DEF IInv, GateInv, CheckInv, Agrees, CheckAgrees
<1> QED
  BY <1>1, Invariant, PTL

=============================================================================
