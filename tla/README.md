# Spacefleet, specified in TLA+

Spacefleet deploys applications to Kubernetes clusters. An application has a
*workflow*: a graph of components (Helm charts, manifests, OpenTofu modules)
that a *run* executes, step by step, as Tekton TaskRuns on a runner cluster. API
servers and workers are separate processes; they share a Postgres database and
the River job queue that lives in it.

This directory holds TLA+ modules for the part of that system where the order of
steps matters, the TLC configurations that check them, and TLAPS proofs. Paths
below are relative to the repository's root (`lib/...`); `PROJECT.json` gives the
lines each definition translates.

Checking it, in this directory:

    tlc -config MCScheduler.cfg MCScheduler
    tlapm SchedulerProofs.tla

and so on for the other `MC*.cfg` and `*Proofs.tla` files.

## 1. Inventory

### Components, their state and operations

| component | state | operations |
|---|---|---|
| DAG scheduler, `lib/workflows/scheduler.go` | in memory, per attempt: results, parked and completed nodes, goroutines, semaphore, done channel | sweep, launch, settle, park, drain on cancellation |
| Run executor, `lib/workflows/worker.go` | the rows it loaded, "a retryable failure happened" | `Work`, `runComponent`, `onState` |
| TaskRun execution, `lib/tekton/runexec.go` | TaskRuns on the cluster, their name in the step's row | `Execute` (re-attach, recover by label, submit, await) |
| Run and step rows, `lib/workflows/runs.go` | `workflow_runs`, `component_runs` | `createRun`, `MarkRun`, `MarkComponentRun`, `SetRunJob`, `SettleStuckComponentRuns`, `ApproveComponentRun` |
| Cancel and reapers, `recovery.go`, `approvals.go` | the same rows | `CancelRun`, `ReapStuckRuns`, `ReapExpiredApprovals` |
| Run handlers, `lib/api/runs.go`, `scoped_runs.go`, `state_ops.go` | none of their own | start, cancel, approve, reject: several statements each, no transaction around them |
| Background starts and check runs, `triggers.go`, `drift.go` | the check run of a pull request on GitHub, its id in the run's row | start a run for a webhook or a drift check, open and complete the check run |
| Approval gates, `approvals.go`, `ApproveComponentRun` | a step's tally of approvals, its policy in the run's snapshot | approve (N of M), reject, time out |
| Job queue, `lib/queue` over River | River's job rows | `Insert`, `JobLive`, `JobCancel`, retry and rescue |
| Managed OpenTofu state, `lib/tofustate` behind `lib/api/tofustate.go` | one row per workspace (lock, current version, serial, lineage) and append-only versions | read, lock, unlock, write, with a token per step |
| Workflow expansion, `stages.go`, `runs.go`, `scoped.go`, `stateops.go`, `runstages.go` | the graph snapshot of a run | expand stages and plan/apply units, take one component out, derive the stage board |
| Workflow editing, moves and the state guard, `service.go`, `move.go`, `stateguard.go`, `lib/variables` | components, variables, state rows, recorded inventories | save, move, delete state after a check, set a variable |
| Members, invitations, `lib/organizations`, `lib/invitations` | membership and invitation rows | change roles, remove, invite, accept |
| Tekton installation, `lib/api/tekton.go`, `lib/clusters/tekton.go`, `lib/tekton/install*.go`, `detect.go` | a cluster's installation row, the objects on the cluster | enable, upgrade, uninstall, disable, detect and reconcile, the install job |
| Notifications, policies | delivery jobs, policy rules | deliver, evaluate |
| Planning, scripts, Kubernetes relays, auth, UI, generated code | – | text, I/O, presentation |

### How they interact

A start (user, webhook or drift scheduler) checks that no run of the application
is in flight, creates the run and its steps in a transaction, annotates it,
inserts a River job and records the job's id, each in a statement of its own. A
worker fetches the job, loads the rows once, and drives the graph through
`schedule()`; each step's goroutine writes its own row and talks to the cluster.
The attempt ends by settling the run, parking it for an approval, or returning
an error so that River retries. Meanwhile handlers approve, reject and cancel,
and a reaper in every worker settles runs whose job is gone and gates whose time
is up. While a step runs, `tofu` inside its TaskRun calls back to the state
endpoints with the step's token.

### What is hard

* Everything is a sequence of single statements: between any two of them another
  process can act, a call can fail, or the process can die.
* Rows are read once per attempt and used minutes later.
* River retries an attempt that crashed or failed; the retry must find what the
  earlier one left on the cluster.
* A cancelled context makes later writes fail silently.
* Two jobs can drive the same run at the same time.
* A state write is checked against one read of its row and committed later.
* The scheduler counts goroutines and shares a mutex, a semaphore and a channel.
* Handlers check a rule in one query (an admin is left, no run is in flight, no
  lock is held, the tally is short by one) and act on it in another.
* The same row is written by a request, its job and a page that only looks.

### What makes the components correct

* Scheduler: no node runs ahead of a dependency or behind a closed gate; every
  settled node has its reason; it returns, at a fixpoint, with no goroutine left.
* Run: a settled run never changes; its status tells what its steps did; its
  steps settle with it; it comes to rest; a step runs on the cluster once at a
  time, after its dependencies, and after an approval if it is gated.
* Admission: one run in flight; no run without a job behind it; a pull request's
  check run is completed, with what the run did.
* Gates: opened by their quorum of different people and by nobody else; decided
  once; decided in the end.
* Graph: stages in order, nothing changed ungated, and a board that tells the truth.
* Edits: a component's state and variables stay with it; locked state stays; state
  that tracks resources is not deleted unasked.
* Organization: an admin is left; one live link per address; a spent link is spent.
* Tekton: a runner has Tekton; the row comes to tell what is on the cluster.
* State: one linear history, written under the lock by write tokens only; an
  acknowledged write is stored; reads are never older than their request.

`PROJECT.json` lists the places where these are at risk under `hazards`.

## 2. Modules

| module | what it models | composed with |
|---|---|---|
| `DagRun` | abstract: how the steps of a graph may change state, one step at a time, without goroutines | |
| `Scheduler` | `schedule()`: main loop, goroutines, semaphore, cancellation | implements `DagRun` |
| `WorkflowRun` | the life of one run: rows, jobs, attempts, TaskRuns, decisions, cancel, reapers | uses `DagRun`'s rules inside an attempt |
| `RunGraph` | from a staged workflow to the units of a run, what the run then does, and the stage board | drives the units by `DagRun`'s actions |
| `Approvals` | the tally of a run's gates under concurrent requests, the attempts of its jobs, cancel and both reapers | the decisions of `WorkflowRun`, in detail |
| `RunAdmission` | the in-flight gate, the path from a start to a run with a job, check runs | its runs are `WorkflowRun`'s, seen from outside |
| `VersionedRegister` | abstract: a register that keeps every version, with lineage and serial | |
| `TofuState` | requests against one workspace of the managed state | implements `VersionedRegister` |
| `ComponentEdits` | saves, moves and variables against runs that lock and write state | the state rows of `TofuState`, many of them |
| `Organization` | members and invitations under concurrent requests | |
| `TektonInstall` | a cluster's installation row, its handlers, jobs and status pages | |
| `...Proofs` | TLAPS proofs about the module they name | extend it |
| `MC...` | TLC instances | extend the module they name |

Definitions keep the names of the code where there is one (`depPassed`,
`MarkComponentRun`, `attemptsRemain`, `SettleStuckComponentRuns`, ...). A
definition with a suffix (`depPassed_AnyFailure`) is a mutant: the code with a
plausible bug, which the property it is listed with detects.

### Scheduler

`main` is the program counter of the main goroutine: `sweep` (it holds the
mutex), `select`, `drain`, `returned`. `worker[n]` is the goroutine of node `n`:
`idle` (never launched), `queued` on the semaphore, `running`, `settled` (the
result is stored, the id not handed in), `received`. The sweep is one action per
node looked at, in list order, pass after pass, as in the code; goroutines settle
only while the main goroutine is outside the sweep, which is what the mutex does.
The semaphore is held until the id is received (`SemaphoreHeld`): the deferred
release runs after the send. `NowPending` is the arithmetic of `pending`, which
the code keeps separately from the goroutines it counts. The node list is chosen
in `Init` among all acyclic ones, because it is the function's argument.

### WorkflowRun

`status`, `jobID` and `step` are rows; `task` is the cluster; `job` is River's
table; `pc`, `seen`, `node`, `attached`, `ctxDone`, `retryable` and `final` are
the memory of the attempt that executes a job; `decide`, `canceller` and
`reaper` are the handlers' program counters. `decision` is history: what the
human decided, whatever happens to the row. Each database statement or
transaction is one action, and each cluster call is one.

* `Fetch` is River's fetch together with `GetRun`; a failing `GetRun` returns an
  error before anything else happens and is the same as `Crash` at `loaded`.
* `Lookup`, `ListFails`, `Submit`, `OnSubmitted`, `Observe`, `ExecuteFails` are
  `Execute`. `Candidate` is the stored name, and only without one the newest
  active TaskRun with the step's label.
* `MarkComponentRun` does nothing through a cancelled context; `MarkRun` is
  guarded by the row's status; the terminal `Finish` and `Sweep` use a context
  that cannot be cancelled.
* `Suspend`, `Finish`, `Sweep` and `Return` are the end of `Work`, in its order.
* The reapers read in one action and write in later ones. `FindStuck` requires
  that no attempt is past loading: a run is only looked at after an age longer
  than the job timeout.

### RunGraph

The workflow is chosen in `Init`: a stage, a type, a gate and continue-on-failure
for every component. `BeginRun`, `BeginComponentRun` and `BeginStateOp` build the
snapshot as the code does: `stageDependencies` gives a component every component of
the nearest earlier stage that is not empty, `planNode` and `applyNode` split an
OpenTofu component in two (the apply takes over the gate and continue-on-failure),
a drift check drops the applies and all edges, a scoped run keeps one component.
The units then change state by `DagRun`'s actions; as `sweep()` goes through the node
list from its head, and the list has the stages in order, a unit is skipped only when
nothing of an earlier stage is left to skip (`sweepsFirst`). `StageStatus` and
`longestPathDepths` are the board and the stages derived from recorded edges.

### Approvals

A request reads the run, reads the step with its tally, and updates the step if it
is still parked; the update writes the whole tally, one entry longer than the one
read. Each entry remembers who had been stored when its request read the step, which
is how lost updates are told apart. A complete tally, or a rejection, inserts a job
(`Enqueue`) and then records its id (`Record`).

An attempt of a job reads the rows once (`Load`, `worker.go:145`) and decides from
what it read: a gate without `approved_at` is parked, another step is run or its
result taken over (`Loaded`). Everything it writes comes later, one statement each:
the run is marked running (`MarkRunning`), a gate is parked (`Park`), a step is set
running and to its result (`Launch`, `Result`), the run is parked or settled
(`Suspend`, `Finish`), the steps left over are skipped (`Sweep`). `MarkRun` is guarded
by the run's status, `MarkComponentRun` by nothing. A job's attempt may fail at any of
these points (`Fail`), or end without River learning of it (`End`); several jobs may
drive the run at once. `CancelRun` settles run and steps in one transaction and stops
the recorded job later (`JobCancel`), if at all. One reaper ticks: it looks for a stuck
run (`StuckFind`, `StuckRun`, `StuckSteps`, which leaves parked steps), then for gates
that have timed out (`ReapFind` to `ReapSettle`), one statement each. It takes a run for stuck only when no
attempt that marked it running can still be at work (`reapMaxLifetime` is longer than
`workflowWatchTimeout`); one that has only loaded its rows may be. How an attempt
works inside a step, several reapers, and an `Insert` that fails are left out.

### RunAdmission

Each starter is one call of one of the start paths. `CheckGate` is the query,
`create` the transaction, `annotate` what comes between it and the job
(`recordRunStarter`, `SetRunTrigger`, `SetRunStartedBy`), then `Insert` and
`SetRunJob`. `AfterInsertError` settles the run, as every start path does. `Insert`
may report an error although the job was stored. A pull request's start also opens
a check run and stores its id with the trigger; `CompleteTriggerCheck` is a load
and a post, called by the failed start, by the worker and by a cancel.

### ComponentEdits

`home` is the application of a component, `rows` the state rows, keyed by
application and component, `recorded` the inventory of a component's last recorded
state. A save reads what it removes, the state rows, their locks, the runs in flight
and the records, each in a statement, and then commits one transaction; a move
likewise. `alone` is history: nothing that matters has been committed since the
request began; `strayed` collects the components that a request which was not alone
may have split from their state.

### Organization

A role change, a removal or a departure reads the target, counts the other admins if
the change takes the admin role away, and writes by row id. An invitation's creation
supersedes the live ones of its address and inserts its own in a transaction; an
acceptance looks at the link, at the membership and commits. Transactions are READ
COMMITTED, and a row one of them has updated makes others wait.

### TektonInstall

`status` and `enabled` are the row, `parts` and `ready` the cluster. A status page
and an enable read the row, ask for the API groups, read the controller's Deployment
and write what follows from the status *they read* (`Reconciled`). An enable goes on
to read the row again, set `enabled` and, if the controller was not ready, insert a
job and mark the row, after the job may have ended (`MarkQueued`). Upgrade and
uninstall detect, update the row, insert and mark. The job marks the row, applies or
deletes object by object, and marks it again; River retries it. The cluster's owner
may install or remove Tekton, or have its controller go down. Of the objects, the
definitions and the controller are told apart. Applying an object and the mark that
reports it are one action.

### TofuState

Two or more request slots serve one workspace. `Authenticate` checks the token
once; the body arrives later. Locking is ensure-row, conditional update, and a
read of the holder with up to three rounds; unlocking and writing are conditional
too. `CheckWrite` is the read before the transaction, `CommitWrite` the
transaction with its pointer update (`PointerMoves`). `Fails` may end a request
at any statement, and `AnswerDone` lets the statement take effect although the
client hears of an error. Steps start and settle at any time.

## 3. Runs

| run | expects | bounds | shows |
|---|---|---|---|
| `scheduler` | pass | 3 nodes, 2 places, all acyclic lists | safety, implements `DagRun`, returns |
| `run_retry` | pass | 3 steps (a join), 1 job, 2 attempts, 1 crash, 1 error | recovery, order, settlement, progress |
| `run_interference` | pass | 2 steps, the second gated, timed and continuing on failure, 2 jobs, 2 attempts, 1 error, cancel, aborts | the gate holds |
| `rejected_runs` | violation | 2 parallel gates, 3 jobs | a rejected step runs |
| `run_graph` | pass | 3 components, one of which may be gated, 3 stages, every action and scope | stages, outcomes, gates and the board |
| `approvals` | pass | 2 people, 1 gate that both must approve or anybody but the starter (timed), 2 requests, 2 jobs, 1 failing attempt, cancel, reapers | quorum, lost approvals, decisions, progress |
| `admission` | pass | a pull request's start and another one, 1 queue, 1 database and 1 GitHub error, cancels | gate, start, check run |
| `tofu_state` | pass | 2 requests, a write and a read token, 2 lock ids, 2 bodies, serials 0..1 | locking, history, implements `VersionedRegister` |
| `component_edits` | pass | 3 applications, 1 component, 2 state rows, 2 runs, 2 edits | state follows its component, locks, deletions |
| `stale_record` | violation | 1 application, 1 edit, 2 runs | an unconfirmed save deletes state with resources |
| `organization` | pass | 3 people, 2 roles, 2 invitations, 2 requests | an admin is left, one live link |
| `tekton_install` | pass | 1 lifecycle request at a time, 1 status page, 2 jobs, 2 attempts, 1 fault | runner flag, status |

Why the bounds are enough to be interesting: three nodes are the least with a chain
whose list order is reversed, a fork and a join; two places leave one goroutine queued.
With two attempts, a crash and an error let either come first, have the job retried, and
use its attempts up so that the reaper has to settle the run. Two gates are the least in
which a decision is taken while an earlier one is being executed. Three stages have an
empty one between two others, and three components a failure beside and behind another;
that the order of skips matters to the board takes four (two components between a failed
stage and a last one), which the theorem covers. Two approvals of a 2-of-2 gate overlap,
and one of them is lost and given again. Two jobs and a failing attempt let an attempt
that loaded the gate long ago meet a decision, a cancel, a timeout, the stuck-run reaper
and another attempt. A request whose job would be a third one waits (`MaxJobs`); with
three jobs none ever does, and the properties hold for either policy (1.4 million
states, too many for the run). Three people are two admins who remove each other
and one who is neither. A third application lets a component be moved twice at once. Two
requests suffice for each race of the state service because every protocol step involves
the row and one other request. Two install jobs are an install and a removal, or an
install and an upgrade, at the same time: a request is over while its job still runs, so
jobs and requests overlap with one request slot. In `admission`, all three errors may
happen in one behaviour. Deadlock is not checked: a run that has settled or waits for a
human, and a service without requests, stop. Symmetry is used only in runs without
liveness properties (`tofu_state`, `component_edits`, `organization`, `run_graph`).

### What the passing properties say

* `RunsOnlyWhenReady`: the order the graph promises, whatever the goroutines do.
  `ReturnsWhenDone`: no node is forgotten. `NoGoroutineLeaks`, `Terminates`: the
  bookkeeping of `pending` neither loses nor waits for a goroutine.
  `ImplementsDagRun`: seen from the steps, there are no goroutines.
* `RetryReattaches`: wherever one crash falls, the next attempt finds the active
  TaskRun. `DependenciesFirst`: the order holds across attempts, measured against
  the rows and not against one attempt's memory. `NothingSubmittedAfterSettle`: an
  attempt that returns with a retry to come leaves the run in flight.
  `SettledRunAccountsForItsSteps`: rows agree with the run when it is over.
  `RunComesToRest`: by finishing, retrying or the reaper.
* `GateHolds`: with one gate and no crash, no interleaving of cancel, timeout, retry and
  decision runs a step nobody approved.
* `StagesInOrder`: nothing of a stage begins before all earlier stages are through,
  although a component waits only for the one just before it. `OutcomeExplained`:
  what is skipped is behind a failure that stops the run, and the status says which
  kind of failures there were. `DependenciesAreInTheRun`: no edge points at a unit the
  run does not have. `ChangesWaitForApproval`: gates survive the split into plan and
  apply, scoping and read-only runs. `BoardTellsTheTruth`, `DerivedStagesAgree`: the
  board, also of a run in flight, and the stages computed back from edges.
* `OpensOnlyByQuorum`, `OnlyOverlappingApprovalsAreLost`: the tally is never too
  good, and too bad only by approvals that overlapped; no step that nobody rejected
  is run, or held to be approved, behind less than a quorum, whatever the attempts
  read and when. `DecisionIsFinal`: late requests, sweeps, a cancel and both reapers
  find the row they expect or none; an attempt that loaded the step before is the one
  writer that may undo it, and does (`rejected_runs`, and below). `ParkedRunEnds`:
  lost approvals can be given again, decisions resume the run, and a gate parked
  again is decided again, until the run is over. A job River gave up on is exempt:
  its run stays as it is until a gate is decided or a reaper comes.
* `OnlyOverlappingStartsCollide`: the in-flight gate is wrong only in the window
  between its query and the insert. `PendingRunStarts`: a refused job does not hold
  the gate. `CheckAgrees`, `CheckGetsCompleted`: whoever completes the check run of a
  pull request says what the run did, and somebody does.
* `HistoryIsLinear`, `WritesOnlyUnderLock`, `NoTakeover`, `AcknowledgedWriteIsStored`,
  `ReadIsFresh`, `ImplementsRegister`: the state service under concurrent, failing
  and repeated requests.
* `StateStaysWithComponent`: a component's state and variables are where its next run
  looks for them, unless requests overlapped on it. `LockedStateStays`: the guards'
  check and the transaction are apart, and the transaction's own predicate closes the
  gap. `DeletionTrustsTheRecord`: unasked, only what the record says is empty goes.
* `OrphanedOnlyByOverlap`, `OnlyOverlappingInvitesCoexist`: the rules hold for
  requests that do not overlap, and the window is no wider than that.
* `EnabledHasTekton`: after operations one at a time and without faults, a cluster
  that is offered as a runner has Tekton. `StatusConverges`: once nothing is in
  progress, a Tekton that is there comes to be shown as installed, and one that is
  not there is not, whatever faults and late marks came before.

The type invariants of the modules with proofs are proved and not model-checked again
(except `WorkflowRun`'s, which `run_retry` checks too), and so are
`SettledInPlaceIsJustified` and `SettlesOnce` of `Scheduler` (which the refinement of
`DagRun` includes) and `SpentLinkAdmitsNobody` of `Organization`.

### Where the code and its documentation disagree

The two violation runs have their traces described under `findings` in
`PROJECT.json`. The models contain further behaviours of this kind, which no
passing property can exclude:

* A crash after `Submit` when the row holds an older TaskRun's name makes the next
  attempt look up the old one and submit again (`lib/tekton/runexec.go:70`).
* `recover` treats a failing `List` as "no TaskRun": a crash before the name was
  stored and one such error submit a second TaskRun.
* An aborted attempt's write of a step's result is lost while the scheduler counts
  the step as succeeded, and the run succeeds with the step still running
  (`lib/workflows/worker.go:539`).
* Two starts that overlap both pass the in-flight gate (`lib/workflows/runs.go:175`).
* A start that fails between `createRun` and `Insert` leaves a pending run that
  nothing moves (`lib/api/runs.go:108`).
* Two gates of one run approved in quick succession insert two resume jobs; both
  attempts may submit the same step.
* When inserting the resume job fails, the decided run stays parked with no gate
  left to decide.
* A settled run may keep a parked step, for whose approval the run is no longer in the
  state that a decision requires; the comment of `SettleStuckComponentRuns`
  (`lib/workflows/runs.go:803`) calls that an unrecoverable inconsistent state. An
  attempt that loaded the gate before a cancel or a timeout parks its step again after
  it (`worker.go:288`), and is followed by no sweep; and the stuck-run reaper leaves
  a parked step of the run it fails as it is (`recovery.go:174`). A request that had
  read the run as parked before still approves such a step and inserts a job, whose
  attempt runs the step under the settled run (`worker.go:187` ignores `MarkRun`'s
  error).
* A worker that has not noticed a cancel sets a cancelled step back to running.
* The approval timeout fails a run whose gate was approved between the reaper's
  read and its write.
* A continue-on-failure step that fails for a transient reason lets its dependents
  start while its TaskRun may be active, and the run, being partial, is not retried.
* A crash between settling a partial run and sweeping its steps makes the
  rescued job execute the open ones of a settled run.
* A state write that was authenticated while its step ran is stored after the step
  has settled.
* A cancel between `Insert` and `SetRunJob` finds no job to stop.
* The worker completes the check run and notifies (`worker.go:373`-`383`) before it
  sweeps the steps of the settled run.
* Two admins who demote or remove each other at the same time leave the organization
  without one. Two invitations of an address created at the same time are both live.
* Two approvals of one gate at the same time may count as one.
* A save, a move or a run that overlap on a component may leave its state or its
  variables under an application it is not in.
* Enabling a cluster whose own Tekton has no ready replica installs over it, with
  `Force`, and labels it as managed, after which it may be upgraded and uninstalled.
  `docs/user/running-jobs.md:54` says that a Tekton installed by the owner is never
  modified, `lib/tekton/detect.go:45` and `lib/clusters/tekton.go:18` likewise.
* The request's mark of a queued removal may follow the job's last one: the row then
  shows `uninstalling` for ever, because reconciling leaves only `installed` for a
  Tekton that is absent. Reconciling also overwrites `upgrading` and `uninstalling`
  while the controller is still ready, although its comment says that it does not
  clobber an install in flight (`lib/clusters/tekton.go:353`). When the queue refuses
  the job, the row stays `installing`, which `lib/api/tekton.go:44` means to avoid.
* `docs/user/deploy-workflows.md:53` describes continue-on-failure for a component
  as a whole; a failed plan stops the run all the same (`runs.go:431`). An
  approval timeout fails the run also when the step continues on failure, where a
  rejection does not; `deploy-workflows.md:626` says that the two are alike.

### Fairness

* `Scheduler`: weak fairness of the main goroutine and of every goroutine's start
  and settle. Go's scheduler runs every runnable goroutine, a step's execution ends
  because its TaskRun has a timeout, and mutex and semaphore are handed on. The
  context need not be cancelled.
* `WorkflowRun`: River keeps fetching available and rescuing dead jobs, an attempt
  keeps working, TaskRuns end (Tekton's timeout), a handler that began goes on, the
  reaper ticks. No fairness for decisions, cancels, crashes, aborts or errors; as
  errors are bounded, a retry succeeds in the end.
* `RunAdmission`: a call that passed the gate goes on; the worker works its queue;
  a cancel and a report that began go on.
* `Approvals`: a request that began is served, River keeps an attempt of every job
  going, a reaper that has found a run deals with it, and every person who may approve
  and is not in the tally keeps coming back (strong fairness, because the run may be
  parked again and again). Nothing is assumed of rejections, cancels, failures, or of
  the reapers finding anything.
* `TektonInstall`: requests are served, jobs are worked, and somebody keeps looking at
  the status page: reconciling happens nowhere else.

## 4. Proofs

`SchedulerProofs` proves, for every number of nodes, every node list and every
concurrency (`SchedulerAssumption`: both are positive naturals):

* `SchedulerTypeCorrect`: `Spec => []TypeOK`;
* `SchedulerLeaksNothing`: `Spec => []NoGoroutineLeaks`;
* `SchedulerRunsOnlyWhenReady`: `Spec => []RunsOnlyWhenReady`;
* `SchedulerSettlesWithReason`: `Spec => []SettledInPlaceIsJustified`;
* `SchedulerSettlesOnce`: `Spec => SettlesOnce`;
* `SchedulerReturnsWhenDone`: `Spec => []ReturnsWhenDone`;
* `SchedulerImplementsDagRun`: `Spec => ImplementsDagRun`, the refinement of `DagRun`.

The argument. `TypeOK` alone is not inductive with the rest: that a receive
decrements a positive `pending` needs `NoGoroutineLeaks`, and that one needs to
know that `launched` is zero outside the sweep (`LaunchedOnlyInSweep`) and that a
node is settled exactly when its goroutine has settled or never existed
(`ResultsMatchWorkers`), so that no node is launched twice. `CoreInv` is the
conjunction of these four and is inductive (`CoreInvInit`, `CoreInvNext`). The
counting rests on four lemmas about the set `Outstanding` (it is finite, and which
actions add a member, remove one, or keep it). `RunsOnlyWhenReady` and
`SettledInPlaceIsJustified` then follow because a settled result never changes
(`StepKeeps`), only `Launch` starts a goroutine (`OnlyLaunchStartsGoroutines`), and
a node without one is settled only by the sweep (`IdleNodesSettleInPlace`).
`ReturnsWhenDone` needs to know what a pass of the sweep has established half-way:
`ReturnInv` says that the nodes already looked at in a pass without a change are not
sweepable (`SweptNodesAreDone`), and that a return has its reason, a fixpoint or an
ended context (`ReturnedForAReason`). At a fixpoint with nothing parked every node is
settled, because the list is acyclic: the first unsettled node of its order would be
sweepable (`FirstOfNodes`, `FixpointSettlesEverything`). For the refinement a parked
node has no goroutine (`ParkedAreIdle`), and `DagStep` maps every action to one of
`DagRun`'s or a stutter.

`WorkflowRunProofs` has two theorems without hypotheses: `WorkflowRunTypeCorrect`,
`Spec => []TypeOK`, and `NothingRunsUndecided`, that nothing of a gated step is
submitted before a human has decided on its gate (`GateDecided`; the decision may be a
rejection, see `GateHolds` below). `TypeInv` adds to the types what keeps them: jobs are
inserted in order, a waiting job has an attempt left, an attempt that waits for a
TaskRun waits for one that exists, an attempt past `schedule()` has an outcome, and only
a running job has an attempt. The other properties of `WorkflowRun` are false of some
runs (the behaviours of section 3), so their theorems say of which they are true:

* `OneGateHolds`: `OneGate => (Spec => []GateHolds)`, where `OneGate` says that at most
  one step is gated and no worker is killed. Any graph, numbers of jobs, attempts and
  errors, cancels, aborted attempts and gate timeouts are allowed. `OneGateInv`: until
  the decision the first job is the only one, and a handler that has found the run
  parked knows that this job is done with it (`FirstDone`); after it, every attempt at
  work has loaded the decision, and after a rejection the settled row. Both hypotheses
  are needed: with two gates the resume of one overlaps the decision on the other
  (`rejected_runs`), and a worker killed between parking the run and returning has its
  job rescued beside the resume.
* `OneDriverRespectsDependencies`: `DependenciesFirst` of a run with no gate, or with
  `OneGate` (`OneDriver`), and with no continue-on-failure or no transient errors. Any
  graph, cyclic ones included, cancels, aborted attempts, gate timeouts, the reaper,
  retries, and without a gate crashes and rescues are allowed. `SoleInv`: two attempts
  never work on the run at once, because a decision inserts one job (`OneResumeInv`) and
  finds the first one done, or because there is nothing to decide (`NoGateInv`).
  `DriveInv`: what is launched has its dependencies passed (`LaunchedReady`), an outcome
  others depend on is in the database as long as the attempt's context lives
  (`OutcomePersisted`), and an outcome that was loaded is still there when it
  short-circuits the step (`LoadedHolds`): everybody but the driver writes open rows
  only (`OutcomesStay`). The hypotheses are needed. With two gates, or with one gate and
  a crash, a second attempt parks a step again that has succeeded. A transient error
  of a step with continue-on-failure leaves its row running for the retry while what
  depends on it is launched. TLC finds each of these on two or three steps.
* `PlainRunAccountsForItsSteps`, `PlainRunSubmitsNothingAfterSettle`,
  `PlainRunReattaches`: `SettledRunAccountsForItsSteps`, `NothingSubmittedAfterSettle`
  and `RetryReattaches` of a `PlainRun`: no gate, no continue-on-failure, no cancel, no
  aborted attempt, an acyclic graph; any number of steps, attempts, crashes, rescues and
  errors, and the reaper. `PlainInv`: the run has one driver at a time (`Alone`), the
  rows agree with each other and with the run (`RowsAgree`), and the attempt's view of a
  step agrees with its row, except for rows left open for a retry (`AttemptAgrees`).
  `ReattachInv` follows the TaskRun from its submission over the crash to the attempt
  that looks for it. Without the hypotheses: a gate brings a second job that drives the
  run beside the first; a partial run whose step failed for a transient reason is settled
  and swept in two steps, and a crash between them has the rescued job launch dependents
  over a row that is still open; a worker's writes are not guarded against a cancel; an aborted attempt loses its writes.

`RunGraphProofs` proves, for any components, stages, types, gates, actions and scopes:
`[]DependenciesAreInTheRun`, `ChangesWaitForApproval`, `[]StagesInOrder`,
`[]OutcomeExplained`, `[]BoardTellsTheTruth`, `[]DerivedStagesAgree`. `GraphOK` says
what the three snapshots have in common: which units a component has, what they wait
for, and which one carries the gate and continue-on-failure (`WholeGraph`,
`ScopedGraph`, `StateOpGraph`, over `ExpandedGraph` for `expandExecutionNodes`). Every
step then begins a run, moves one unit by one of three rules, decides a gate, rests, or
settles (`NextCases`), and what is done stays done (`TerminalStays`).

* Stages: what has begun had its dependencies passed (`DepsRespected`). Take the
  earliest stage that began too soon: the component of the nearest stage before it has
  begun as well (`NearestStage`, `BegunAfter`), and is an earlier one that did.
* Outcomes: a skip leads back to a failure that stops the run (`SkipsExplained`). What a
  settlement leaves open is behind the failure that settled it, by the order of stages
  (`LeftOpen`), and without such a failure nothing is open (`NothingLeft`).
* The board: `EarlierAccounted`, that the stages before a skipped step are done or have a
  failure, needs the reason of each skip while the run is open (`SkippedBecause`) and
  the order in which `sweep()` skips (`SkipInOrder`): with skips in any order a stage
  would be shown skipped while the one before it is pending.
* Derived stages: `longestPathDepths` is recursive over the graph, but no induction over
  data is needed. A recursive function is some solution of its equation if there is one,
  and the number of different stages before a component (`Rank`, `RankStep`) is one
  (`DepthsSolve`). The two are equal (`DepthIsRank`): at the first stage where they
  differed they would agree on all dependencies, and so on the maximum.

`TofuStateProofs` proves, for any sets of requests, steps, lock ids, lineages and
bodies and any bound on serials (`TofuStateAssumption`: write tokens belong to
steps, and the values for "no lock" and "no lineage" are none of the others):
`[]TypeOK`, `[]HistoryIsLinear`, `[]ReadIsFresh`, `[]AcknowledgedWriteIsStored`,
`WritesOnlyUnderLock`, `NoTakeover`, and `Spec => ImplementsRegister`, the
refinement of `VersionedRegister`.

The argument. The checks of `Write` are made on a row that may change before the
commit, so `HistoryIsLinear` needs to know what a request at `commit` still knows
(`CheckedWrite`): it compared its body with version `seen`, which is in the history
and never changes; the pointer update then requires `seen` to be current. Creating
the row resets it, so nothing may be stored or locked before it exists
(`NoRowNoState`), and a lock may only be tried on an existing row (`LockProgress`).
A request is at statements of its own operation (`RightRequest`), and a read has
found a version that stays (`PendingRead`). `Inv` is the conjunction. Requests
interact only through the row, and the row only grows, so one lemma
(`BystanderKeeps`) covers all other requests of every step, and each action needs
only its own request and the row. The action properties and the refinement follow
from two lemmas that say which steps change the history (`OnlyCommitStores` with
`CommitStores`) and the lock (`LockChanges`).

`ApprovalsProofs` proves, for any people, gates, policies, numbers of requests, jobs and
failures (`ApprovalsAssumption`: finitely many people, valid policies): `[]TypeOK`,
`[]OpensOnlyByQuorum`, `[]OnlyOverlappingApprovalsAreLost`, `DecisionIsFinal`.
A row's tally is one that some request computed, so the invariant says of every
tally, in a row or held by a request about to write, what the theorems say of rows
(`GoodTally`: nobody twice, everybody allowed, and for everybody missing an entry
that was read before them). `Decided` carries the decision from the row to the
attempts and back: an attempt holds a step open only if it is approved (`approved_at`
is never cleared, so it does not matter when the attempt read it), a step runs only
if approved, and approved means a quorum (the entries of a complete tally are an
injection into the people who may approve and have) or a rejection. Every action but
three leaves tallies and approvals alone (`OthersKeep`), which covers the attempts,
the cancel and the reapers at once.

`RunAdmissionProofs` proves, for any number of starts and errors: `[]TypeOK`,
`[]OnlyOverlappingStartsCollide`, `[]CheckAgrees`. `GateInv`: what a start saw when it
passed the gate was settled, and settled rows stay (`SettledStays`). `CheckInv`: what
a caller is about to post is the outcome of a run that cannot change any more.

`OrganizationProofs` proves, for any people, invitations and requests
(`OrganizationAssumption`: `admin` is a role): `[]TypeOK`, `[]OrphanedOnlyByOverlap`,
`[]OnlyOverlappingInvitesCoexist`, `[]SpentLinkAdmitsNobody`. `AdminInv`: until the
first loss every request about to write has counted another admin. `InsertInv`: what
a creation has superseded stays live, and locked, until it commits, and no two
creations have superseded the same row. `LinkInv`: a spent link stays spent, and no
acceptance under way has opened one.

The same module instantiates `TektonInstall`, the installation of the organization's
runner cluster, and proves `[]EnabledHasTekton` for any requests, pages, jobs, attempts
and faults (the one hypothesis: a request is not a page). `InstallInv` says what the one
operation under way still has to do, as long as operations do not overlap, nothing fails
and the owner keeps out (`Undisturbed`): a request and its job are one operation
(`OneOperation`), which parts a job has applied or removed (`JobProgress`), what a
request or a page has read is still true (`StillTrue`), an enabled cluster has Tekton or
an enable pending, and a pending uninstall has cleared the flag.

`ComponentEditsProofs` proves, for any applications, components, runs and edits
(`EditsAssumption`): `[]TypeOK`, `[]StateStaysWithComponent`, `LockedStateStays`,
`DeletionTrustsTheRecord`. The invariant says what a request that is still alone may
rely on: a run works on components that are where its snapshot says (`GoodRun`), an
edit's reads are still true (`GoodEdit`), and a save that is about to commit has found
all the rows it deletes, unlocked and as recorded (`RowsAsRead`). A commit that
breaks somebody's reads takes their `alone` away (`DisturbedEdit`, `DisturbedRun`).

Only model-checked: the liveness properties (fairness and `ENABLED` are outside the
prover's reach), and the properties of `WorkflowRun` beyond the hypotheses above, on the
instances of section 3. Every other property of a passing run is stated by a theorem.

## 5. Not modelled

* Inside `Work`: the panic recovery (it marks the run failed and lets River retry),
  the handover Secrets and notifications. Inside `runComponent`: captured outputs and
  the evaluation of policies (a blocked plan is a failed plan).
* `ReplaceWorkflow`'s validation, installations, and `checkBackendChanges`: functions
  of one request's input.
* The sealing of state bodies and token signatures; names, e-mail addresses and links
  as text; `driftDue`'s clock, and the matching of webhooks to applications.
* The provider plugin cache of a runner: one claim and one update.
* Planning and interpolation, scripts, Kubernetes relays, CRUD services,
  authentication, the UI: text, I/O or single-row updates. The ent client and the API
  types are generated, and make up most of the repository's Go.

## 6. Plan

1. Done: the scheduler and its abstraction; the run's life; the run's graph;
   approvals; admission with check runs; managed state and its abstraction; edits of
   components; members and invitations; the Tekton installation. Proved: what section
   4 lists.
2. `RunAdmission` and `WorkflowRun` composed: what a job whose start was told that it
   was refused does to the steps of its failed run.
