---------------------------- MODULE TektonInstall ----------------------------
(***************************************************************************)
(* The Tekton installation of one runner cluster: the row that tells its   *)
(* state, the handlers that enable, upgrade and uninstall it after looking *)
(* at the cluster, the jobs that change the cluster, and the status page,  *)
(* which writes what it detects into the same row.                         *)
(*                                                                         *)
(* Sources: lib/api/tekton.go, lib/clusters/tekton.go,                     *)
(* lib/tekton/install_job.go, install.go, detect.go.                       *)
(*                                                                         *)
(* A query, an update, a call of the cluster and a call of the queue are   *)
(* one action each.  The row exists from the start: a missing one reads as *)
(* not_installed and disabled, which is what ensureTektonRow creates.  Of  *)
(* the objects of the release, the custom resource definitions and the     *)
(* controller are told apart, which is what detection looks at.            *)
(***************************************************************************)
EXTENDS Integers, FiniteSets, Sequences

CONSTANTS
  Requests,     \* enable, upgrade and uninstall requests in flight at the same time
  Pages,        \* status pages that are open
  MaxJobs,      \* bound: install jobs that are inserted
  MaxAttempts,  \* River's attempts of a job
  MaxFaults     \* bound: failing calls, crashes and changes by the cluster's owner

ASSUME TektonInstallAssumption ==
  Requests \cap Pages = {} /\ MaxJobs \in Nat /\ MaxAttempts \in Nat \ {0} /\ MaxFaults \in Nat

Jobs == 1..MaxJobs
Parts == {"crds", "controller"}
Lifecycle == {"enable", "upgrade", "uninstall"}

VARIABLES
  status, enabled,  \* the row
  parts,            \* the objects on the cluster: absent, the owner's, or labelled as managed
  ready,            \* the controller has a ready replica
  req,              \* request or page -> where it is and what it has read
  job,              \* job -> where its attempt is
  faults,           \* how many there were
  overlap           \* an operation began before another one and its job had ended (history)

row == <<status, enabled>>
cluster == <<parts, ready>>
vars == <<status, enabled, parts, ready, req, job, faults, overlap>>

Idle == [pc |-> "idle"]
To(r, q) == req' = [req EXCEPT ![r] = q]
Fault == faults < MaxFaults /\ faults' = faults + 1

Live(j) == job[j].pc \notin {"none", "gone"}
AtRest == (\A j \in Jobs : ~ Live(j)) /\ \A r \in Requests : req[r] = Idle

-----------------------------------------------------------------------------
(* Detection *)

\* TektonStatus reads the row before it looks at the cluster; the checks of an
\* upgrade or an uninstall look at the cluster alone.
Begin(r, op) ==
  /\ req[r] = Idle
  /\ To(r, [pc |-> "groups", op |-> op,
            shown |-> op \in {"status", "enable"} /\ status = "installed"])
  /\ overlap' = (overlap \/ (op \in Lifecycle /\ ~ AtRest))
  /\ UNCHANGED <<row, cluster, job, faults>>

\* Is the API group registered?
DetectGroups(r) ==
  /\ req[r].pc = "groups"
  /\ To(r, [pc |-> "deployment", op |-> req[r].op, shown |-> req[r].shown,
            installed |-> parts["crds"] # "absent"])
  /\ UNCHANGED <<row, cluster, job, faults, overlap>>

Managed == parts["controller"] = "managed"

\* Read the controller's Deployment, and what follows from it: errNotInstalled,
\* errNotManaged, or the next statement.
DetectController(r) ==
  /\ req[r].pc = "deployment"
  /\ LET q == req[r]
         installed == q.installed \/ parts["controller"] # "absent"
     IN  To(r, CASE q.op \in {"status", "enable"} ->
                      [pc |-> "reconcile", op |-> q.op, shown |-> q.shown, installed |-> installed,
                       ready |-> ready]
                 [] q.op \in {"upgrade", "uninstall"} /\ Managed -> [pc |-> "begin", op |-> q.op]
                 [] OTHER -> Idle)
  /\ UNCHANGED <<row, cluster, job, faults, overlap>>

\* The cluster cannot be reached: an error, and the row is as it was.
DetectFails(r) ==
  /\ req[r].pc \in {"groups", "deployment"} /\ Fault
  /\ To(r, Idle)
  /\ UNCHANGED <<row, cluster, job, overlap>>

\* Mutant: only a job sets the status.
Reconciled_Absent(q) ==
  IF ~ q.installed /\ q.shown THEN "not_installed" ELSE status

\* reconcileTekton, with the status that was read before the detection.
Reconciled(q) ==
  CASE q.installed /\ q.ready /\ ~ q.shown -> "installed"
    [] ~ q.installed /\ q.shown -> "not_installed"
    [] OTHER -> status

\* Not confirmed to be live.
NeedsInstall(q) == ~ q.ready

Reconcile(r) ==
  /\ req[r].pc = "reconcile"
  /\ status' = Reconciled(req[r])
  /\ To(r, IF req[r].op = "status" THEN Idle
           ELSE [pc |-> "enable", op |-> "enable", needs |-> NeedsInstall(req[r])])
  /\ UNCHANGED <<enabled, cluster, job, faults, overlap>>

-----------------------------------------------------------------------------
(* Enable, upgrade, uninstall, disable *)

\* EnableTekton reads the row again ...
EnableRead(r) ==
  /\ req[r].pc = "enable"
  /\ To(r, [pc |-> "enabled", op |-> "enable", needs |-> req[r].needs, anew |-> status \in {"not_installed", "failed"}])
  /\ UNCHANGED <<row, cluster, job, faults, overlap>>

\* ... and writes what follows from it.
EnableWrite(r) ==
  /\ req[r].pc = "enabled"
  /\ enabled' = TRUE
  /\ status' = IF req[r].anew THEN "installing" ELSE status
  /\ To(r, IF req[r].needs THEN [pc |-> "insert", op |-> "enable"] ELSE Idle)
  /\ UNCHANGED <<cluster, job, faults, overlap>>

\* The status of a row while a job is at work.
InFlightStatus(op) ==
  CASE op = "enable" -> "installing" [] op = "upgrade" -> "upgrading"
    [] OTHER -> "uninstalling"

\* Mutant: a cluster without Tekton is still offered as a runner.
EnabledAfter_Kept(op) == enabled

\* Removing Tekton un-designates the cluster.
EnabledAfter(op) == enabled /\ op # "uninstall"

\* The update of BeginTektonUpgrade and BeginTektonUninstall.
BeginOperation(r) ==
  /\ req[r].pc = "begin"
  /\ status' = InFlightStatus(req[r].op)
  /\ enabled' = EnabledAfter(req[r].op)
  /\ To(r, [pc |-> "insert", op |-> req[r].op])
  /\ UNCHANGED <<cluster, job, faults, overlap>>

Insert(r, j) ==
  /\ req[r].pc = "insert" /\ job[j].pc = "none" /\ \A i \in 1..(j - 1) : job[i].pc # "none"
  /\ job' = [job EXCEPT ![j] = [pc |-> "available", op |-> req[r].op, attempt |-> 1]]
  /\ To(r, [pc |-> "queued", op |-> req[r].op])
  /\ UNCHANGED <<row, cluster, faults, overlap>>

\* MarkTekton with the job's id, whatever the job has done meanwhile.
MarkQueued(r) ==
  /\ req[r].pc = "queued"
  /\ status' = InFlightStatus(req[r].op)
  /\ To(r, Idle)
  /\ UNCHANGED <<enabled, cluster, job, faults, overlap>>

\* A statement or the queue fails, and the request returns the error.
RequestFails(r) ==
  /\ req[r].pc \in {"reconcile", "enable", "enabled", "begin", "insert", "queued"} /\ Fault
  /\ To(r, Idle)
  /\ UNCHANGED <<row, cluster, job, overlap>>

DisableTekton ==
  /\ enabled' = FALSE
  /\ UNCHANGED <<status, cluster, req, job, faults, overlap>>

-----------------------------------------------------------------------------
(* The job *)

\* sortInstallOrder, and the other way round.
InstallOrder == <<"crds", "controller">>
UninstallOrder == <<"controller", "crds">>

\* Work: mark the row, then change the cluster object by object.
Start(j) ==
  /\ job[j].pc = "available"
  /\ job' = [job EXCEPT ![j] =
       [pc |-> "work", op |-> @.op, attempt |-> @.attempt,
        todo |-> IF @.op = "uninstall" THEN UninstallOrder ELSE InstallOrder]]
  /\ status' = InFlightStatus(job[j].op)
  /\ UNCHANGED <<enabled, cluster, req, faults, overlap>>

\* Server-side apply with force: the object carries the labels now, whoever
\* made it.  The status is written again with every "applied ..." line.
Apply(j) ==
  /\ job[j].pc = "work" /\ job[j].op # "uninstall" /\ job[j].todo # <<>>
  /\ parts' = [parts EXCEPT ![Head(job[j].todo)] = "managed"]
  /\ status' = InFlightStatus(job[j].op)
  /\ job' = [job EXCEPT ![j].todo = Tail(@)]
  /\ UNCHANGED <<enabled, ready, req, faults, overlap>>

\* By name, whoever made it.
Delete(j) ==
  /\ job[j].pc = "work" /\ job[j].op = "uninstall" /\ job[j].todo # <<>>
  /\ LET p == Head(job[j].todo) IN
     /\ parts' = [parts EXCEPT ![p] = "absent"]
     /\ ready' = (ready /\ p # "controller")
  /\ job' = [job EXCEPT ![j].todo = Tail(@)]
  /\ UNCHANGED <<row, req, faults, overlap>>

\* What carries the labels is deleted again.
Sweep(j) ==
  /\ job[j].pc = "work" /\ job[j].op = "uninstall" /\ job[j].todo = <<>>
  /\ parts' = [p \in Parts |-> IF parts[p] = "managed" THEN "absent" ELSE parts[p]]
  /\ ready' = (ready /\ ~ Managed)
  /\ job' = [job EXCEPT ![j].pc = "done"]
  /\ UNCHANGED <<row, req, faults, overlap>>

Finish(j) ==
  /\ \/ job[j].pc = "work" /\ job[j].op # "uninstall" /\ job[j].todo = <<>>
     \/ job[j].pc = "done"
  /\ status' = IF job[j].op = "uninstall" THEN "not_installed" ELSE "installed"
  /\ job' = [job EXCEPT ![j] = [pc |-> "gone"]]
  /\ UNCHANGED <<enabled, cluster, req, faults, overlap>>

\* River retries while attempts remain.
Returned(j) ==
  job' = [job EXCEPT ![j] =
            IF @.attempt < MaxAttempts
            THEN [pc |-> "available", op |-> @.op, attempt |-> @.attempt + 1]
            ELSE [pc |-> "gone"]]

\* There is no connection, or a call of the cluster fails: mark the row and
\* return the error.
WorkFails(j) ==
  /\ job[j].pc \in {"available", "work"} /\ Fault
  /\ status' = "failed"
  /\ Returned(j)
  /\ UNCHANGED <<enabled, cluster, req, overlap>>

\* The worker dies, or its last mark fails.
Crash(j) ==
  /\ job[j].pc \in {"work", "done"} /\ Fault
  /\ Returned(j)
  /\ UNCHANGED <<row, cluster, req, overlap>>

-----------------------------------------------------------------------------
(* The cluster *)

BecomesReady ==
  /\ \A p \in Parts : parts[p] # "absent"
  /\ ready' = TRUE
  /\ UNCHANGED <<row, parts, req, job, faults, overlap>>

\* The owner installs or removes Tekton, or its controller goes down.
OwnerChanges ==
  /\ Fault
  /\ \/ /\ \A p \in Parts : parts[p] = "absent"
        /\ parts' = [p \in Parts |-> "owner"] /\ ready' \in BOOLEAN
     \/ /\ \E p \in Parts : parts[p] # "absent"
        /\ parts' = [p \in Parts |-> "absent"] /\ ready' = FALSE
     \/ ready /\ ready' = FALSE /\ UNCHANGED parts
  /\ UNCHANGED <<row, req, job, overlap>>

-----------------------------------------------------------------------------
(* Specification *)

\* A cluster that has just been registered, with a Tekton of its owner's or
\* none.
Init ==
  /\ status = "not_installed" /\ enabled = FALSE
  /\ parts \in {[p \in Parts |-> x] : x \in {"absent", "owner"}}
  /\ ready \in BOOLEAN /\ (ready => parts["controller"] = "owner")
  /\ req = [r \in Requests \cup Pages |-> Idle]
  /\ job = [j \in Jobs |-> [pc |-> "none"]]
  /\ faults = 0 /\ overlap = FALSE

Serve(r) ==
  \/ DetectGroups(r) \/ DetectController(r) \/ DetectFails(r) \/ Reconcile(r)
  \/ EnableRead(r) \/ EnableWrite(r) \/ BeginOperation(r)
  \/ (\E j \in Jobs : Insert(r, j)) \/ MarkQueued(r) \/ RequestFails(r)

Work(j) ==
  \/ Start(j) \/ Apply(j) \/ Delete(j) \/ Sweep(j) \/ Finish(j)
  \/ WorkFails(j) \/ Crash(j)

Next ==
  \/ \E r \in Requests \cup Pages : Serve(r)
  \/ \E r \in Requests, op \in Lifecycle : Begin(r, op)
  \/ \E r \in Pages : Begin(r, "status")
  \/ DisableTekton
  \/ \E j \in Jobs : Work(j)
  \/ BecomesReady \/ OwnerChanges

Spec == Init /\ [][Next]_vars

\* Requests are served, the queue works, and somebody keeps looking at the
\* status page.
Fairness ==
  /\ \A r \in Requests \cup Pages : WF_vars(Serve(r))
  /\ \A j \in Jobs : WF_vars(Work(j))
  /\ WF_vars(\E r \in Pages : Begin(r, "status"))

FairSpec == Spec /\ Fairness

-----------------------------------------------------------------------------
(* Properties *)

\* One operation at a time, nothing failed, and the owner kept out of it.
Undisturbed == ~ overlap /\ faults = 0

\* A cluster that is offered as a runner has Tekton on it once nothing is in
\* progress: the flag is set before the install and cleared before the
\* uninstall, by statements of their own.
EnabledHasTekton ==
  Undisturbed /\ AtRest /\ enabled => \A p \in Parts : parts[p] # "absent"

Present == ready /\ \A p \in Parts : parts[p] # "absent"
Absent == \A p \in Parts : parts[p] = "absent"

\* Once no operation is in progress the row comes to tell what is on the
\* cluster, although status pages write what they detected over what a job
\* wrote, and a request that was queued is marked after its job may have
\* ended: a Tekton that is there is shown installed, and one that is not there
\* is not shown installed or, after undisturbed operations, being installed.
StatusConverges ==
  /\ (<>[](AtRest /\ Present)) => <>[](status = "installed")
  /\ (<>[](AtRest /\ Absent)) => <>[](status # "installed")
  /\ (<>[](AtRest /\ Absent /\ Undisturbed)) => <>[](status \notin {"installing", "upgrading"})
=============================================================================
