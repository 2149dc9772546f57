--------------------------- MODULE ComponentEdits ---------------------------
(***************************************************************************)
(* What edits of workflows do to the state and the variables of a          *)
(* component: saving a workflow (lib/workflows/service.go with the state   *)
(* guard, stateguard.go), moving a component to another application        *)
(* (move.go), setting a component variable (lib/variables/service.go), and *)
(* the runs whose snapshots still name the component while they go on.     *)
(*                                                                         *)
(* An edit reads, statement by statement, what its guards need and then    *)
(* commits one transaction; a run reads, then inserts itself with its      *)
(* snapshot.  Nothing is locked across the reads, so any other request,    *)
(* and any step of a run, may come between two of them.  A state row is    *)
(* keyed by application and component; a step addresses it by the key in   *)
(* its token, the application its run was started in.                      *)
(*                                                                         *)
(* Every component is an OpenTofu component on the managed backend, with   *)
(* one workspace and one variable name.  Names, stages, configuration and  *)
(* the contents of versions are left out; of the requests of a step the    *)
(* lock, a write and the unlock are kept (TofuState has their detail).     *)
(***************************************************************************)
EXTENDS Integers, FiniteSets

CONSTANTS Apps, Components,
          Rows,         \* state row ids; none is used twice, so also a bound
          Runs,         \* workflow runs that may be started
          Editors,      \* edits that may be requested, one each
          NoApp, NoComp, NoRun, NoRow

ASSUME EditsAssumption ==
  /\ NoApp \notin Apps
  /\ NoComp \notin Components
  /\ NoRun \notin Runs
  /\ NoRow \notin Rows

VARIABLES
  home,      \* component -> the application its row names, NoApp if deleted
  variables, \* <<application, component>> keys of the variables table
  rows,      \* row id -> the tofu_states row
  recorded,  \* component -> inventory of its latest recorded state
  runs,      \* run -> where its start or its current step is
  edits,     \* editor -> the request it serves
  strayed    \* components an overlapping edit or run may have split

vars == <<home, variables, rows, recorded, runs, edits, strayed>>

\* holds is "nothing" while CurrentVersion is 0.
StateRow ==
  [is : {"unused", "there", "deleted"}, app : Apps \cup {NoApp},
   comp : Components \cup {NoComp}, lock : Runs \cup {NoRun},
   holds : {"nothing", "empty", "resources"}]

\* "unknown": a record whose inventory was not captured.
Inventories == {"none", "unknown", "empty", "resources"}

Run ==
  [pc : {"new", "checked", "picked", "loaded", "idle", "found", "locked",
         "unlocked", "ended"},
   app : Apps \cup {NoApp}, todo : SUBSET Components,
   comp : Components \cup {NoComp}, row : Rows \cup {NoRow}, alone : BOOLEAN]

Edit ==
  [op : {"none", "save", "move", "variable"},
   pc : {"idle", "stored", "rows", "runs", "target", "confirm", "commit",
         "done"},
   app : Apps \cup {NoApp}, to : Apps \cup {NoApp}, keep : SUBSET Components,
   allow : BOOLEAN, gone : SUBSET Components, found : SUBSET Rows,
   written : SUBSET Components, alone : BOOLEAN]

NoEdit ==
  [op |-> "none", pc |-> "idle", app |-> NoApp, to |-> NoApp, keep |-> {},
   allow |-> FALSE, gone |-> {}, found |-> {}, written |-> {},
   alone |-> TRUE]

Done == [NoEdit EXCEPT !.pc = "done"]

NoStart ==
  [pc |-> "new", app |-> NoApp, todo |-> {}, comp |-> NoComp, row |-> NoRow,
   alone |-> TRUE]

\* Types of the tables and of the requests.
TypeOK ==
  /\ home \in [Components -> Apps \cup {NoApp}]
  /\ variables \subseteq Apps \X Components
  /\ rows \in [Rows -> StateRow]
  /\ recorded \in [Components -> Inventories]
  /\ runs \in [Runs -> Run]
  /\ edits \in [Editors -> Edit]
  /\ strayed \subseteq Components

InApp(a) == {c \in Components : home[c] = a}

\* assertNoRunInFlight: pending, running or parked runs of the application.
Flying(r) == runs[r].pc \in {"idle", "found", "locked", "unlocked"}
InFlight(a) == \E r \in Runs : Flying(r) /\ runs[r].app = a

RowsOf(a, C) ==
  {i \in Rows : rows[i].is = "there" /\ rows[i].app = a /\ rows[i].comp \in C}

\* Mutant: the lock predicate is missing from the statements.
Unlocked_Any(a, C) == RowsOf(a, C)

Unlocked(a, C) == {i \in RowsOf(a, C) : rows[i].lock = NoRun}

-----------------------------------------------------------------------------
(* Who overlaps whom.  A request that has begun to read and not committed  *)
(* is no longer alone once another one commits in one of its applications; *)
(* an edit that begins while a run is in flight is not alone either.       *)

DisturbedEdits(A) ==
  [e \in Editors |->
     [edits[e] EXCEPT !.alone = @ /\ {edits[e].app, edits[e].to} \cap A = {}]]

Starting(r) == runs[r].pc \in {"checked", "picked", "loaded"}

DisturbedRuns(A) ==
  [r \in Runs |->
     [runs[r] EXCEPT !.alone = @ /\ (Starting(r) => runs[r].app \notin A)]]

Refuse(e) ==
  /\ edits' = [edits EXCEPT ![e] = Done]
  /\ UNCHANGED <<home, variables, rows, recorded, runs, strayed>>

Advance(e, edit) ==
  /\ edits' = [edits EXCEPT ![e] = edit]
  /\ UNCHANGED <<home, variables, rows, recorded, runs, strayed>>

-----------------------------------------------------------------------------
(* ReplaceWorkflowWith.  keep is the components of the draft.              *)

\* checkMovedComponents; the guards of the draft itself are left out.
BeginSave(e, a, keep, allow) ==
  /\ edits[e] = NoEdit
  /\ \A c \in keep : home[c] \in {a, NoApp}
  /\ Advance(e, [NoEdit EXCEPT !.op = "save", !.pc = "stored", !.app = a,
                               !.to = a, !.keep = keep, !.allow = allow,
                               !.alone = ~InFlight(a)])

At(e, op, pc) == edits[e].op = op /\ edits[e].pc = pc

\* checkStateDeletions reads the stored components ...
SaveStored(e) ==
  LET gone == InApp(edits[e].app) \ edits[e].keep IN
  /\ At(e, "save", "stored")
  /\ Advance(e, [edits[e] EXCEPT
       !.gone = gone, !.pc = IF gone = {} THEN "commit" ELSE "rows"])

\* ... then the state rows of the ones the draft lacks.  With none to delete
\* it returns before it looks for a run in flight.
SaveRows(e) ==
  LET found == RowsOf(edits[e].app, edits[e].gone) IN
  /\ At(e, "save", "rows")
  /\ \/ /\ \E i \in found : rows[i].lock # NoRun
        /\ Refuse(e)
     \/ /\ \A i \in found : rows[i].lock = NoRun
        /\ Advance(e, [edits[e] EXCEPT
             !.found = found,
             !.written = {rows[i].comp : i \in {j \in found : rows[j].holds # "nothing"}},
             !.pc = IF found = {} THEN "commit" ELSE "runs"])

SaveRuns(e) ==
  /\ At(e, "save", "runs")
  /\ \/ InFlight(edits[e].app) /\ Refuse(e)
     \/ /\ ~InFlight(edits[e].app)
        /\ Advance(e, [edits[e] EXCEPT
             !.pc = IF edits[e].allow THEN "commit" ELSE "confirm"])

\* Mutant: state without a record counts as managing nothing.
Manages_Recorded(c, written) == recorded[c] \notin {"none", "empty"}

\* stateManagesResources
Manages(c, written) ==
  IF recorded[c] # "none" THEN recorded[c] # "empty" ELSE c \in written

SaveConfirm(e) ==
  LET asks == \E i \in edits[e].found : Manages(rows[i].comp, edits[e].written) IN
  /\ At(e, "save", "confirm")
  /\ \/ asks /\ Refuse(e)
     \/ ~asks /\ Advance(e, [edits[e] EXCEPT !.pc = "commit"])

\* deleteStates: what the transaction finds unlocked of the rows to delete.
Deletable(e) ==
  Unlocked(edits[e].app, {rows[i].comp : i \in edits[e].found})

\* The id of a component that lives elsewhere by now is taken.
SaveFits(e) ==
  /\ \A c \in edits[e].keep : home[c] \in {edits[e].app, NoApp}
  /\ Cardinality(Deletable(e)) = Cardinality(edits[e].found)

SaveCommit(e) ==
  LET a    == edits[e].app
      keep == edits[e].keep
  IN /\ At(e, "save", "commit")
     /\ SaveFits(e)
     /\ home' = [c \in Components |->
                   IF c \in keep THEN a
                   ELSE IF home[c] = a THEN NoApp ELSE home[c]]
     /\ variables' = {v \in variables : v[1] = a => v[2] \in keep}
     /\ rows' = [i \in Rows |->
                   IF i \in Deletable(e) THEN [rows[i] EXCEPT !.is = "deleted"]
                   ELSE rows[i]]
     /\ strayed' = IF edits[e].alone THEN strayed
                   ELSE strayed \cup (InApp(a) \ keep)
     /\ edits' = [DisturbedEdits({a}) EXCEPT ![e] = Done]
     /\ runs' = DisturbedRuns({a})
     /\ UNCHANGED recorded

SaveRollback(e) ==
  At(e, "save", "commit") /\ ~SaveFits(e) /\ Refuse(e)

-----------------------------------------------------------------------------
(* MoveComponent to another application.                                   *)

BeginMove(e, a, c, to) ==
  /\ edits[e] = NoEdit
  /\ home[c] = a
  /\ to # a
  /\ Advance(e, [NoEdit EXCEPT !.op = "move", !.pc = "runs", !.app = a,
                               !.to = to, !.gone = {c},
                               !.alone = ~InFlight(a) /\ ~InFlight(to)])

MoveRuns(e) ==
  /\ At(e, "move", "runs")
  /\ \/ InFlight(edits[e].app) /\ Refuse(e)
     \/ ~InFlight(edits[e].app) /\ Advance(e, [edits[e] EXCEPT !.pc = "target"])

MoveTarget(e) ==
  /\ At(e, "move", "target")
  /\ \/ InFlight(edits[e].to) /\ Refuse(e)
     \/ ~InFlight(edits[e].to) /\ Advance(e, [edits[e] EXCEPT !.pc = "rows"])

MoveRows(e) ==
  LET locked == \E i \in RowsOf(edits[e].app, edits[e].gone) : rows[i].lock # NoRun IN
  /\ At(e, "move", "rows")
  /\ \/ locked /\ Refuse(e)
     \/ ~locked /\ Advance(e, [edits[e] EXCEPT !.pc = "commit"])

\* The component is updated by id, wherever it lives by now.  The
\* transaction fails when it is gone, when a unique key of the target is
\* taken, and when a locked row stays behind.
MoveFits(e) ==
  LET a  == edits[e].app
      to == edits[e].to
  IN \A c \in edits[e].gone :
       /\ home[c] # NoApp
       /\ ~ (<<a, c>> \in variables /\ <<to, c>> \in variables)
       /\ RowsOf(a, {c}) = {} \/ RowsOf(to, {c}) = {}
       /\ RowsOf(a, {c}) = Unlocked(a, {c})

\* Mutant: the variables are copied to the target.
MovedVariables_Copied(e) ==
  variables \cup {<<edits[e].to, c>> : c \in
                   {d \in edits[e].gone : <<edits[e].app, d>> \in variables}}

MovedVariables(e) ==
  LET kept(v) == v[1] = edits[e].app => v[2] \notin edits[e].gone IN
  {v \in variables : kept(v)}
    \cup {<<edits[e].to, v[2]>> : v \in {w \in variables : ~kept(w)}}

MoveCommit(e) ==
  LET a    == edits[e].app
      to   == edits[e].to
      gone == edits[e].gone
  IN /\ At(e, "move", "commit")
     /\ MoveFits(e)
     /\ home' = [c \in Components |-> IF c \in gone THEN to ELSE home[c]]
     /\ variables' = MovedVariables(e)
     /\ rows' = [i \in Rows |->
                   IF i \in Unlocked(a, gone) THEN [rows[i] EXCEPT !.app = to]
                   ELSE rows[i]]
     /\ strayed' = IF edits[e].alone THEN strayed ELSE strayed \cup gone
     /\ edits' = [DisturbedEdits({a, to}) EXCEPT ![e] = Done]
     /\ runs' = DisturbedRuns({a, to})
     /\ UNCHANGED recorded

MoveRollback(e) ==
  At(e, "move", "commit") /\ ~MoveFits(e) /\ Refuse(e)

-----------------------------------------------------------------------------
(* variables.Create for a component variable.                              *)

BeginVariable(e, a, c) ==
  /\ edits[e] = NoEdit
  /\ home[c] = a
  /\ Advance(e, [NoEdit EXCEPT !.op = "variable", !.pc = "commit", !.app = a,
                               !.to = a, !.gone = {c}])

\* The unique index makes the second insert of a key change nothing.
InsertVariable(e) ==
  /\ At(e, "variable", "commit")
  /\ variables' = variables \cup {<<edits[e].app, c>> : c \in edits[e].gone}
  /\ strayed' = IF edits[e].alone THEN strayed ELSE strayed \cup edits[e].gone
  /\ edits' = [edits EXCEPT ![e] = Done]
  /\ UNCHANGED <<home, rows, recorded, runs>>

-----------------------------------------------------------------------------
(* Starting a run: beginRun loads the workflow after the in-flight check,  *)
(* BeginComponentRun and BeginStateOp read their component before it.      *)

Begins(r, run) ==
  /\ runs' = [runs EXCEPT ![r] = run]
  /\ UNCHANGED <<home, variables, rows, recorded, edits, strayed>>

RunCheck(r, a) ==
  /\ runs[r] = NoStart
  /\ ~InFlight(a)
  /\ Begins(r, [NoStart EXCEPT !.pc = "checked", !.app = a])

RunLoad(r) ==
  /\ runs[r].pc = "checked"
  /\ Begins(r, [runs[r] EXCEPT !.pc = "loaded", !.todo = InApp(runs[r].app)])

ScopedRead(r, a, c) ==
  /\ runs[r] = NoStart
  /\ home[c] = a
  /\ Begins(r, [NoStart EXCEPT !.pc = "picked", !.app = a, !.todo = {c}])

ScopedCheck(r) ==
  /\ runs[r].pc = "picked"
  /\ Begins(r, IF InFlight(runs[r].app) THEN NoStart
               ELSE [runs[r] EXCEPT !.pc = "loaded"])

\* createRun: the snapshot names the components that were read.
RunCreate(r) ==
  LET a == runs[r].app IN
  /\ runs[r].pc = "loaded"
  /\ runs' = [DisturbedRuns({a}) EXCEPT ![r] = [runs[r] EXCEPT !.pc = "idle"]]
  /\ edits' = DisturbedEdits({a})
  /\ strayed' = IF runs[r].alone THEN strayed ELSE strayed \cup runs[r].todo
  /\ UNCHANGED <<home, variables, rows, recorded>>

-----------------------------------------------------------------------------
(* The steps of a run, one component after another.                        *)

Settled(r) == [runs[r] EXCEPT !.pc = "idle", !.comp = NoComp, !.row = NoRow]

Mine(r) == RowsOf(runs[r].app, {runs[r].comp})

\* ensureState of a lock request: the row of the token's key, made if absent.
StepFind(r, c, i) ==
  LET there == RowsOf(runs[r].app, {c}) IN
  /\ runs[r].pc = "idle"
  /\ c \in runs[r].todo
  /\ \/ i \in there /\ UNCHANGED rows
     \/ /\ there = {} /\ rows[i].is = "unused"
        /\ rows' = [rows EXCEPT ![i] = [is |-> "there", app |-> runs[r].app, comp |-> c,
                                        lock |-> NoRun, holds |-> "nothing"]]
  /\ runs' = [runs EXCEPT ![r] =
                 [runs[r] EXCEPT !.pc = "found", !.comp = c, !.row = i, !.todo = @ \ {c}]]
  /\ UNCHANGED <<home, variables, recorded, edits, strayed>>

\* Lock updates the row it has found by its id.
StepLock(r) ==
  LET i    == runs[r].row
      free == rows[i].is = "there" /\ rows[i].lock = NoRun
  IN /\ runs[r].pc = "found"
     /\ \/ /\ free
           /\ rows' = [rows EXCEPT ![i].lock = r]
           /\ runs' = [runs EXCEPT ![r].pc = "locked"]
        \/ /\ ~free
           /\ runs' = [runs EXCEPT ![r] = Settled(r)]
           /\ UNCHANGED rows
     /\ UNCHANGED <<home, variables, recorded, edits, strayed>>

\* Write needs the row under the token's key and the step's own lock on it.
StepWrite(r, content) ==
  /\ runs[r].pc = "locked"
  /\ \E i \in Mine(r) :
       /\ rows[i].lock = r
       /\ rows' = [rows EXCEPT ![i].holds = content]
  /\ UNCHANGED <<home, variables, recorded, runs, edits, strayed>>

\* Unlock without a row under the key succeeds.
StepUnlock(r) ==
  /\ runs[r].pc = "locked"
  /\ rows' = [i \in Rows |->
                IF i \in Mine(r) /\ rows[i].lock = r
                  THEN [rows[i] EXCEPT !.lock = NoRun] ELSE rows[i]]
  /\ runs' = [runs EXCEPT ![r].pc = "unlocked"]
  /\ UNCHANGED <<home, variables, recorded, edits, strayed>>

\* What a succeeded step leaves as the latest record of the component:
\* nothing new (a plan; captureTofuOutputs swallows its errors), the inventory
\* of the state it wrote, or, when only the outputs were captured, the
\* previous inventory, which LatestComponentState finds only while the
\* component is in this application.
Captured(r, i) ==
  LET c     == runs[r].comp
      prior == recorded[c]
      carry == IF prior # "none" /\ home[c] = runs[r].app THEN prior ELSE "unknown"
  IN {prior} \cup (IF rows[i].holds = "nothing" THEN {} ELSE {rows[i].holds, carry})

StepSucceeds(r) ==
  /\ runs[r].pc = "unlocked"
  /\ \E i \in Mine(r) : \E inventory \in Captured(r, i) :
       recorded' = [recorded EXCEPT ![runs[r].comp] = inventory]
  /\ runs' = [runs EXCEPT ![r] = Settled(r)]
  /\ UNCHANGED <<home, variables, rows, edits, strayed>>

\* The step fails, or its pod dies, perhaps holding the lock.
StepFails(r) ==
  /\ runs[r].pc \in {"locked", "unlocked"}
  /\ runs' = [runs EXCEPT ![r] = Settled(r)]
  /\ UNCHANGED <<home, variables, rows, recorded, edits, strayed>>

\* The step of a force-unlock state operation releases anybody's lock.
ForceUnlock(r, c) ==
  /\ runs[r].pc = "idle"
  /\ c \in runs[r].todo
  /\ rows' = [i \in Rows |->
                IF i \in RowsOf(runs[r].app, {c})
                  THEN [rows[i] EXCEPT !.lock = NoRun] ELSE rows[i]]
  /\ runs' = [runs EXCEPT ![r].todo = @ \ {c}]
  /\ UNCHANGED <<home, variables, recorded, edits, strayed>>

RunEnds(r) ==
  /\ runs[r].pc = "idle"
  /\ runs' = [runs EXCEPT ![r].pc = "ended"]
  /\ UNCHANGED <<home, variables, rows, recorded, edits, strayed>>

-----------------------------------------------------------------------------
Init ==
  /\ home \in [Components -> Apps \cup {NoApp}]
  /\ variables = {}
  /\ rows = [i \in Rows |-> [is |-> "unused", app |-> NoApp, comp |-> NoComp,
                             lock |-> NoRun, holds |-> "nothing"]]
  /\ recorded = [c \in Components |-> "none"]
  /\ runs = [r \in Runs |-> NoStart]
  /\ edits = [e \in Editors |-> NoEdit]
  /\ strayed = {}

Saving(e) ==
  \/ \E a \in Apps, keep \in SUBSET Components, allow \in BOOLEAN :
       BeginSave(e, a, keep, allow)
  \/ SaveStored(e) \/ SaveRows(e) \/ SaveRuns(e) \/ SaveConfirm(e)
  \/ SaveCommit(e) \/ SaveRollback(e)

Moving(e) ==
  \/ \E a, to \in Apps, c \in Components : BeginMove(e, a, c, to)
  \/ MoveRuns(e) \/ MoveTarget(e) \/ MoveRows(e)
  \/ MoveCommit(e) \/ MoveRollback(e)

SettingVariable(e) ==
  \/ \E a \in Apps, c \in Components : BeginVariable(e, a, c)
  \/ InsertVariable(e)

StartingRun(r) ==
  \/ \E a \in Apps : RunCheck(r, a)
  \/ RunLoad(r)
  \/ \E a \in Apps, c \in Components : ScopedRead(r, a, c)
  \/ ScopedCheck(r) \/ RunCreate(r)

Stepping(r) ==
  \/ \E c \in Components, i \in Rows : StepFind(r, c, i)
  \/ StepLock(r)
  \/ \E content \in {"empty", "resources"} : StepWrite(r, content)
  \/ StepUnlock(r) \/ StepSucceeds(r) \/ StepFails(r)
  \/ \E c \in Components : ForceUnlock(r, c)
  \/ RunEnds(r)

Next ==
  \/ \E e \in Editors : Saving(e) \/ Moving(e) \/ SettingVariable(e)
  \/ \E r \in Runs : StartingRun(r) \/ Stepping(r)

Spec == Init /\ [][Next]_vars

-----------------------------------------------------------------------------
(* Properties.                                                             *)

\* The managed state and the variables of a component are under the
\* application it lives in, where its next run looks for them, unless an
\* edit or a run that others overlapped has touched the component
\* (MoveComponent re-keys both, ReplaceWorkflowWith deletes both).
StateStaysWithComponent ==
  /\ \A i \in Rows :
       rows[i].is = "there" =>
         home[rows[i].comp] = rows[i].app \/ rows[i].comp \in strayed
  /\ \A v \in variables : home[v[2]] = v[1] \/ v[2] \in strayed

\* A locked row is neither deleted nor moved, although both guards look for
\* locks before the transaction that acts on what they saw.
LockedStateStays ==
  [][\A i \in Rows :
       rows[i].is = "there" /\ rows[i].lock # NoRun =>
         rows'[i].is = "there" /\ rows'[i].app = rows[i].app]_vars

\* The save of e deletes the row, which tracks resources, and nothing that
\* overlapped it is to blame.
LosesState(i, e) ==
  /\ rows[i].is = "there" /\ rows'[i].is = "deleted"
  /\ rows[i].holds = "resources" /\ rows[i].comp \notin strayed
  /\ edits[e].pc = "commit" /\ edits'[e] = Done
  /\ edits[e].alone

\* A save that nothing overlaps deletes state that tracks resources only when
\* the caller confirmed it or the latest record of the component says that
\* nothing is left (stateManagesResources).
DeletionTrustsTheRecord ==
  [][\A i \in Rows, e \in Editors :
       LosesState(i, e) => edits[e].allow \/ recorded[rows[i].comp] = "empty"]_vars

\* Removing a component that still manages resources needs the caller's
\* confirmation (what the comment of checkStateDeletions says), even when
\* nothing overlaps the save.
DeletionIsConfirmed ==
  [][\A i \in Rows, e \in Editors : LosesState(i, e) => edits[e].allow]_vars
=============================================================================
