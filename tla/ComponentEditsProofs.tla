------------------------ MODULE ComponentEditsProofs ------------------------
(***************************************************************************)
(* Theorems about ComponentEdits, for any number of applications,          *)
(* components, runs and edits.                                             *)
(***************************************************************************)
EXTENDS ComponentEdits, TLAPS

-----------------------------------------------------------------------------
(* The inductive invariant *)

AtHome(c, a) == home[c] = a \/ c \in strayed

\* Every row in use names an application and a component.
RowInv ==
  \A i \in Rows : /\ rows[i].is = "there" => rows[i].app \in Apps
                  /\ rows[i].is # "unused" => rows[i].comp \in Components

\* A run works on components that are where its snapshot says, unless they
\* have strayed: one in flight by what it has been admitted with, one that is
\* starting as long as it is alone.
GoodRun(x) ==
  /\ x.pc # "new" => x.app \in Apps
  /\ (x.pc \in {"picked", "loaded"} /\ x.alone)
       \/ x.pc \in {"idle", "found", "locked", "unlocked"} =>
     \A c \in x.todo : AtHome(c, x.app)
  /\ x.pc \in {"found", "locked", "unlocked"} =>
       x.comp \in Components /\ AtHome(x.comp, x.app)
  /\ x.pc = "found" => /\ x.row \in Rows
                       /\ rows[x.row].is # "unused"
                       /\ rows[x.row].comp = x.comp

\* The rows a save that is alone is about to delete: it has found them all,
\* nobody has locked or written them since, and, past the confirmation, the
\* record speaks for them.
RowsAsRead(x) ==
  \A i \in Rows :
    rows[i].is = "there" /\ rows[i].comp \in x.gone /\ rows[i].comp \notin strayed =>
      /\ i \in x.found
      /\ rows[i].lock = NoRun
      /\ rows[i].holds # "nothing" => rows[i].comp \in x.written
      /\ x.pc = "commit" /\ rows[i].holds = "resources" =>
           x.allow \/ recorded[rows[i].comp] = "empty"

\* What an edit that is alone has read is still so.
GoodEdit(x) ==
  /\ x.op # "none" => x.app \in Apps /\ x.to \in Apps
  /\ x.op = "save" => x.to = x.app
  /\ x.op = "save" /\ x.pc = "stored" => x.found = {}
  /\ \A j \in x.found : rows[j].is # "unused" /\ rows[j].comp \in x.gone
  /\ x.alone /\ x.op \in {"save", "move"} => ~InFlight(x.app) /\ ~InFlight(x.to)
  /\ x.alone /\ x.op \in {"move", "variable"} => \A c \in x.gone : AtHome(c, x.app)
  /\ x.alone /\ x.op = "save" /\ x.pc # "stored" =>
       \A c \in Components \ strayed : c \in x.gone <=> home[c] = x.app /\ c \notin x.keep
  /\ x.alone /\ x.op = "save" /\ x.pc \in {"runs", "confirm", "commit"} => RowsAsRead(x)

RunsInv == \A r \in Runs : GoodRun(runs[r])
EditsInv == \A e \in Editors : GoodEdit(edits[e])

IInv == TypeOK /\ RowInv /\ StateStaysWithComponent /\ RunsInv /\ EditsInv

-----------------------------------------------------------------------------
(* Steps that only move one edit or one starting run *)

LEMMA NoEditType == NoEdit \in Edit /\ Done \in Edit /\ GoodEdit(NoEdit) /\ GoodEdit(Done)
BY DEF NoEdit, Done, Edit, GoodEdit

LEMMA EditMoves ==
  ASSUME IInv, NEW e \in Editors, NEW x \in Edit, GoodEdit(x), Advance(e, x)
  PROVE  IInv'
<1>1. TypeOK'
  BY DEF IInv, TypeOK, Advance
<1>2. RowInv' /\ StateStaysWithComponent' /\ RunsInv'
  BY DEF IInv, RowInv, StateStaysWithComponent, RunsInv, GoodRun, AtHome, Advance
<1>3. ASSUME NEW y, GoodEdit(y) PROVE GoodEdit(y)'
  BY <1>3 DEF Advance, GoodEdit, RowsAsRead, AtHome, InFlight, Flying
<1>4. \A f \in Editors : GoodEdit(edits'[f])
  BY DEF IInv, EditsInv, TypeOK, Advance
<1>5. EditsInv'
  BY <1>3, <1>4 DEF EditsInv
<1> QED
  BY <1>1, <1>2, <1>5 DEF IInv

LEMMA Refused ==
  ASSUME IInv, NEW e \in Editors, Refuse(e)
  PROVE  IInv'
<1>1. Advance(e, Done)
  BY DEF Refuse, Advance
<1> QED
  BY <1>1, NoEditType, EditMoves

LEMMA RunBegins ==
  ASSUME IInv, NEW r \in Runs, NEW x \in Run, GoodRun(x), Begins(r, x),
         x.pc \in {"new", "checked", "picked", "loaded"}, ~ Flying(r)
  PROVE  IInv'
<1>1. TypeOK'
  BY DEF IInv, TypeOK, Begins
<1>2. RowInv' /\ StateStaysWithComponent'
  BY DEF IInv, RowInv, StateStaysWithComponent, Begins
<1>3. ASSUME NEW y, GoodRun(y) PROVE GoodRun(y)'
  BY <1>3 DEF Begins, GoodRun, AtHome
<1>4. RunsInv'
  BY <1>3 DEF IInv, RunsInv, TypeOK, Begins
<1>5. \A s \in Runs : Flying(s)' => Flying(s) /\ runs'[s].app = runs[s].app
  BY DEF IInv, TypeOK, Begins, Flying
<1>6. \A a : InFlight(a)' => InFlight(a)
  BY <1>5 DEF InFlight
<1>7. EditsInv'
  BY <1>6 DEF IInv, EditsInv, GoodEdit, RowsAsRead, AtHome, Begins
<1> QED
  BY <1>1, <1>2, <1>4, <1>7 DEF IInv

-----------------------------------------------------------------------------
(* The reads of a save *)

LEMMA SaveReads ==
  ASSUME IInv, NEW e \in Editors,
         \/ \E a \in Apps, keep \in SUBSET Components, allow \in BOOLEAN :
              BeginSave(e, a, keep, allow)
         \/ SaveStored(e) \/ SaveRows(e) \/ SaveRuns(e) \/ SaveConfirm(e)
         \/ SaveRollback(e)
  PROVE  IInv'
<1> USE DEF IInv
<1> DEFINE x == edits[e]
<1>0. x \in Edit /\ GoodEdit(x)
  BY DEF TypeOK, EditsInv
<1>1. ASSUME NEW a \in Apps, NEW keep \in SUBSET Components, NEW allow \in BOOLEAN,
             BeginSave(e, a, keep, allow)
      PROVE  IInv'
  <2> DEFINE y == [NoEdit EXCEPT !.op = "save", !.pc = "stored", !.app = a,
                                 !.to = a, !.keep = keep, !.allow = allow,
                                 !.alone = ~InFlight(a)]
  <2>1. y \in Edit
    BY DEF NoEdit, Edit
  <2>2. GoodEdit(y)
    BY DEF GoodEdit, NoEdit
  <2> QED
    BY <1>1, <2>1, <2>2, EditMoves DEF BeginSave
<1>2. CASE SaveStored(e)
  <2> DEFINE gone == InApp(x.app) \ x.keep
             y == [x EXCEPT !.gone = gone, !.pc = IF gone = {} THEN "commit" ELSE "rows"]
  <2>1. y \in Edit
    BY <1>0 DEF Edit, InApp
  <2>2. GoodEdit(y)
    BY <1>0, <1>2 DEF Edit, GoodEdit, InApp, RowsAsRead, SaveStored, At
  <2> QED
    BY <1>2, <2>1, <2>2, EditMoves DEF SaveStored
<1>3. CASE SaveRows(e)
  <2> DEFINE found == RowsOf(x.app, x.gone)
             written == {rows[i].comp : i \in {j \in found : rows[j].holds # "nothing"}}
             y == [x EXCEPT !.found = found, !.written = written,
                            !.pc = IF found = {} THEN "commit" ELSE "runs"]
  <2>1. CASE Refuse(e)
    BY <2>1, Refused
  <2>2. CASE Advance(e, y) /\ \A i \in found : rows[i].lock = NoRun
    <3>1. found \in SUBSET Rows /\ written \in SUBSET Components
      BY DEF RowsOf, RowInv
    <3>2. y \in Edit
      BY <1>0, <3>1 DEF Edit
    <3>3. ASSUME x.alone, NEW i \in Rows, rows[i].is = "there", rows[i].comp \in x.gone,
                 rows[i].comp \notin strayed
          PROVE  i \in found
      BY <1>0, <1>3, <3>3 DEF RowsOf, RowInv, GoodEdit, StateStaysWithComponent, SaveRows, At
    <3>4. x.alone => RowsAsRead(y)
      BY <1>0, <2>2, <3>3 DEF RowsAsRead, Edit
    <3>a. \A j \in found : rows[j].is # "unused" /\ rows[j].comp \in x.gone
      BY DEF RowsOf
    <3>5. GoodEdit(y)
      BY <1>0, <1>3, <3>4, <3>a DEF Edit, GoodEdit, SaveRows, At
    <3> QED
      BY <2>2, <3>2, <3>5, EditMoves
  <2> QED
    BY <1>3, <2>1, <2>2 DEF SaveRows
<1>4. CASE SaveRuns(e)
  <2> DEFINE y == [x EXCEPT !.pc = IF x.allow THEN "commit" ELSE "confirm"]
  <2>1. y \in Edit
    BY <1>0 DEF Edit
  <2>2. GoodEdit(y)
    BY <1>0, <1>4 DEF Edit, GoodEdit, RowsAsRead, SaveRuns, At
  <2> QED
    BY <1>4, <2>1, <2>2, EditMoves, Refused DEF SaveRuns
<1>5. CASE SaveConfirm(e)
  <2> DEFINE y == [x EXCEPT !.pc = "commit"]
             asks == \E i \in x.found : Manages(rows[i].comp, x.written)
  <2>1. y \in Edit
    BY <1>0 DEF Edit
  <2>2. ASSUME ~asks PROVE GoodEdit(y)
    <3>1. x.alone => RowsAsRead(x)
      BY <1>0, <1>5 DEF GoodEdit, SaveConfirm, At
    <3>2. x.alone => RowsAsRead(y)
      BY <1>0, <2>2, <3>1 DEF RowsAsRead, Edit, Manages
    <3> QED
      BY <1>0, <1>5, <3>2 DEF Edit, GoodEdit, SaveConfirm, At
  <2> QED
    BY <1>5, <2>1, <2>2, EditMoves, Refused DEF SaveConfirm
<1>6. CASE SaveRollback(e)
  BY <1>6, Refused DEF SaveRollback
<1> QED
  BY <1>1, <1>2, <1>3, <1>4, <1>5, <1>6

-----------------------------------------------------------------------------
(* The reads of a move, and of a variable *)

LEMMA OtherReads ==
  ASSUME IInv, NEW e \in Editors,
         \/ \E a, to \in Apps, c \in Components : BeginMove(e, a, c, to)
         \/ MoveRuns(e) \/ MoveTarget(e) \/ MoveRows(e) \/ MoveRollback(e)
         \/ \E a \in Apps, c \in Components : BeginVariable(e, a, c)
  PROVE  IInv'
<1> USE DEF IInv
<1> DEFINE x == edits[e]
<1>0. x \in Edit /\ GoodEdit(x)
  BY DEF TypeOK, EditsInv
<1>1. ASSUME NEW a \in Apps, NEW to \in Apps, NEW c \in Components, BeginMove(e, a, c, to)
      PROVE  IInv'
  <2> DEFINE y == [NoEdit EXCEPT !.op = "move", !.pc = "runs", !.app = a,
                                 !.to = to, !.gone = {c},
                                 !.alone = ~InFlight(a) /\ ~InFlight(to)]
  <2>1. y \in Edit
    BY DEF NoEdit, Edit
  <2>2. GoodEdit(y)
    BY <1>1 DEF GoodEdit, NoEdit, BeginMove, AtHome
  <2> QED
    BY <1>1, <2>1, <2>2, EditMoves DEF BeginMove
<1>2. ASSUME NEW a \in Apps, NEW c \in Components, BeginVariable(e, a, c)
      PROVE  IInv'
  <2> DEFINE y == [NoEdit EXCEPT !.op = "variable", !.pc = "commit", !.app = a,
                                 !.to = a, !.gone = {c}]
  <2>1. y \in Edit
    BY DEF NoEdit, Edit
  <2>2. GoodEdit(y)
    BY <1>2 DEF GoodEdit, NoEdit, BeginVariable, AtHome
  <2> QED
    BY <1>2, <2>1, <2>2, EditMoves DEF BeginVariable
<1>3. ASSUME NEW pc \in {"target", "rows", "commit"}, x.op = "move"
      PROVE  /\ [x EXCEPT !.pc = pc] \in Edit
             /\ GoodEdit([x EXCEPT !.pc = pc])
  BY <1>0, <1>3 DEF Edit, GoodEdit
<1>4. CASE MoveRuns(e)
  BY <1>3, <1>4, EditMoves, Refused DEF MoveRuns, At
<1>5. CASE MoveTarget(e)
  BY <1>3, <1>5, EditMoves, Refused DEF MoveTarget, At
<1>6. CASE MoveRows(e)
  BY <1>3, <1>6, EditMoves, Refused DEF MoveRows, At
<1>7. CASE MoveRollback(e)
  BY <1>7, Refused DEF MoveRollback
<1> QED
  BY <1>1, <1>2, <1>4, <1>5, <1>6, <1>7

-----------------------------------------------------------------------------
(* Starting a run *)

LEMMA RunStarts ==
  ASSUME IInv, NEW r \in Runs,
         \/ \E a \in Apps : RunCheck(r, a)
         \/ RunLoad(r)
         \/ \E a \in Apps, c \in Components : ScopedRead(r, a, c)
         \/ ScopedCheck(r)
  PROVE  IInv'
<1> USE DEF IInv
<1> DEFINE x == runs[r]
<1>0. x \in Run /\ GoodRun(x)
  BY DEF TypeOK, RunsInv
<1>1. NoStart \in Run /\ GoodRun(NoStart) /\ NoStart.pc = "new"
  BY DEF NoStart, Run, GoodRun
<1>2. ASSUME NEW a \in Apps, RunCheck(r, a) PROVE IInv'
  <2> DEFINE y == [NoStart EXCEPT !.pc = "checked", !.app = a]
  <2>1. y \in Run /\ GoodRun(y) /\ y.pc = "checked"
    BY DEF NoStart, Run, GoodRun
  <2>2. Begins(r, y) /\ ~Flying(r)
    BY <1>2, <1>1 DEF RunCheck, Flying
  <2> HIDE DEF y
  <2> QED
    BY <2>1, <2>2, RunBegins
<1>3. ASSUME RunLoad(r) PROVE IInv'
  <2> DEFINE y == [x EXCEPT !.pc = "loaded", !.todo = InApp(x.app)]
  <2>1. y \in Run /\ GoodRun(y) /\ y.pc = "loaded"
    BY <1>0, <1>3 DEF Run, GoodRun, InApp, AtHome, RunLoad
  <2>2. Begins(r, y) /\ ~Flying(r)
    BY <1>3 DEF RunLoad, Flying
  <2> HIDE DEF y
  <2> QED
    BY <2>1, <2>2, RunBegins
<1>4. ASSUME NEW a \in Apps, NEW c \in Components, ScopedRead(r, a, c) PROVE IInv'
  <2> DEFINE y == [NoStart EXCEPT !.pc = "picked", !.app = a, !.todo = {c}]
  <2>1. y \in Run /\ GoodRun(y) /\ y.pc = "picked"
    BY <1>4 DEF NoStart, Run, GoodRun, AtHome, ScopedRead
  <2>2. Begins(r, y) /\ ~Flying(r)
    BY <1>4, <1>1 DEF ScopedRead, Flying
  <2> HIDE DEF y
  <2> QED
    BY <2>1, <2>2, RunBegins
<1>5. ASSUME ScopedCheck(r) PROVE IInv'
  <2> DEFINE y == [x EXCEPT !.pc = "loaded"]
  <2>1. y \in Run /\ GoodRun(y) /\ y.pc = "loaded"
    BY <1>0, <1>5 DEF Run, GoodRun, ScopedCheck
  <2>2. (Begins(r, y) \/ Begins(r, NoStart)) /\ ~Flying(r)
    BY <1>5 DEF ScopedCheck, Flying
  <2> HIDE DEF y
  <2> QED
    BY <1>1, <2>1, <2>2, RunBegins
<1> QED
  BY <1>2, <1>3, <1>4, <1>5

-----------------------------------------------------------------------------
(* The steps of a run in flight *)

\* What a step of run r may do: it ends in flight or ends the run, and
\* touches rows of its own application, or of components that have strayed,
\* and the record of a component that is at home with it.
StepOf(r) ==
  /\ Flying(r)
  /\ UNCHANGED <<home, variables, edits, strayed>>
  /\ \A s \in Runs \ {r} : runs'[s] = runs[s]
  /\ runs'[r].app = runs[r].app
  /\ \A i \in Rows :
       rows'[i] = rows[i]
       \/ /\ rows'[i].is = "there" \/ (rows'[i].is = rows[i].is /\ rows[i].is # "unused")
          /\ rows'[i].is = "there" => rows'[i].app \in Apps
          /\ rows[i].is # "unused" => rows'[i].comp = rows[i].comp
          /\ rows'[i].comp \in Components
          /\ rows[i].is = "there" => rows'[i].app = rows[i].app
          /\ AtHome(rows'[i].comp, rows'[i].app)
          /\ rows'[i].app = runs[r].app \/ rows'[i].comp \in strayed
  /\ \A c \in Components : recorded'[c] = recorded[c] \/ AtHome(c, runs[r].app)

LEMMA StepKeeps ==
  ASSUME IInv, TypeOK', NEW r \in Runs, StepOf(r), GoodRun(runs[r])', runs[r].app \in Apps
  PROVE  IInv'
<1> USE DEF IInv
<1>1. RowInv'
  BY DEF RowInv, StepOf
<1>2. StateStaysWithComponent'
  BY DEF StateStaysWithComponent, StepOf, AtHome
<1>3. RunsInv'
  <2>1. ASSUME NEW s \in Runs \ {r} PROVE GoodRun(runs[s])'
    <3>1. runs'[s] = runs[s] /\ GoodRun(runs[s])
      BY DEF StepOf, RunsInv
    <3> QED
      BY <3>1 DEF GoodRun, StepOf, AtHome
  <2> QED
    BY <2>1 DEF RunsInv
<1>4. \A a : InFlight(a)' => InFlight(a)
  BY DEF InFlight, Flying, StepOf
<1>5. ASSUME NEW e \in Editors PROVE GoodEdit(edits[e])'
  <2> DEFINE x == edits[e]
  <2>1. edits'[e] = x /\ GoodEdit(x) /\ x \in Edit
    BY DEF StepOf, EditsInv, TypeOK
  <2>2. ASSUME x.alone, x.op = "save", x.pc \in {"runs", "confirm", "commit"}
        PROVE  RowsAsRead(x)'
    <3>1. x.app # runs[r].app
      BY <2>1, <2>2 DEF GoodEdit, InFlight, StepOf
    <3>2. ASSUME NEW i \in Rows, rows'[i].is = "there", rows'[i].comp \in x.gone,
                 rows'[i].comp \notin strayed
          PROVE  rows'[i] = rows[i] /\ recorded'[rows[i].comp] = recorded[rows[i].comp]
      <4>1. rows'[i].comp \in Components /\ home[rows'[i].comp] = x.app
        BY <2>1, <2>2, <3>2, <1>1 DEF GoodEdit, RowInv
      <4>2. rows'[i].app = x.app
        BY <1>2, <3>2, <4>1 DEF StateStaysWithComponent, StepOf
      <4> QED
        BY <3>1, <3>2, <4>1, <4>2 DEF StepOf, AtHome
    <3>3. RowsAsRead(x)
      BY <2>1, <2>2 DEF GoodEdit
    <3> QED
      BY <3>2, <3>3 DEF RowsAsRead, StepOf
  <2>3. \A j \in x.found : rows'[j].is # "unused" /\ rows'[j].comp \in x.gone
    BY <2>1 DEF GoodEdit, StepOf, Edit
  <2> QED
    BY <1>4, <2>1, <2>2, <2>3 DEF GoodEdit, AtHome, StepOf
<1> QED
  BY <1>1, <1>2, <1>3, <1>5 DEF EditsInv

LEMMA RunSteps ==
  ASSUME IInv, NEW r \in Runs, Stepping(r)
  PROVE  IInv'
<1> USE DEF IInv
<1> DEFINE x == runs[r]
<1>0. x \in Run /\ GoodRun(x) /\ rows \in [Rows -> StateRow] /\ runs \in [Runs -> Run]
  BY DEF TypeOK, RunsInv
<1>00. Settled(r) \in Run /\ Settled(r).pc = "idle" /\ Settled(r).app = x.app
       /\ Settled(r).todo = x.todo
  BY <1>0 DEF Settled, Run
<1>1. ASSUME NEW c \in Components, NEW i \in Rows, StepFind(r, c, i) PROVE IInv'
  <2>1. Flying(r) /\ x.app \in Apps /\ AtHome(c, x.app)
    BY <1>0, <1>1 DEF StepFind, Flying, GoodRun
  <2> DEFINE y == [x EXCEPT !.pc = "found", !.comp = c, !.row = i, !.todo = @ \ {c}]
             n == [is |-> "there", app |-> x.app, comp |-> c, lock |-> NoRun,
                   holds |-> "nothing"]
  <2>a. runs' = [runs EXCEPT ![r] = y]
    BY <1>1, Zenon DEF StepFind
  <2>b. y \in Run /\ y.pc = "found" /\ y.app = x.app /\ y.comp = c /\ y.row = i
        /\ y.todo = x.todo \ {c}
    BY <1>0 DEF Run
  <2> HIDE DEF y
  <2>2. runs' = [runs EXCEPT ![r] = y] /\ y \in Run /\ y.app = x.app
    BY <2>a, <2>b
  <2>3. n \in StateRow
    BY <2>1 DEF StateRow
  <2>4. \/ rows' = rows /\ i \in RowsOf(x.app, {c})
        \/ rows' = [rows EXCEPT ![i] = n] /\ rows[i].is = "unused"
    BY <1>1 DEF StepFind
  <2>5. TypeOK'
    BY <1>0, <1>1, <2>2, <2>3, <2>4 DEF TypeOK, StepFind
  <2>6. StepOf(r)
    BY <1>0, <1>1, <2>1, <2>2, <2>4 DEF StepOf, StepFind, AtHome
  <2>7. rows'[i].comp = c /\ rows'[i].is = "there"
    BY <1>0, <2>4 DEF RowsOf
  <2>8. GoodRun(runs[r])'
    <3>1. (\A d \in x.todo : AtHome(d, x.app)) /\ home' = home /\ strayed' = strayed
      BY <1>0, <1>1 DEF GoodRun, StepFind
    <3> QED
      BY <1>0, <2>1, <2>2, <2>b, <2>7, <3>1 DEF GoodRun, AtHome
  <2> QED
    BY <2>1, <2>5, <2>6, <2>8, StepKeeps
<1>2. ASSUME StepLock(r) PROVE IInv'
  <2> DEFINE i == x.row
  <2>1. Flying(r) /\ x.app \in Apps /\ i \in Rows /\ rows[i].comp = x.comp
        /\ AtHome(x.comp, x.app) /\ x.comp \in Components
    BY <1>0, <1>2 DEF StepLock, Flying, GoodRun
  <2>2. CASE rows[i].is = "there" /\ rows' = [rows EXCEPT ![i].lock = r]
             /\ runs' = [runs EXCEPT ![r].pc = "locked"]
    <3>a. [rows[i] EXCEPT !.lock = r] \in StateRow
      BY <1>0, <2>1 DEF StateRow
    <3>b. [x EXCEPT !.pc = "locked"] \in Run
      BY <1>0 DEF Run
    <3>1. TypeOK'
      BY <1>0, <1>2, <2>1, <2>2, <3>a, <3>b DEF TypeOK, StepLock
    <3>2. AtHome(rows[i].comp, rows[i].app) /\ rows[i].app \in Apps
      BY <2>1, <2>2 DEF StateStaysWithComponent, AtHome, RowInv
    <3>3. StepOf(r)
      BY <1>0, <1>2, <2>1, <2>2, <3>2 DEF StepOf, StepLock, AtHome, StateRow, Run
    <3>4. GoodRun(runs[r])'
      BY <1>0, <1>2, <2>1, <2>2 DEF GoodRun, AtHome, StepLock, Run
    <3> QED
      BY <2>1, <3>1, <3>3, <3>4, StepKeeps
  <2>3. CASE rows' = rows /\ runs' = [runs EXCEPT ![r] = Settled(r)]
    <3>1. TypeOK'
      BY <1>0, <1>00, <1>2, <2>3 DEF TypeOK, StepLock
    <3>3. StepOf(r)
      BY <1>0, <1>00, <1>2, <2>1, <2>3 DEF StepOf, StepLock
    <3>4. GoodRun(runs[r])'
      BY <1>0, <1>00, <1>2, <2>1, <2>3 DEF GoodRun, AtHome, StepLock
    <3> QED
      BY <2>1, <3>1, <3>3, <3>4, StepKeeps
  <2> QED
    BY <1>2, <2>2, <2>3 DEF StepLock
<1>3. ASSUME NEW content \in {"empty", "resources"}, StepWrite(r, content) PROVE IInv'
  <2>1. Flying(r) /\ x.app \in Apps
    BY <1>0, <1>3 DEF StepWrite, Flying, GoodRun
  <2>2. PICK i \in Mine(r) : rows' = [rows EXCEPT ![i].holds = content]
    BY <1>3 DEF StepWrite
  <2>3. i \in Rows /\ rows[i].is = "there" /\ rows[i].app = x.app /\ rows[i].comp \in Components
        /\ AtHome(rows[i].comp, rows[i].app)
    BY <2>2 DEF Mine, RowsOf, StateStaysWithComponent, AtHome, RowInv
  <2>a. [rows[i] EXCEPT !.holds = content] \in StateRow
    BY <1>0, <2>3 DEF StateRow
  <2>4. TypeOK'
    BY <1>0, <1>3, <2>2, <2>3, <2>a DEF TypeOK, StepWrite
  <2>5. StepOf(r)
    BY <1>0, <1>3, <2>1, <2>2, <2>3 DEF StepOf, StepWrite, StateRow
  <2>6. GoodRun(runs[r])'
    BY <1>0, <1>3 DEF GoodRun, AtHome, StepWrite
  <2> QED
    BY <2>1, <2>4, <2>5, <2>6, StepKeeps
<1>4. ASSUME NEW C \in SUBSET Components, runs[r].pc \in {"idle", "locked"},
             \A i \in Rows :
               rows'[i] = rows[i]
               \/ (i \in RowsOf(x.app, C) /\ rows'[i] = [rows[i] EXCEPT !.lock = NoRun]),
             rows' = [i \in Rows |-> rows'[i]],
             UNCHANGED <<home, variables, recorded, edits, strayed>>,
             NEW y \in Run, runs' = [runs EXCEPT ![r] = y], y.app = x.app, GoodRun(y),
             y.pc # "found"
      PROVE  IInv'
  <2>1. Flying(r) /\ x.app \in Apps
    BY <1>0, <1>4 DEF Flying, GoodRun
  <2>2. ASSUME NEW i \in RowsOf(x.app, C)
        PROVE  /\ i \in Rows /\ rows[i].is = "there" /\ rows[i].app = x.app
               /\ rows[i].comp \in Components /\ AtHome(rows[i].comp, rows[i].app)
    BY DEF RowsOf, StateStaysWithComponent, AtHome, RowInv
  <2>a. \A i \in Rows : rows[i] \in StateRow /\ [rows[i] EXCEPT !.lock = NoRun] \in StateRow
    BY <1>0 DEF StateRow
  <2>3. \A i \in Rows : rows'[i] \in StateRow
    BY <1>4, <2>a
  <2>4. TypeOK'
    BY <1>0, <1>4, <2>3 DEF TypeOK
  <2>5. StepOf(r)
    BY <1>0, <1>4, <2>1, <2>2 DEF StepOf, StateRow
  <2>6. GoodRun(runs[r])'
    BY <1>0, <1>4 DEF GoodRun, AtHome
  <2> QED
    BY <2>1, <2>4, <2>5, <2>6, StepKeeps
<1>5. ASSUME StepUnlock(r) PROVE IInv'
  <2> DEFINE y == [x EXCEPT !.pc = "unlocked"]
  <2>1. y \in Run /\ y.app = x.app /\ GoodRun(y) /\ y.pc # "found" /\ x.comp \in Components
    BY <1>0, <1>5 DEF StepUnlock, Run, GoodRun
  <2>2. runs' = [runs EXCEPT ![r] = y] /\ {x.comp} \in SUBSET Components
    BY <1>0, <1>5, <2>1 DEF StepUnlock
  <2>3. /\ runs[r].pc = "locked"
        /\ rows' = [i \in Rows |-> IF i \in RowsOf(x.app, {x.comp}) /\ rows[i].lock = r
                                 THEN [rows[i] EXCEPT !.lock = NoRun] ELSE rows[i]]
        /\ UNCHANGED <<home, variables, recorded, edits, strayed>>
    BY <1>5 DEF StepUnlock, Mine
  <2>4. \A i \in Rows :
          rows'[i] = rows[i]
          \/ (i \in RowsOf(x.app, {x.comp}) /\ rows'[i] = [rows[i] EXCEPT !.lock = NoRun])
    BY <2>3
  <2>5. rows' = [i \in Rows |-> rows'[i]]
    BY <2>3
  <2> HIDE DEF y
  <2> QED
    BY <1>4, <2>1, <2>2, <2>3, <2>4, <2>5
<1>6. ASSUME NEW c \in Components, ForceUnlock(r, c) PROVE IInv'
  <2> DEFINE y == [x EXCEPT !.todo = @ \ {c}]
  <2>1. y \in Run /\ y.app = x.app /\ GoodRun(y) /\ y.pc # "found"
    BY <1>0, <1>6 DEF ForceUnlock, Run, GoodRun
  <2>2. runs' = [runs EXCEPT ![r] = y] /\ {c} \in SUBSET Components
    BY <1>0, <1>6, <2>1 DEF ForceUnlock
  <2>3. /\ runs[r].pc = "idle"
        /\ rows' = [i \in Rows |-> IF i \in RowsOf(x.app, {c})
                                 THEN [rows[i] EXCEPT !.lock = NoRun] ELSE rows[i]]
        /\ UNCHANGED <<home, variables, recorded, edits, strayed>>
    BY <1>6 DEF ForceUnlock
  <2>4. \A i \in Rows :
          rows'[i] = rows[i]
          \/ (i \in RowsOf(x.app, {c}) /\ rows'[i] = [rows[i] EXCEPT !.lock = NoRun])
    BY <2>3
  <2>5. rows' = [i \in Rows |-> rows'[i]]
    BY <2>3
  <2> HIDE DEF y
  <2> QED
    BY <1>4, <2>1, <2>2, <2>3, <2>4, <2>5
<1>7. ASSUME StepSucceeds(r) PROVE IInv'
  <2>1. Flying(r) /\ x.app \in Apps /\ x.comp \in Components /\ AtHome(x.comp, x.app)
    BY <1>0, <1>7 DEF StepSucceeds, Flying, GoodRun
  <2>2. PICK i \in Mine(r) : \E inventory \in Captured(r, i) :
          recorded' = [recorded EXCEPT ![x.comp] = inventory]
    BY <1>7 DEF StepSucceeds
  <2>3. PICK inventory \in Captured(r, i) :
          recorded' = [recorded EXCEPT ![x.comp] = inventory]
    BY <2>2
  <2>4. inventory \in Inventories
    <3>1. i \in Rows
      BY DEF Mine, RowsOf
    <3>2. rows[i].holds \in {"nothing", "empty", "resources"} /\ recorded[x.comp] \in Inventories
      BY <1>0, <2>1, <3>1 DEF StateRow, TypeOK
    <3> QED
      BY <2>3, <3>2 DEF Captured, Inventories
  <2>5. TypeOK'
    BY <1>0, <1>00, <1>7, <2>3, <2>4 DEF TypeOK, StepSucceeds
  <2>6. StepOf(r)
    BY <1>0, <1>00, <1>7, <2>1, <2>3 DEF StepOf, StepSucceeds, TypeOK
  <2>7. GoodRun(runs[r])'
    BY <1>0, <1>00, <1>7, <2>1 DEF GoodRun, AtHome, StepSucceeds
  <2> QED
    BY <2>1, <2>5, <2>6, <2>7, StepKeeps
<1>8. ASSUME StepFails(r) PROVE IInv'
  <2>1. Flying(r) /\ x.app \in Apps
    BY <1>0, <1>8 DEF StepFails, Flying, GoodRun
  <2>5. TypeOK'
    BY <1>0, <1>00, <1>8 DEF TypeOK, StepFails
  <2>6. StepOf(r)
    BY <1>0, <1>00, <1>8, <2>1 DEF StepOf, StepFails
  <2>7. GoodRun(runs[r])'
    BY <1>0, <1>00, <1>8, <2>1 DEF GoodRun, AtHome, StepFails
  <2> QED
    BY <2>1, <2>5, <2>6, <2>7, StepKeeps
<1>9. ASSUME RunEnds(r) PROVE IInv'
  <2>1. Flying(r) /\ x.app \in Apps
    BY <1>0, <1>9 DEF RunEnds, Flying, GoodRun
  <2>5. TypeOK'
    BY <1>0, <1>9 DEF TypeOK, RunEnds, Run
  <2>6. StepOf(r)
    BY <1>0, <1>9, <2>1 DEF StepOf, RunEnds, Run
  <2>7. GoodRun(runs[r])'
    BY <1>0, <1>9, <2>1 DEF GoodRun, AtHome, RunEnds, Run
  <2> QED
    BY <2>1, <2>5, <2>6, <2>7, StepKeeps
<1> QED
  BY <1>1, <1>2, <1>3, <1>5, <1>6, <1>7, <1>8, <1>9 DEF Stepping

-----------------------------------------------------------------------------
(* Commits, seen by the requests they overlap *)

LEMMA DisturbedEdit ==
  ASSUME TypeOK, NEW A \in SUBSET Apps, NEW f \in Editors
  PROVE  LET x == edits[f]
             y == DisturbedEdits(A)[f]
         IN /\ y \in Edit
            /\ y.op = x.op /\ y.pc = x.pc /\ y.app = x.app /\ y.to = x.to
            /\ y.keep = x.keep /\ y.allow = x.allow /\ y.gone = x.gone
            /\ y.found = x.found /\ y.written = x.written
            /\ y.alone => x.alone /\ x.app \notin A /\ x.to \notin A
<1> DEFINE x == edits[f]
           b == x.alone /\ {x.app, x.to} \cap A = {}
<1>1. x \in Edit
  BY DEF TypeOK
<1>2. DisturbedEdits(A)[f] = [x EXCEPT !.alone = b]
  BY DEF DisturbedEdits
<1>3. b \in BOOLEAN /\ (b => x.alone /\ x.app \notin A /\ x.to \notin A)
  OBVIOUS
<1> HIDE DEF b
<1> QED
  BY <1>1, <1>2, <1>3 DEF Edit

LEMMA DisturbedRun ==
  ASSUME TypeOK, NEW A \in SUBSET Apps, NEW s \in Runs
  PROVE  LET x == runs[s]
             y == DisturbedRuns(A)[s]
         IN /\ y \in Run
            /\ y.pc = x.pc /\ y.app = x.app /\ y.todo = x.todo
            /\ y.comp = x.comp /\ y.row = x.row
            /\ y.alone => x.alone /\ (Starting(s) => x.app \notin A)
<1> DEFINE x == runs[s]
           b == x.alone /\ (Starting(s) => x.app \notin A)
<1>1. x \in Run
  BY DEF TypeOK
<1>2. DisturbedRuns(A)[s] = [x EXCEPT !.alone = b]
  BY DEF DisturbedRuns
<1>3. b \in BOOLEAN /\ (b => x.alone /\ (Starting(s) => x.app \notin A))
  OBVIOUS
<1> HIDE DEF b
<1> QED
  BY <1>1, <1>2, <1>3 DEF Run

\* A commit in the applications of A leaves the others alone.
OthersKeep(A) ==
  /\ strayed \subseteq strayed'
  /\ \A b \in Apps \ A, c \in Components \ strayed' : home'[c] = b <=> home[c] = b
  /\ \A i \in Rows : rows'[i] = rows[i] \/ rows'[i].is = "deleted" \/ rows'[i].app \in A
  /\ \A i \in Rows : /\ rows'[i].comp = rows[i].comp
                     /\ rows[i].is # "unused" => rows'[i].is # "unused"
  /\ recorded' = recorded
  /\ \A b \in Apps \ A : InFlight(b)' => InFlight(b)

LEMMA EditKept ==
  ASSUME IInv, TypeOK', RowInv', StateStaysWithComponent', NEW A \in SUBSET Apps,
         OthersKeep(A), NEW f \in Editors, edits'[f] = DisturbedEdits(A)[f]
  PROVE  GoodEdit(edits[f])'
<1> DEFINE x == edits[f]
           y == edits'[f]
<1>1. /\ x \in Edit /\ GoodEdit(x) /\ y \in Edit
      /\ y.op = x.op /\ y.pc = x.pc /\ y.app = x.app /\ y.to = x.to
      /\ y.keep = x.keep /\ y.allow = x.allow /\ y.gone = x.gone
      /\ y.found = x.found /\ y.written = x.written
      /\ y.alone => x.alone /\ x.app \notin A /\ x.to \notin A
  BY DisturbedEdit DEF IInv, TypeOK, EditsInv
<1>2. (y.op # "none" => y.app \in Apps /\ y.to \in Apps) /\ (y.op = "save" => y.to = y.app)
  BY <1>1 DEF GoodEdit
<1>3. y.alone /\ y.op \in {"save", "move"} => \A b \in {y.app, y.to} : ~InFlight(b)'
  BY <1>1, <1>2 DEF GoodEdit, OthersKeep
<1>4. y.alone /\ y.op \in {"move", "variable"} =>
        \A c \in y.gone : home'[c] = y.app \/ c \in strayed'
  BY <1>1, <1>2 DEF GoodEdit, OthersKeep, AtHome, Edit
<1>5. y.alone /\ y.op = "save" /\ y.pc # "stored" =>
        \A c \in Components \ strayed' : c \in y.gone <=> home'[c] = y.app /\ c \notin y.keep
  BY <1>1, <1>2 DEF GoodEdit, OthersKeep
<1>6. ASSUME y.alone, y.op = "save", y.pc \in {"runs", "confirm", "commit"}
      PROVE  RowsAsRead(edits[f])'
  <2>1. RowsAsRead(x)
    BY <1>1, <1>6 DEF GoodEdit
  <2>2. ASSUME NEW i \in Rows, rows'[i].is = "there", rows'[i].comp \in y.gone,
               rows'[i].comp \notin strayed'
        PROVE  rows'[i] = rows[i]
    <3>1. rows'[i].comp \in Components
      BY <2>2 DEF RowInv
    <3>2. home'[rows'[i].comp] = y.app
      BY <1>5, <1>6, <2>2, <3>1
    <3>3. rows'[i].app = y.app
      BY <2>2, <3>2 DEF StateStaysWithComponent
    <3> QED
      BY <1>1, <1>6, <2>2, <3>3 DEF OthersKeep
  <2> QED
    BY <1>1, <2>1, <2>2 DEF RowsAsRead, OthersKeep
<1>8. y.op = "save" /\ y.pc = "stored" => y.found = {}
  BY <1>1 DEF GoodEdit
<1>7. \A j \in y.found : rows'[j].is # "unused" /\ rows'[j].comp \in y.gone
  BY <1>1 DEF GoodEdit, OthersKeep, Edit
<1> QED
  BY <1>2, <1>3, <1>4, <1>5, <1>6, <1>7, <1>8 DEF GoodEdit, AtHome, InFlight, Flying

LEMMA RunKept ==
  ASSUME IInv, NEW A \in SUBSET Apps, OthersKeep(A), NEW s \in Runs,
         runs'[s] = DisturbedRuns(A)[s],
         Flying(s) => \A c \in Components :
                        AtHome(c, runs[s].app) => home'[c] = runs[s].app \/ c \in strayed'
  PROVE  GoodRun(runs[s])'
<1> DEFINE x == runs[s]
           y == runs'[s]
<1>1. /\ x \in Run /\ GoodRun(x) /\ y \in Run
      /\ y.pc = x.pc /\ y.app = x.app /\ y.todo = x.todo
      /\ y.comp = x.comp /\ y.row = x.row
      /\ y.alone => x.alone /\ (Starting(s) => x.app \notin A)
  BY DisturbedRun DEF IInv, TypeOK, RunsInv
<1>2. y.pc # "new" => y.app \in Apps
  BY <1>1 DEF GoodRun
<1>3. ASSUME y.pc \in {"picked", "loaded"}, y.alone PROVE \A c \in y.todo : home'[c] = y.app \/ c \in strayed'
  BY <1>1, <1>2, <1>3 DEF GoodRun, Starting, AtHome, OthersKeep, Run
<1>4. ASSUME Flying(s) PROVE \A c \in y.todo : home'[c] = y.app \/ c \in strayed'
  BY <1>1, <1>4 DEF GoodRun, Flying, Run
<1>5. y.pc \in {"found", "locked", "unlocked"} =>
        y.comp \in Components /\ (home'[y.comp] = y.app \/ y.comp \in strayed')
  BY <1>1 DEF GoodRun, Flying
<1>6. y.pc = "found" => /\ y.row \in Rows
                        /\ rows'[y.row].is # "unused"
                        /\ rows'[y.row].comp = y.comp
  BY <1>1 DEF GoodRun, OthersKeep
<1> QED
  BY <1>1, <1>2, <1>3, <1>4, <1>5, <1>6 DEF GoodRun, Flying, AtHome

-----------------------------------------------------------------------------
(* The commits *)

LEMMA RunIsCreated ==
  ASSUME IInv, NEW r \in Runs, RunCreate(r)
  PROVE  IInv'
<1> USE DEF IInv
<1> DEFINE x == runs[r]
           a == x.app
           y == [x EXCEPT !.pc = "idle"]
<1>1. x \in Run /\ GoodRun(x) /\ x.pc = "loaded" /\ a \in Apps
  BY DEF TypeOK, RunsInv, RunCreate, GoodRun
<1>2. y \in Run /\ y.pc = "idle" /\ y.app = a /\ y.todo = x.todo
  BY <1>1 DEF Run
<1> HIDE DEF y
<1>3. /\ runs' = [DisturbedRuns({a}) EXCEPT ![r] = y]
      /\ edits' = DisturbedEdits({a})
      /\ strayed' = IF x.alone THEN strayed ELSE strayed \cup x.todo
      /\ UNCHANGED <<home, variables, rows, recorded>>
  BY DEF RunCreate, y
<1>4. \A s \in Runs : DisturbedRuns({a})[s] \in Run /\ DisturbedRuns({a})[s].pc = runs[s].pc
        /\ DisturbedRuns({a})[s].app = runs[s].app
  BY <1>1, DisturbedRun
<1>5. DisturbedRuns({a}) \in [Runs -> Run]
  BY <1>4 DEF DisturbedRuns
<1>6. DisturbedEdits({a}) \in [Editors -> Edit]
  <2>1. \A f \in Editors : DisturbedEdits({a})[f] \in Edit
    BY <1>1, DisturbedEdit
  <2> QED
    BY <2>1 DEF DisturbedEdits
<1>7. TypeOK'
  <2>1. strayed' \subseteq Components
    BY <1>1, <1>3 DEF TypeOK, Run
  <2> QED
    BY <1>2, <1>3, <1>5, <1>6, <2>1 DEF TypeOK
<1>8. RowInv' /\ StateStaysWithComponent'
  BY <1>3 DEF RowInv, StateStaysWithComponent
<1>9. OthersKeep({a})
  <2>1. \A s \in Runs : s # r => (Flying(s)' <=> Flying(s)) /\ runs'[s].app = runs[s].app
    BY <1>3, <1>4, <1>5 DEF Flying
  <2>2. runs'[r].app = a
    BY <1>2, <1>3, <1>5
  <2>3. \A b \in Apps \ {a} : InFlight(b)' => InFlight(b)
    BY <2>1, <2>2 DEF InFlight
  <2> QED
    BY <1>3, <2>3 DEF OthersKeep
<1>10. \A f \in Editors : GoodEdit(edits[f])'
  BY <1>1, <1>3, <1>7, <1>8, <1>9, EditKept
<1>11. ASSUME NEW s \in Runs, s # r PROVE GoodRun(runs[s])'
  <2>1. runs'[s] = DisturbedRuns({a})[s]
    BY <1>3, <1>5, <1>11
  <2> QED
    BY <1>1, <1>3, <1>9, <2>1, RunKept DEF AtHome
<1>12. GoodRun(runs[r])'
  <2>1. runs'[r] = y
    BY <1>3, <1>5
  <2>2. \A c \in x.todo : home'[c] = a \/ c \in strayed'
    BY <1>1, <1>3 DEF GoodRun, AtHome
  <2> QED
    BY <1>1, <1>2, <2>1, <2>2 DEF GoodRun, AtHome
<1> QED
  BY <1>7, <1>8, <1>10, <1>11, <1>12 DEF RunsInv, EditsInv

LEMMA VariableIsInserted ==
  ASSUME IInv, NEW e \in Editors, InsertVariable(e)
  PROVE  IInv'
<1> USE DEF IInv
<1> DEFINE x == edits[e]
<1>1. x \in Edit /\ GoodEdit(x) /\ x.op = "variable" /\ x.app \in Apps
  BY DEF TypeOK, EditsInv, InsertVariable, GoodEdit, At
<1>2. TypeOK'
  BY <1>1, NoEditType DEF TypeOK, InsertVariable, Edit
<1>3. RowInv' /\ StateStaysWithComponent'
  BY <1>1 DEF RowInv, StateStaysWithComponent, InsertVariable, GoodEdit, AtHome
<1>4. strayed \subseteq strayed' /\ UNCHANGED <<home, rows, recorded, runs>>
  BY DEF InsertVariable
<1>5. RunsInv'
  BY <1>4 DEF RunsInv, GoodRun, AtHome
<1>6. \A f \in Editors : edits'[f] \in {edits[f], Done}
  BY DEF InsertVariable, TypeOK
<1>7. ASSUME NEW y, GoodEdit(y) PROVE GoodEdit(y)'
  BY <1>4, <1>7 DEF GoodEdit, RowsAsRead, AtHome, InFlight, Flying
<1>8. EditsInv'
  BY <1>6, <1>7, NoEditType DEF EditsInv
<1> QED
  BY <1>2, <1>3, <1>5, <1>8

LEMMA SaveIsCommitted ==
  ASSUME IInv, NEW e \in Editors, SaveCommit(e)
  PROVE  IInv'
<1> USE DEF IInv
<1> DEFINE x == edits[e]
           a == x.app
           D == Deletable(e)
<1>1. x \in Edit /\ GoodEdit(x) /\ x.op = "save" /\ x.pc = "commit" /\ a \in Apps /\ x.to = a
  BY DEF TypeOK, EditsInv, SaveCommit, GoodEdit, At
<1>2. \A c \in x.keep : home[c] \in {a, NoApp}
  BY DEF SaveCommit, SaveFits
<1>3. \A i \in D : i \in Rows /\ rows[i].is = "there" /\ rows[i].app = a
  BY DEF Deletable, Unlocked, RowsOf
<1>4. /\ home' = [c \in Components |-> IF c \in x.keep THEN a
                                       ELSE IF home[c] = a THEN NoApp ELSE home[c]]
      /\ variables' = {v \in variables : v[1] = a => v[2] \in x.keep}
      /\ rows' = [i \in Rows |-> IF i \in D THEN [rows[i] EXCEPT !.is = "deleted"] ELSE rows[i]]
      /\ strayed' = IF x.alone THEN strayed ELSE strayed \cup (InApp(a) \ x.keep)
      /\ edits' = [DisturbedEdits({a}) EXCEPT ![e] = Done]
      /\ runs' = DisturbedRuns({a})
      /\ recorded' = recorded
  BY DEF SaveCommit
<1> HIDE DEF D
<1>5. \A i \in Rows :
        /\ rows'[i] \in StateRow
        /\ rows'[i].comp = rows[i].comp /\ rows'[i].app = rows[i].app
        /\ i \in D => rows'[i].is = "deleted"
        /\ i \notin D => rows'[i] = rows[i]
  <2>1. ASSUME NEW i \in Rows, i \in D
        PROVE  /\ rows'[i] \in StateRow /\ rows'[i].is = "deleted"
               /\ rows'[i].comp = rows[i].comp /\ rows'[i].app = rows[i].app
    <3>1. rows'[i] = [rows[i] EXCEPT !.is = "deleted"] /\ rows[i] \in StateRow
      BY <1>4, <2>1 DEF TypeOK
    <3> QED
      BY <3>1 DEF StateRow
  <2>2. ASSUME NEW i \in Rows, i \notin D PROVE rows'[i] = rows[i] /\ rows[i] \in StateRow
    BY <1>4, <2>2 DEF TypeOK
  <2> QED
    BY <2>1, <2>2
<1>6. /\ \A s \in Runs : /\ DisturbedRuns({a})[s] \in Run
                         /\ DisturbedRuns({a})[s].pc = runs[s].pc
                         /\ DisturbedRuns({a})[s].app = runs[s].app
      /\ DisturbedRuns({a}) \in [Runs -> Run]
  <2>1. \A s \in Runs : /\ DisturbedRuns({a})[s] \in Run
                        /\ DisturbedRuns({a})[s].pc = runs[s].pc
                        /\ DisturbedRuns({a})[s].app = runs[s].app
    BY <1>1, DisturbedRun
  <2> QED
    BY <2>1 DEF DisturbedRuns
<1>7. DisturbedEdits({a}) \in [Editors -> Edit]
  <2>1. \A f \in Editors : DisturbedEdits({a})[f] \in Edit
    BY <1>1, DisturbedEdit
  <2> QED
    BY <2>1 DEF DisturbedEdits
<1>8. TypeOK'
  <2>1. strayed' \subseteq Components
    BY <1>4 DEF TypeOK, InApp
  <2>2. home' \in [Components -> Apps \cup {NoApp}]
    BY <1>1, <1>4 DEF TypeOK
  <2>3. rows' \in [Rows -> StateRow]
    BY <1>4, <1>5
  <2> QED
    BY <1>4, <1>6, <1>7, <2>1, <2>2, <2>3, NoEditType DEF TypeOK
<1>9. RowInv'
  BY <1>3, <1>5 DEF RowInv
<1>10. StateStaysWithComponent'
  <2>1. ASSUME NEW i \in Rows, rows'[i].is = "there", rows[i].comp \notin strayed'
        PROVE  home'[rows[i].comp] = rows[i].app
    <3> DEFINE c == rows[i].comp
    <3>1. i \notin D /\ rows[i].is = "there" /\ c \in Components /\ rows[i].app \in Apps
      BY <1>5, <2>1 DEF RowInv
    <3>2. c \notin strayed
      BY <1>4, <2>1
    <3>3. home[c] = rows[i].app
      BY <3>1, <3>2 DEF StateStaysWithComponent
    <3>4. CASE c \in x.keep
      BY <1>2, <1>4, <3>1, <3>3, <3>4, EditsAssumption
    <3>5. CASE home[c] # a
      BY <1>2, <1>4, <3>1, <3>3, <3>5, EditsAssumption
    <3>6. CASE c \notin x.keep /\ home[c] = a
      <4>1. x.alone
        BY <1>4, <2>1, <3>1, <3>6 DEF InApp
      <4>2. c \in x.gone
        BY <1>1, <3>1, <3>2, <3>6, <4>1 DEF GoodEdit
      <4>3. i \in x.found /\ rows[i].lock = NoRun
        BY <1>1, <3>1, <3>2, <4>1, <4>2 DEF GoodEdit, RowsAsRead
      <4>4. i \in Deletable(e)
        BY <3>1, <3>3, <3>6, <4>3 DEF Deletable, Unlocked, RowsOf
      <4> QED
        BY <3>1, <4>4 DEF D
    <3> QED
      BY <3>4, <3>5, <3>6
  <2>2. ASSUME NEW v \in variables', v[2] \notin strayed'
        PROVE  home'[v[2]] = v[1]
    <3>1. v \in variables /\ (v[1] = a => v[2] \in x.keep) /\ v[2] \notin strayed
      BY <1>4, <2>2
    <3>2. v[2] \in Components /\ v[1] \in Apps /\ home[v[2]] = v[1]
      BY <3>1 DEF TypeOK, StateStaysWithComponent
    <3> QED
      BY <1>2, <1>4, <3>1, <3>2, EditsAssumption
  <2> QED
    BY <1>5, <2>1, <2>2 DEF StateStaysWithComponent
<1>11. OthersKeep({a})
  <2>1. strayed \subseteq strayed'
    BY <1>4
  <2>2. \A b \in Apps \ {a}, c \in Components \ strayed' : home'[c] = b <=> home[c] = b
    BY <1>2, <1>4, EditsAssumption
  <2>3. \A i \in Rows : /\ rows'[i] = rows[i] \/ rows'[i].is = "deleted" \/ rows'[i].app \in {a}
                        /\ rows'[i].comp = rows[i].comp
                        /\ rows[i].is # "unused" => rows'[i].is # "unused"
    BY <1>5
  <2>4. \A b \in Apps \ {a} : InFlight(b)' => InFlight(b)
    BY <1>4, <1>6 DEF InFlight, Flying
  <2> QED
    BY <1>4, <2>1, <2>2, <2>3, <2>4 DEF OthersKeep
<1>12. ASSUME NEW f \in Editors PROVE GoodEdit(edits[f])'
  <2>1. CASE f = e
    <3>1. edits'[f] = Done
      BY <1>4, <1>7, <2>1
    <3> QED
      BY <3>1 DEF GoodEdit, Done, NoEdit
  <2>2. CASE f # e
    <3>1. edits'[f] = DisturbedEdits({a})[f]
      BY <1>4, <1>7, <2>2
    <3> QED
      BY <1>1, <1>8, <1>9, <1>10, <1>11, <3>1, EditKept
  <2> QED
    BY <2>1, <2>2
<1>13. ASSUME NEW s \in Runs PROVE GoodRun(runs[s])'
  <2>1. runs'[s] = DisturbedRuns({a})[s]
    BY <1>4
  <2>2. ASSUME Flying(s), NEW c \in Components, AtHome(c, runs[s].app)
        PROVE  home'[c] = runs[s].app \/ c \in strayed'
    <3>1. runs[s].app \in Apps
      BY <2>2 DEF RunsInv, GoodRun, Flying
    <3>2. CASE runs[s].app # a
      BY <1>11, <2>2, <3>1, <3>2 DEF OthersKeep, AtHome
    <3>3. CASE runs[s].app = a
      <4>1. ~x.alone
        BY <1>1, <2>2, <3>3 DEF GoodEdit, InFlight
      <4> QED
        BY <1>4, <2>2, <3>3, <4>1 DEF AtHome, InApp
    <3> QED
      BY <3>2, <3>3
  <2> QED
    BY <1>1, <1>11, <2>1, <2>2, RunKept
<1> QED
  BY <1>8, <1>9, <1>10, <1>12, <1>13 DEF RunsInv, EditsInv

LEMMA MoveIsCommitted ==
  ASSUME IInv, NEW e \in Editors, MoveCommit(e)
  PROVE  IInv'
<1> USE DEF IInv
<1> DEFINE x == edits[e]
           a == x.app
           to == x.to
           U == Unlocked(a, x.gone)
<1>1. x \in Edit /\ GoodEdit(x) /\ x.op = "move" /\ x.pc = "commit" /\ a \in Apps /\ to \in Apps
  BY DEF TypeOK, EditsInv, MoveCommit, GoodEdit, At
<1>2. /\ home' = [c \in Components |-> IF c \in x.gone THEN to ELSE home[c]]
      /\ variables' = MovedVariables(e)
      /\ rows' = [i \in Rows |-> IF i \in U THEN [rows[i] EXCEPT !.app = to] ELSE rows[i]]
      /\ strayed' = IF x.alone THEN strayed ELSE strayed \cup x.gone
      /\ edits' = [DisturbedEdits({a, to}) EXCEPT ![e] = Done]
      /\ runs' = DisturbedRuns({a, to})
      /\ recorded' = recorded
  BY DEF MoveCommit
<1>3. \A c \in x.gone : RowsOf(a, {c}) = Unlocked(a, {c})
  BY DEF MoveCommit, MoveFits
<1>4. ASSUME NEW i \in U PROVE /\ i \in Rows /\ rows[i].is = "there" /\ rows[i].app = a
                               /\ rows[i].comp \in x.gone
  BY DEF Unlocked, RowsOf
<1>5. ASSUME NEW i \in Rows, rows[i].is = "there", rows[i].app = a, rows[i].comp \in x.gone
      PROVE  i \in U
  <2>1. i \in RowsOf(a, {rows[i].comp})
    BY <1>5 DEF RowsOf
  <2>2. i \in Unlocked(a, {rows[i].comp})
    BY <1>3, <1>5, <2>1
  <2> QED
    BY <1>5, <2>2 DEF Unlocked, RowsOf
<1> HIDE DEF U
<1>6. \A i \in Rows :
        /\ rows'[i] \in StateRow
        /\ rows'[i].comp = rows[i].comp /\ rows'[i].is = rows[i].is
        /\ i \in U => rows'[i].app = to
        /\ i \notin U => rows'[i] = rows[i]
  <2>1. ASSUME NEW i \in Rows, i \in U
        PROVE  /\ rows'[i] \in StateRow /\ rows'[i].app = to
               /\ rows'[i].comp = rows[i].comp /\ rows'[i].is = rows[i].is
    <3>1. rows'[i] = [rows[i] EXCEPT !.app = to] /\ rows[i] \in StateRow
      BY <1>2, <2>1 DEF TypeOK
    <3> QED
      BY <1>1, <3>1 DEF StateRow
  <2>2. ASSUME NEW i \in Rows, i \notin U PROVE rows'[i] = rows[i] /\ rows[i] \in StateRow
    BY <1>2, <2>2 DEF TypeOK
  <2> QED
    BY <2>1, <2>2
<1>7. /\ \A s \in Runs : /\ DisturbedRuns({a, to})[s] \in Run
                         /\ DisturbedRuns({a, to})[s].pc = runs[s].pc
                         /\ DisturbedRuns({a, to})[s].app = runs[s].app
      /\ DisturbedRuns({a, to}) \in [Runs -> Run]
  <2>1. \A s \in Runs : /\ DisturbedRuns({a, to})[s] \in Run
                        /\ DisturbedRuns({a, to})[s].pc = runs[s].pc
                        /\ DisturbedRuns({a, to})[s].app = runs[s].app
    BY <1>1, DisturbedRun
  <2> QED
    BY <2>1 DEF DisturbedRuns
<1>8. DisturbedEdits({a, to}) \in [Editors -> Edit]
  <2>1. \A f \in Editors : DisturbedEdits({a, to})[f] \in Edit
    BY <1>1, DisturbedEdit
  <2> QED
    BY <2>1 DEF DisturbedEdits
<1>9. \A v \in variables' :
        \/ v \in variables /\ ~ (v[1] = a /\ v[2] \in x.gone)
        \/ /\ v[1] = to /\ v[2] \in x.gone
           /\ v \in Apps \X Components
  <2>1. ASSUME NEW w \in variables PROVE w[1] \in Apps /\ w[2] \in Components
    BY DEF TypeOK
  <2> QED
    BY <1>1, <1>2, <2>1 DEF MovedVariables
<1>10. TypeOK'
  <2>1. strayed' \subseteq Components
    BY <1>1, <1>2 DEF TypeOK, Edit
  <2>2. home' \in [Components -> Apps \cup {NoApp}]
    BY <1>1, <1>2 DEF TypeOK
  <2>3. rows' \in [Rows -> StateRow]
    BY <1>2, <1>6
  <2>4. variables' \subseteq Apps \X Components
    BY <1>9 DEF TypeOK
  <2> QED
    BY <1>2, <1>7, <1>8, <2>1, <2>2, <2>3, <2>4, NoEditType DEF TypeOK
<1>11. RowInv'
  BY <1>1, <1>6 DEF RowInv
<1>12. StateStaysWithComponent'
  <2>0. ASSUME NEW c \in x.gone, c \notin strayed' PROVE home[c] = a /\ c \notin strayed
    BY <1>1, <1>2, <2>0 DEF GoodEdit, AtHome
  <2>1. ASSUME NEW i \in Rows, rows'[i].is = "there", rows[i].comp \notin strayed'
        PROVE  home'[rows[i].comp] = rows'[i].app
    <3> DEFINE c == rows[i].comp
    <3>1. rows[i].is = "there" /\ c \in Components /\ c \notin strayed
      BY <1>2, <1>6, <2>1 DEF RowInv
    <3>2. home[c] = rows[i].app
      BY <3>1 DEF StateStaysWithComponent
    <3>3. CASE c \in x.gone
      BY <1>2, <1>5, <1>6, <2>0, <2>1, <3>1, <3>2, <3>3
    <3>4. CASE c \notin x.gone
      BY <1>2, <1>4, <1>6, <3>1, <3>2, <3>4
    <3> QED
      BY <3>3, <3>4
  <2>2. ASSUME NEW v \in variables', v[2] \notin strayed'
        PROVE  home'[v[2]] = v[1]
    <3>1. v \in Apps \X Components /\ v[2] \notin strayed
      BY <1>2, <1>10, <2>2 DEF TypeOK
    <3>2. CASE v[2] \in x.gone /\ v[1] = to
      BY <1>2, <3>1, <3>2
    <3>3. CASE v \in variables /\ ~ (v[1] = a /\ v[2] \in x.gone)
      <4>1. home[v[2]] = v[1]
        BY <3>1, <3>3 DEF StateStaysWithComponent
      <4> QED
        BY <1>2, <2>0, <2>2, <3>1, <3>3, <4>1
    <3> QED
      BY <1>9, <3>2, <3>3
  <2> QED
    BY <1>6, <2>1, <2>2 DEF StateStaysWithComponent
<1>13. OthersKeep({a, to})
  <2>1. strayed \subseteq strayed'
    BY <1>2
  <2>2. \A b \in Apps \ {a, to}, c \in Components \ strayed' : home'[c] = b <=> home[c] = b
    BY <1>1, <1>2 DEF GoodEdit, AtHome
  <2>3. \A i \in Rows : /\ rows'[i] = rows[i] \/ rows'[i].is = "deleted" \/ rows'[i].app \in {a, to}
                        /\ rows'[i].comp = rows[i].comp
                        /\ rows[i].is # "unused" => rows'[i].is # "unused"
    BY <1>6
  <2>4. \A b \in Apps \ {a, to} : InFlight(b)' => InFlight(b)
    BY <1>2, <1>7 DEF InFlight, Flying
  <2> QED
    BY <1>2, <2>1, <2>2, <2>3, <2>4 DEF OthersKeep
<1>14. ASSUME NEW f \in Editors PROVE GoodEdit(edits[f])'
  <2>1. CASE f = e
    <3>1. edits'[f] = Done
      BY <1>2, <1>8, <2>1
    <3> QED
      BY <3>1 DEF GoodEdit, Done, NoEdit
  <2>2. CASE f # e
    <3>1. edits'[f] = DisturbedEdits({a, to})[f]
      BY <1>2, <1>8, <2>2
    <3> QED
      BY <1>1, <1>10, <1>11, <1>12, <1>13, <3>1, EditKept
  <2> QED
    BY <2>1, <2>2
<1>15. ASSUME NEW s \in Runs PROVE GoodRun(runs[s])'
  <2>1. runs'[s] = DisturbedRuns({a, to})[s]
    BY <1>2
  <2>2. ASSUME Flying(s), NEW c \in Components, AtHome(c, runs[s].app)
        PROVE  home'[c] = runs[s].app \/ c \in strayed'
    <3>1. runs[s].app \in Apps
      BY <2>2 DEF RunsInv, GoodRun, Flying
    <3>2. CASE runs[s].app \notin {a, to}
      BY <1>13, <2>2, <3>1, <3>2 DEF OthersKeep, AtHome
    <3>3. CASE runs[s].app \in {a, to}
      <4>1. ~x.alone
        BY <1>1, <2>2, <3>3 DEF GoodEdit, InFlight
      <4> QED
        BY <1>2, <2>2, <3>3, <4>1 DEF AtHome
    <3> QED
      BY <3>2, <3>3
  <2> QED
    BY <1>1, <1>13, <2>1, <2>2, RunKept
<1> QED
  BY <1>10, <1>11, <1>12, <1>14, <1>15 DEF RunsInv, EditsInv

-----------------------------------------------------------------------------
(* Theorems *)

LEMMA InitInv == Init => IInv
<1> SUFFICES ASSUME Init PROVE IInv
  OBVIOUS
<1>1. [is |-> "unused", app |-> NoApp, comp |-> NoComp, lock |-> NoRun,
       holds |-> "nothing"] \in StateRow
  BY DEF StateRow
<1>2. NoStart \in Run /\ GoodRun(NoStart)
  BY DEF NoStart, Run, GoodRun
<1>3. TypeOK
  BY <1>1, <1>2, NoEditType DEF Init, TypeOK, Inventories
<1>4. RowInv /\ StateStaysWithComponent
  BY DEF Init, RowInv, StateStaysWithComponent
<1>5. RunsInv /\ EditsInv
  BY <1>2, NoEditType DEF Init, RunsInv, EditsInv
<1> QED
  BY <1>3, <1>4, <1>5 DEF IInv

LEMMA NextInv == IInv /\ [Next]_vars => IInv'
<1> SUFFICES ASSUME IInv, [Next]_vars PROVE IInv'
  OBVIOUS
<1>1. ASSUME NEW e \in Editors, Saving(e) PROVE IInv'
  BY <1>1, SaveReads, SaveIsCommitted DEF Saving
<1>2. ASSUME NEW e \in Editors, Moving(e) PROVE IInv'
  BY <1>2, OtherReads, MoveIsCommitted DEF Moving
<1>3. ASSUME NEW e \in Editors, SettingVariable(e) PROVE IInv'
  BY <1>3, OtherReads, VariableIsInserted DEF SettingVariable
<1>4. ASSUME NEW r \in Runs, StartingRun(r) PROVE IInv'
  BY <1>4, RunStarts, RunIsCreated DEF StartingRun
<1>5. ASSUME NEW r \in Runs, Stepping(r) PROVE IInv'
  BY <1>5, RunSteps
<1>6. CASE UNCHANGED vars
  BY <1>6 DEF vars, IInv, TypeOK, RowInv, StateStaysWithComponent, RunsInv, EditsInv,
              GoodRun, GoodEdit, RowsAsRead, AtHome, InFlight, Flying
<1> QED
  BY <1>1, <1>2, <1>3, <1>4, <1>5, <1>6 DEF Next

LEMMA Invariance == Spec => []IInv
BY InitInv, NextInv, PTL DEF Spec

\* The tables, the requests and the runs keep their types.
THEOREM EditsTypeCorrect == Spec => []TypeOK
<1>1. IInv => TypeOK
  BY DEF IInv
<1> QED
  BY <1>1, Invariance, PTL

\* ReplaceWorkflowWith and MoveComponent keep the state and the variables of
\* a component where the component is, unless requests overlap.
THEOREM EditsKeepStateWithComponent == Spec => []StateStaysWithComponent
<1>1. IInv => StateStaysWithComponent
  BY DEF IInv
<1> QED
  BY <1>1, Invariance, PTL

\* A row that a step leaves there is the same row under the same key.
LEMMA StepsKeepRows ==
  ASSUME IInv, NEW r \in Runs, Stepping(r), NEW i \in Rows, rows[i].is = "there"
  PROVE  rows'[i].is = "there" /\ rows'[i].app = rows[i].app
<1>0. rows \in [Rows -> StateRow] /\ rows[i] \in StateRow
  BY DEF IInv, TypeOK
<1>1. ASSUME NEW c \in Components, NEW j \in Rows, StepFind(r, c, j)
      PROVE  rows'[i] = rows[i]
  BY <1>0, <1>1 DEF StepFind
<1>2. ASSUME StepLock(r) PROVE rows'[i].is = "there" /\ rows'[i].app = rows[i].app
  BY <1>0, <1>2 DEF StepLock, StateRow
<1>3. ASSUME NEW h \in {"empty", "resources"}, StepWrite(r, h)
      PROVE  rows'[i].is = "there" /\ rows'[i].app = rows[i].app
  BY <1>0, <1>3 DEF StepWrite, StateRow
<1>4. ASSUME StepUnlock(r) PROVE rows'[i].is = "there" /\ rows'[i].app = rows[i].app
  BY <1>0, <1>4 DEF StepUnlock, StateRow
<1>5. ASSUME NEW c \in Components, ForceUnlock(r, c)
      PROVE  rows'[i].is = "there" /\ rows'[i].app = rows[i].app
  BY <1>0, <1>5 DEF ForceUnlock, StateRow
<1>6. ASSUME StepSucceeds(r) \/ StepFails(r) \/ RunEnds(r) PROVE rows' = rows
  BY <1>6 DEF StepSucceeds, StepFails, RunEnds
<1> QED
  BY <1>1, <1>2, <1>3, <1>4, <1>5, <1>6 DEF Stepping

\* Only the two transactions delete or move a row.
LEMMA OnlyCommitsMoveRows ==
  ASSUME IInv, [Next]_vars, NEW i \in Rows, rows[i].is = "there",
         ~ (rows'[i].is = "there" /\ rows'[i].app = rows[i].app)
  PROVE  \E e \in Editors : SaveCommit(e) \/ MoveCommit(e)
<1>1. rows' # rows
  OBVIOUS
<1>2. ASSUME NEW e \in Editors, Saving(e) PROVE SaveCommit(e)
  BY <1>1, <1>2 DEF Saving, BeginSave, SaveStored, SaveRows, SaveRuns, SaveConfirm,
                    SaveRollback, Advance, Refuse
<1>3. ASSUME NEW e \in Editors, Moving(e) PROVE MoveCommit(e)
  BY <1>1, <1>3 DEF Moving, BeginMove, MoveRuns, MoveTarget, MoveRows, MoveRollback,
                    Advance, Refuse
<1>4. ASSUME NEW e \in Editors, SettingVariable(e) PROVE FALSE
  BY <1>1, <1>4 DEF SettingVariable, BeginVariable, InsertVariable, Advance
<1>5. ASSUME NEW r \in Runs, StartingRun(r) PROVE FALSE
  BY <1>1, <1>5 DEF StartingRun, RunCheck, RunLoad, ScopedRead, ScopedCheck, RunCreate, Begins
<1>6. ASSUME NEW r \in Runs, Stepping(r) PROVE FALSE
  BY <1>6, StepsKeepRows
<1>7. ~ UNCHANGED vars
  BY <1>1 DEF vars
<1> QED
  BY <1>2, <1>3, <1>4, <1>5, <1>6, <1>7 DEF Next

\* deleteStates and MoveComponent act on no row that a step has locked, even
\* when the lock was taken after their guards had looked.
THEOREM EditsKeepLockedState == Spec => LockedStateStays
<1> DEFINE P == \A i \in Rows :
                  rows[i].is = "there" /\ rows[i].lock # NoRun =>
                    rows'[i].is = "there" /\ rows'[i].app = rows[i].app
<1>1. IInv /\ [Next]_vars => P
  <2> SUFFICES ASSUME IInv, [Next]_vars, NEW i \in Rows,
                      rows[i].is = "there", rows[i].lock # NoRun,
                      ~ (rows'[i].is = "there" /\ rows'[i].app = rows[i].app)
               PROVE  FALSE
    OBVIOUS
  <2>1. PICK e \in Editors : SaveCommit(e) \/ MoveCommit(e)
    BY OnlyCommitsMoveRows
  <2>2. ASSUME SaveCommit(e) PROVE rows'[i] = rows[i]
    <3>1. i \notin Deletable(e)
      BY DEF Deletable, Unlocked
    <3> QED
      BY <2>2, <3>1 DEF SaveCommit
  <2>3. ASSUME MoveCommit(e) PROVE rows'[i] = rows[i]
    <3>1. i \notin Unlocked(edits[e].app, edits[e].gone)
      BY DEF Unlocked
    <3> QED
      BY <2>3, <3>1 DEF MoveCommit
  <2> QED
    BY <2>1, <2>2, <2>3
<1> QED
  BY <1>1, Invariance, PTL DEF Spec, LockedStateStays

\* A save that is alone deletes state with resources only when the caller
\* confirmed it or the latest record says nothing is left.
THEOREM EditsTrustTheRecord == Spec => DeletionTrustsTheRecord
<1> DEFINE P == \A i \in Rows, e \in Editors :
                  LosesState(i, e) => edits[e].allow \/ recorded[rows[i].comp] = "empty"
<1>1. IInv /\ [Next]_vars => P
  <2> SUFFICES ASSUME IInv, [Next]_vars, NEW i \in Rows, NEW e \in Editors, LosesState(i, e)
               PROVE  edits[e].allow \/ recorded[rows[i].comp] = "empty"
    OBVIOUS
  <2>0. /\ rows[i].is = "there" /\ rows'[i].is = "deleted" /\ rows[i].holds = "resources"
        /\ rows[i].comp \notin strayed /\ edits[e].pc = "commit" /\ edits'[e] = Done
        /\ edits[e].alone
    BY DEF LosesState
  <2>1. PICK f \in Editors : SaveCommit(f) \/ MoveCommit(f)
    BY <2>0, OnlyCommitsMoveRows
  <2>2. SaveCommit(f)
    <3>1. rows[i] \in StateRow
      BY DEF IInv, TypeOK
    <3>2. MoveCommit(f) => rows'[i].is = rows[i].is
      BY <3>1 DEF MoveCommit, StateRow
    <3> QED
      BY <2>0, <2>1, <3>2
  <2>3. f = e
    <3>1. ASSUME f # e PROVE edits'[e].pc = "commit"
      <4>1. edits[f] \in Edit /\ GoodEdit(edits[f]) /\ At(f, "save", "commit")
        BY <2>2 DEF SaveCommit, IInv, TypeOK, EditsInv
      <4>2. {edits[f].app} \in SUBSET Apps
        BY <4>1 DEF GoodEdit, At
      <4>3. edits'[e] = DisturbedEdits({edits[f].app})[e]
        BY <2>2, <3>1 DEF SaveCommit, DisturbedEdits
      <4> QED
        BY <2>0, <4>2, <4>3, DisturbedEdit DEF IInv
    <3> QED
      BY <2>0, <3>1 DEF Done, NoEdit
  <2>4. i \in Deletable(e)
    BY <2>0, <2>2, <2>3 DEF SaveCommit
  <2>5. edits[e] \in Edit /\ GoodEdit(edits[e]) /\ edits[e].op = "save"
    BY <2>2, <2>3 DEF IInv, TypeOK, EditsInv, SaveCommit, At
  <2>6. rows[i].comp \in edits[e].gone
    BY <2>4, <2>5 DEF Deletable, Unlocked, RowsOf, GoodEdit
  <2> QED
    BY <2>0, <2>5, <2>6 DEF GoodEdit, RowsAsRead
<1> QED
  BY <1>1, Invariance, PTL DEF Spec, DeletionTrustsTheRecord
=============================================================================
