--------------------------- MODULE TofuStateProofs ---------------------------
(***************************************************************************)
(* Proofs about TofuState, for any number of concurrent requests, steps,   *)
(* lock ids, lineages and bodies.                                          *)
(***************************************************************************)
EXTENDS TofuState, TLAPS

-----------------------------------------------------------------------------
(* The inductive invariant *)

ReadReqs == [op : {"read"}, step : Steps, floor : Nat]
LockReqs == [op : {"lock", "unlock"}, step : Steps, id : LockIDs]
WriteReqs == [op : {"write"}, step : Steps, id : LockIDs, body : Versions]

\* A row that was not created is empty.
NoRowNoState == ~exists => current = 0 /\ lock = NoLock /\ serial = 0 /\ lineage = NoLineage

\* A request is at statements of its own operation.
RightRequest(r) ==
  /\ pc[r] \in {"find", "fetch"} => req[r] \in ReadReqs
  /\ pc[r] \in {"ensure", "create", "lock", "holder", "unlock", "refused"} =>
       req[r] \in LockReqs
  /\ pc[r] \in {"check", "commit"} =>
       req[r] \in WriteReqs /\ req[r].body.step = req[r].step

\* Lock tries again only while it has attempts left, on a row that exists.
LockProgress(r) ==
  /\ pc[r] \in {"idle", "ensure", "create", "lock"} => attempt[r] < lockAttempts
  /\ pc[r] \in {"lock", "holder"} => exists

\* What a write checked stays true of the version it saw.
CheckedWrite(r) ==
  pc[r] = "commit" =>
    /\ req[r].step \in Writers
    /\ seen[r] <= current
    /\ seen[r] > 0 => /\ req[r].body.lineage = versions[seen[r]].lineage
                      /\ req[r].body.serial > versions[seen[r]].serial

\* What a read has found is still there.
PendingRead(r) ==
  /\ pc[r] = "find" => req[r].floor <= current
  /\ pc[r] = "fetch" => /\ req[r].floor <= seen[r]
                        /\ 0 < seen[r] /\ seen[r] <= current

RequestInv(r) ==
  RightRequest(r) /\ LockProgress(r) /\ CheckedWrite(r) /\ PendingRead(r)

Inv ==
  /\ TypeOK
  /\ HistoryIsLinear
  /\ NoRowNoState
  /\ \A r \in Reqs : RequestInv(r)

-----------------------------------------------------------------------------
(* Frames *)

\* Nothing of the request q changes, and the row only grows.
Bystander(q) ==
  /\ pc'[q] = pc[q] /\ req'[q] = req[q] /\ seen'[q] = seen[q] /\ attempt'[q] = attempt[q]

RowGrows ==
  /\ exists => exists'
  /\ current' \in Nat /\ current <= current'
  /\ \A i \in 1 .. current : versions'[i] = versions[i]

\* The request invariant of q survives every step of another request.
LEMMA BystanderKeeps ==
  ASSUME Inv, NEW q \in Reqs, Bystander(q), RowGrows
  PROVE  RequestInv(q)'
<1>1. RequestInv(q) /\ TypeOK
  BY DEF Inv
<1>2. RightRequest(q)'
  BY <1>1 DEF RequestInv, RightRequest, Bystander
<1>3. LockProgress(q)'
  BY <1>1 DEF RequestInv, LockProgress, Bystander, RowGrows
<1>4. CheckedWrite(q)'
  <2>1. ASSUME pc[q] = "commit" PROVE CheckedWrite(q)'
    <3>1. seen[q] \in Nat /\ current \in Nat /\ seen[q] <= current
      BY <1>1, <2>1 DEF RequestInv, CheckedWrite, TypeOK
    <3>2. seen[q] > 0 => versions'[seen[q]] = versions[seen[q]]
      BY <3>1 DEF RowGrows
    <3>3. QED
      BY <1>1, <2>1, <3>1, <3>2 DEF RequestInv, CheckedWrite, Bystander, RowGrows
  <2>2. QED
    BY <2>1 DEF CheckedWrite, Bystander
<1>5. PendingRead(q)'
  <2>1. seen[q] \in Nat /\ current \in Nat /\ (pc[q] \in {"find", "fetch"} => req[q].floor \in Nat)
    BY <1>1 DEF RequestInv, RightRequest, ReadReqs, TypeOK
  <2>2. QED
    BY <1>1, <2>1 DEF RequestInv, PendingRead, Bystander, RowGrows
<1>6. QED
  BY <1>2, <1>3, <1>4, <1>5 DEF RequestInv

\* A step of r that leaves the row alone keeps the row's invariants.
LEMMA RowKeeps ==
  ASSUME Inv, UNCHANGED row
  PROVE  HistoryIsLinear' /\ NoRowNoState' /\ RowGrows
<1>1. HistoryIsLinear /\ NoRowNoState /\ current \in Nat
  BY DEF Inv, TypeOK
<1>2. exists' = exists /\ lock' = lock /\ current' = current /\ serial' = serial
      /\ lineage' = lineage /\ versions' = versions
  BY DEF row
<1>3. QED
  BY <1>1, <1>2 DEF HistoryIsLinear, NoRowNoState, RowGrows

\* The conclusion every action's proof ends with.
LEMMA RequestStep ==
  ASSUME Inv, NEW r \in Reqs, TypeOK', HistoryIsLinear', NoRowNoState', RowGrows,
         RequestInv(r)', \A q \in Reqs \ {r} : Bystander(q)
  PROVE  Inv'
<1>1. ASSUME NEW q \in Reqs PROVE RequestInv(q)'
  <2>1. CASE q = r
    BY <2>1
  <2>2. CASE q # r
    BY <2>2, BystanderKeeps
  <2>3. QED
    BY <2>1, <2>2
<1>2. QED
  BY <1>1 DEF Inv

\* The same for the actions that leave the row alone.
LEMMA QuietStep ==
  ASSUME Inv, NEW r \in Reqs, UNCHANGED row, TypeOK',
         RequestInv(r)', \A q \in Reqs \ {r} : Bystander(q)
  PROVE  Inv'
BY RowKeeps, RequestStep

-----------------------------------------------------------------------------
(* One lemma per action *)

LEMMA AuthenticateKeeps ==
  ASSUME Inv, NEW r \in Reqs, Authenticate(r)
  PROVE  Inv'
<1> USE DEF Inv
<1>1. PICK s \in running :
        \/ /\ req' = [req EXCEPT ![r] = [op |-> "read", step |-> s, floor |-> current]]
           /\ pc' = [pc EXCEPT ![r] = "find"]
        \/ \E id \in LockIDs :
             /\ req' = [req EXCEPT ![r] = [op |-> "lock", step |-> s, id |-> id]]
             /\ pc' = [pc EXCEPT ![r] = "ensure"]
        \/ \E id \in LockIDs :
             /\ req' = [req EXCEPT ![r] = [op |-> "unlock", step |-> s, id |-> id]]
             /\ pc' = [pc EXCEPT ![r] = "unlock"]
        \/ \E id \in LockIDs, v \in Versions :
             /\ v.step = s
             /\ req' = [req EXCEPT ![r] = [op |-> "write", step |-> s, id |-> id, body |-> v]]
             /\ pc' = [pc EXCEPT ![r] = "check"]
  BY DEF Authenticate, Goto
<1>2. /\ UNCHANGED <<running, seen, attempt, reply>> /\ UNCHANGED row /\ pc[r] = "idle"
      /\ s \in Steps /\ current \in Nat /\ attempt[r] < lockAttempts
  BY DEF Authenticate, Goto, TypeOK, RequestInv, LockProgress
<1>3. pc \in [Reqs -> {"idle", "find", "fetch", "ensure", "create", "lock", "holder",
                      "unlock", "refused", "check", "commit", "done"}]
      /\ req \in [Reqs -> Requests \cup {NoReq}]
  BY DEF TypeOK
<1>4. \/ pc'[r] = "find" /\ req'[r] \in ReadReqs /\ req'[r].floor = current
      \/ pc'[r] \in {"ensure", "unlock"} /\ req'[r] \in LockReqs
      \/ pc'[r] = "check" /\ req'[r] \in WriteReqs /\ req'[r].body.step = req'[r].step
  BY <1>1, <1>2, <1>3 DEF ReadReqs, LockReqs, WriteReqs
<1>5. RequestInv(r)'
  BY <1>2, <1>4 DEF RequestInv, RightRequest, LockProgress, CheckedWrite, PendingRead, row
<1>6. req'[r] \in Requests
  BY <1>4 DEF Requests, ReadReqs, LockReqs, WriteReqs
<1>7. /\ req' \in [Reqs -> Requests \cup {NoReq}]
      /\ pc' \in [Reqs -> {"idle", "find", "fetch", "ensure", "create", "lock", "holder",
                      "unlock", "refused", "check", "commit", "done"}]
      /\ \A q \in Reqs \ {r} : pc'[q] = pc[q] /\ req'[q] = req[q]
  BY <1>1, <1>3, <1>6
<1>8. TypeOK'
  BY <1>2, <1>7 DEF TypeOK, row
<1>9. \A q \in Reqs \ {r} : Bystander(q)
  BY <1>2, <1>7 DEF Bystander
<1>10. QED
  BY <1>2, <1>5, <1>8, <1>9, QuietStep

LEMMA FailsKeeps ==
  ASSUME Inv, NEW r \in Reqs, Fails(r)
  PROVE  Inv'
<1>1. TypeOK' /\ UNCHANGED row /\ \A q \in Reqs \ {r} : Bystander(q)
  BY DEF Inv, TypeOK, Fails, Answer, Bystander, row
<1>2. RequestInv(r)'
  BY DEF Inv, TypeOK, Fails, Answer, RequestInv, RightRequest, LockProgress, CheckedWrite, PendingRead
<1>3. QED
  BY <1>1, <1>2, QuietStep

LEMMA RespondKeeps ==
  ASSUME Inv, NEW r \in Reqs, Respond(r)
  PROVE  Inv'
<1>1. TypeOK' /\ UNCHANGED row /\ \A q \in Reqs \ {r} : Bystander(q)
  BY DEF Inv, TypeOK, Respond, Bystander, row, lockAttempts
<1>2. RequestInv(r)'
  BY DEF Inv, TypeOK, Respond, RequestInv, RightRequest, LockProgress, CheckedWrite,
         PendingRead, lockAttempts
<1>3. QED
  BY <1>1, <1>2, QuietStep

LEMMA FindKeeps ==
  ASSUME Inv, NEW r \in Reqs, Find(r)
  PROVE  Inv'
<1>1. TypeOK' /\ UNCHANGED row /\ \A q \in Reqs \ {r} : Bystander(q)
  BY DEF Inv, TypeOK, Find, Answer, Goto, Bystander, row
<1>2. RequestInv(r) /\ req[r] \in ReadReqs /\ req[r].floor <= current /\ current \in Nat
  BY DEF Inv, TypeOK, Find, RequestInv, RightRequest, PendingRead
<1>3. \/ pc'[r] = "done"
      \/ pc'[r] = "fetch" /\ seen'[r] = current /\ current # 0
  BY DEF Inv, TypeOK, Find, Answer, Goto, NoState
<1>4. req' = req /\ current' = current
  BY DEF Find, row
<1>5. RequestInv(r)'
  BY <1>2, <1>3, <1>4 DEF RequestInv, RightRequest, LockProgress, CheckedWrite, PendingRead
<1>6. QED
  BY <1>1, <1>5, QuietStep

LEMMA FetchKeeps ==
  ASSUME Inv, NEW r \in Reqs, Fetch(r)
  PROVE  Inv'
<1>1. TypeOK' /\ UNCHANGED row /\ \A q \in Reqs \ {r} : Bystander(q)
  BY DEF Inv, TypeOK, Fetch, Answer, Bystander, row
<1>2. RequestInv(r)'
  BY DEF Inv, TypeOK, Fetch, Answer, RequestInv, RightRequest, LockProgress, CheckedWrite, PendingRead
<1>3. QED
  BY <1>1, <1>2, QuietStep

LEMMA EnsureFindKeeps ==
  ASSUME Inv, NEW r \in Reqs, EnsureFind(r)
  PROVE  Inv'
<1>1. TypeOK' /\ UNCHANGED row /\ \A q \in Reqs \ {r} : Bystander(q)
  BY DEF Inv, TypeOK, EnsureFind, Goto, Bystander, row
<1>2. RequestInv(r)'
  BY DEF Inv, TypeOK, EnsureFind, Goto, RequestInv, RightRequest, LockProgress, CheckedWrite,
         PendingRead, row
<1>3. QED
  BY <1>1, <1>2, QuietStep

LEMMA EnsureCreateKeeps ==
  ASSUME Inv, NEW r \in Reqs, EnsureCreate(r)
  PROVE  Inv'
<1>1. /\ exists' = TRUE
      /\ UNCHANGED <<lock, current, serial, lineage, versions>>
  BY DEF Inv, EnsureCreate, NoRowNoState
<1>2. HistoryIsLinear' /\ NoRowNoState' /\ RowGrows
  BY <1>1 DEF Inv, TypeOK, HistoryIsLinear, NoRowNoState, RowGrows
<1>3. TypeOK' /\ \A q \in Reqs \ {r} : Bystander(q)
  BY <1>1 DEF Inv, TypeOK, EnsureCreate, Goto, Bystander
<1>4. RequestInv(r)'
  BY <1>1 DEF Inv, TypeOK, EnsureCreate, Goto, RequestInv, RightRequest, LockProgress,
              CheckedWrite, PendingRead
<1>5. QED
  BY <1>2, <1>3, <1>4, RequestStep

LEMMA TryLockKeeps ==
  ASSUME Inv, NEW r \in Reqs, TryLock(r)
  PROVE  Inv'
<1>1. req[r] \in LockReqs /\ exists /\ attempt[r] < lockAttempts
  BY DEF Inv, TryLock, RequestInv, RightRequest, LockProgress
<1>2. UNCHANGED <<running, exists, current, serial, lineage, versions, req, seen>>
  BY DEF TryLock
<1>3. HistoryIsLinear' /\ NoRowNoState' /\ RowGrows
  BY <1>1, <1>2 DEF Inv, TypeOK, HistoryIsLinear, NoRowNoState, RowGrows
<1>4. CASE Lockable(r)
  <2>1. lock' = [id |-> req[r].id, step |-> req[r].step] /\ attempt' = attempt
        /\ pc' = [pc EXCEPT ![r] = "done"] /\ \E o \in {"ok", "error"} : reply' = [reply EXCEPT ![r] = o]
    BY <1>4 DEF TryLock, AnswerDone, Answer
  <2>2. lock' \in [id : LockIDs, step : Steps]
    BY <1>1, <2>1 DEF LockReqs
  <2>3. TypeOK' /\ \A q \in Reqs \ {r} : Bystander(q)
    BY <1>2, <2>1, <2>2 DEF Inv, TypeOK, Bystander
  <2>4. RequestInv(r)'
    BY <2>1 DEF Inv, TypeOK, RequestInv, RightRequest, LockProgress, CheckedWrite, PendingRead
  <2>5. QED
    BY <1>3, <2>3, <2>4, RequestStep
<1>5. CASE ~Lockable(r)
  <2>1. lock' = lock /\ attempt' = [attempt EXCEPT ![r] = @ + 1]
        /\ pc' = [pc EXCEPT ![r] = "holder"] /\ reply' = reply
    BY <1>5 DEF TryLock, Goto
  <2>2. TypeOK' /\ \A q \in Reqs \ {r} : Bystander(q)
    BY <1>1, <1>2, <2>1 DEF Inv, TypeOK, Bystander, lockAttempts
  <2>3. RequestInv(r)'
    BY <1>1, <1>2, <2>1 DEF Inv, TypeOK, RequestInv, RightRequest, LockProgress,
                            CheckedWrite, PendingRead
  <2>4. QED
    BY <1>3, <2>2, <2>3, RequestStep
<1>6. QED
  BY <1>4, <1>5

LEMMA ReadHolderKeeps ==
  ASSUME Inv, NEW r \in Reqs, ReadHolder(r)
  PROVE  Inv'
<1>1. TypeOK' /\ UNCHANGED row /\ \A q \in Reqs \ {r} : Bystander(q)
  BY DEF Inv, TypeOK, ReadHolder, Answer, Goto, Bystander, row
<1>2. RequestInv(r)'
  BY DEF Inv, TypeOK, ReadHolder, Answer, Goto, TryAgain, RequestInv, RightRequest,
         LockProgress, CheckedWrite, PendingRead, row
<1>3. QED
  BY <1>1, <1>2, QuietStep

LEMMA TryUnlockKeeps ==
  ASSUME Inv, NEW r \in Reqs, TryUnlock(r)
  PROVE  Inv'
<1>1. UNCHANGED <<running, exists, current, serial, lineage, versions, req, seen, attempt>>
      /\ (lock' = lock \/ lock' = NoLock)
  BY DEF TryUnlock
<1>2. HistoryIsLinear' /\ NoRowNoState' /\ RowGrows
  BY <1>1 DEF Inv, TypeOK, HistoryIsLinear, NoRowNoState, RowGrows
<1>3. \E l \in {"done", "refused"}, o \in {"ok", "error", reply[r]} :
        pc' = [pc EXCEPT ![r] = l] /\ reply' = [reply EXCEPT ![r] = o]
  BY DEF Inv, TypeOK, TryUnlock, Answer, AnswerDone, Goto
<1>4. TypeOK' /\ \A q \in Reqs \ {r} : Bystander(q)
  BY <1>1, <1>3 DEF Inv, TypeOK, Bystander
<1>5. RequestInv(r)'
  BY <1>1, <1>3 DEF Inv, TypeOK, TryUnlock, RequestInv, RightRequest, LockProgress,
                    CheckedWrite, PendingRead
<1>6. QED
  BY <1>2, <1>4, <1>5, RequestStep

LEMMA ExplainUnlockKeeps ==
  ASSUME Inv, NEW r \in Reqs, ExplainUnlock(r)
  PROVE  Inv'
<1>1. TypeOK' /\ UNCHANGED row /\ \A q \in Reqs \ {r} : Bystander(q)
  BY DEF Inv, TypeOK, ExplainUnlock, Answer, Bystander, row
<1>2. RequestInv(r)'
  BY DEF Inv, TypeOK, ExplainUnlock, Answer, RequestInv, RightRequest, LockProgress,
         CheckedWrite, PendingRead
<1>3. QED
  BY <1>1, <1>2, QuietStep

LEMMA CheckWriteKeeps ==
  ASSUME Inv, NEW r \in Reqs, CheckWrite(r)
  PROVE  Inv'
<1>1. pc[r] = "check" /\ req[r] \in WriteReqs /\ req[r].body.step = req[r].step /\ current \in Nat
  BY DEF Inv, CheckWrite, RequestInv, RightRequest, TypeOK
<1>2. UNCHANGED <<running, req, attempt>> /\ UNCHANGED row
  BY DEF CheckWrite
<1>3. \/ /\ pc' = [pc EXCEPT ![r] = "commit"] /\ reply' = reply
         /\ seen' = [seen EXCEPT ![r] = current]
         /\ req[r].step \in Writers
         /\ LineageAndSerialOK(req[r].body)
      \/ /\ pc' = [pc EXCEPT ![r] = "done"] /\ seen' = seen
         /\ \E o \in {"ok", "forbidden", "conflict"} : reply' = [reply EXCEPT ![r] = o]
  BY DEF CheckWrite, Answer, Goto, CanWrite
<1>4. TypeOK' /\ \A q \in Reqs \ {r} : Bystander(q)
  BY <1>1, <1>2, <1>3 DEF Inv, TypeOK, Bystander, row
<1>5. RequestInv(r)'
  <2>1. CASE pc' = [pc EXCEPT ![r] = "done"]
    BY <2>1 DEF Inv, TypeOK, RequestInv, RightRequest, LockProgress, CheckedWrite, PendingRead
  <2>2. CASE /\ pc' = [pc EXCEPT ![r] = "commit"] /\ seen' = [seen EXCEPT ![r] = current]
             /\ req[r].step \in Writers /\ LineageAndSerialOK(req[r].body)
    <3>1. pc'[r] = "commit" /\ seen'[r] = current /\ req' = req /\ current' = current
          /\ versions' = versions
      BY <1>2, <2>2 DEF Inv, TypeOK, row
    <3>2. current > 0 => /\ req[r].body.lineage = versions[current].lineage
                         /\ req[r].body.serial > versions[current].serial
      BY <1>1, <2>2 DEF LineageAndSerialOK, Inv, HistoryIsLinear
    <3>3. QED
      BY <1>1, <2>2, <3>1, <3>2 DEF RequestInv, RightRequest, LockProgress, CheckedWrite, PendingRead
  <2>3. QED
    BY <1>3, <2>1, <2>2
<1>6. QED
  BY <1>2, <1>4, <1>5, QuietStep

\* What a commit that moves the pointer does to the row.
LEMMA CommitStores ==
  ASSUME Inv, NEW r \in Reqs, CommitWrite(r), Insertable(r), PointerMoves(r)
  PROVE  /\ req[r] \in WriteReqs /\ req[r].body.step = req[r].step
         /\ lock = [id |-> req[r].id, step |-> req[r].step] /\ req[r].step \in Writers
         /\ current \in Nat /\ current' = current + 1
         /\ DOMAIN versions = 1 .. current
         /\ versions' = [i \in 1 .. current + 1 |->
                           IF i = current + 1 THEN req[r].body ELSE versions[i]]
         /\ current > 0 => /\ req[r].body.lineage = versions[current].lineage
                           /\ req[r].body.serial > versions[current].serial
         /\ serial' = req[r].body.serial /\ lineage' = req[r].body.lineage
<1>1. pc[r] = "commit" /\ seen[r] = current /\ current \in Nat /\ DOMAIN versions = 1 .. current
  BY DEF CommitWrite, PointerMoves, Inv, TypeOK, HistoryIsLinear
<1>2. RightRequest(r) /\ CheckedWrite(r)
  BY DEF Inv, RequestInv
<1>3. (1 .. current) \cup {current + 1} = 1 .. current + 1
  BY <1>1
<1>4. /\ versions' = [i \in DOMAIN versions \cup {current + 1} |->
                        IF i = current + 1 THEN req[r].body ELSE versions[i]]
      /\ current' = current + 1
      /\ serial' = req[r].body.serial /\ lineage' = req[r].body.lineage
  BY <1>1 DEF CommitWrite
<1>5. lock = [id |-> req[r].id, step |-> req[r].step]
  BY DEF PointerMoves, Holds
<1>6. versions' = [i \in 1 .. current + 1 |->
                     IF i = current + 1 THEN req[r].body ELSE versions[i]]
  BY <1>1, <1>3, <1>4
<1>7. QED
  BY <1>1, <1>2, <1>4, <1>5, <1>6 DEF RightRequest, CheckedWrite

LEMMA CommitWriteKeeps ==
  ASSUME Inv, NEW r \in Reqs, CommitWrite(r)
  PROVE  Inv'
<1>1. UNCHANGED <<running, exists, lock, req, seen, attempt>>
  BY DEF CommitWrite
<1>2. pc' = [pc EXCEPT ![r] = "done"]
      /\ \E o \in {"ok", "error", "conflict"} : reply' = [reply EXCEPT ![r] = o]
  BY DEF CommitWrite, Answer, AnswerDone
<1>3. RequestInv(r)'
  BY <1>2 DEF Inv, TypeOK, RequestInv, RightRequest, LockProgress, CheckedWrite, PendingRead
<1>4. \A q \in Reqs \ {r} : Bystander(q)
  BY <1>1, <1>2 DEF Inv, TypeOK, Bystander
<1>5. CASE Insertable(r) /\ PointerMoves(r)
  <2> DEFINE v == req[r].body
  <2>1. /\ req[r] \in WriteReqs /\ current \in Nat /\ current' = current + 1
        /\ lock = [id |-> req[r].id, step |-> req[r].step]
        /\ DOMAIN versions = 1 .. current
        /\ versions' = [i \in 1 .. current + 1 |->
                           IF i = current + 1 THEN v ELSE versions[i]]
        /\ current > 0 => v.lineage = versions[current].lineage
                          /\ v.serial > versions[current].serial
        /\ serial' = v.serial /\ lineage' = v.lineage
    BY <1>5, CommitStores
  <2>2. v \in Versions /\ v.serial \in Serials /\ v.lineage \in Lineages /\ v.serial \in Nat
    BY <2>1 DEF WriteReqs, Versions, Serials
  <2>3. TypeOK'
    <3>1. DOMAIN versions' \subseteq Nat /\ \A i \in DOMAIN versions' : versions'[i] \in Versions
      BY <2>1, <2>2 DEF Inv, TypeOK
    <3>2. QED
      BY <1>1, <1>2, <2>1, <2>2, <3>1 DEF Inv, TypeOK
  <2>4. \A i \in 1 .. current : versions[i] \in Versions /\ versions[i].serial \in Int
    <3>1. \A w \in Versions : w.serial \in Int
      BY DEF Versions, Serials
    <3>2. \A i \in 1 .. current : versions[i] \in Versions
      BY <2>1 DEF Inv, TypeOK
    <3>3. QED
      BY <3>1, <3>2
  <2>5. HistoryIsLinear'
    <3>1. ASSUME NEW i \in 1 .. current + 1, NEW j \in 1 .. current + 1, i < j
          PROVE  /\ versions'[i].serial < versions'[j].serial
                 /\ versions'[i].lineage = versions'[j].lineage
      <4>1. i \in 1 .. current /\ versions'[i] = versions[i]
        BY <2>1, <3>1
      <4>2. CASE j = current + 1
        <5>1. versions'[j] = v /\ current \in 1 .. current /\ current > 0
          BY <2>1, <3>1, <4>2
        <5>2. /\ i < current => versions[i].serial < versions[current].serial
              /\ versions[i].lineage = versions[current].lineage
          BY <2>1, <4>1, <5>1 DEF Inv, HistoryIsLinear
        <5>3. versions[i].serial \in Int /\ versions[current].serial \in Int
          BY <2>4, <4>1, <5>1
        <5>4. i = current \/ i < current
          BY <4>1, <2>1
        <5>5. QED
          BY <2>1, <2>2, <4>1, <5>1, <5>2, <5>3, <5>4
      <4>3. CASE j # current + 1
        <5>1. j \in 1 .. current /\ versions'[j] = versions[j]
          BY <2>1, <3>1, <4>3
        <5>2. QED
          BY <2>1, <3>1, <4>1, <5>1 DEF Inv, HistoryIsLinear
      <4>4. QED
        BY <4>2, <4>3
    <3>2. versions'[current'] = v /\ DOMAIN versions' = 1 .. current'
      BY <2>1
    <3>3. QED
      BY <2>1, <3>1, <3>2 DEF HistoryIsLinear
  <2>6. exists'
    BY <1>1, <2>1, TofuStateAssumption DEF Inv, NoRowNoState, WriteReqs
  <2>7. NoRowNoState' /\ RowGrows
    BY <2>1, <2>6 DEF NoRowNoState, RowGrows
  <2>8. QED
    BY <1>3, <1>4, <2>3, <2>5, <2>7, RequestStep
<1>6. CASE ~(Insertable(r) /\ PointerMoves(r))
  <2>1. UNCHANGED <<versions, current, serial, lineage>>
    BY <1>6 DEF CommitWrite
  <2>2. UNCHANGED row
    BY <1>1, <2>1 DEF row
  <2>3. TypeOK'
    BY <1>1, <1>2, <2>1 DEF Inv, TypeOK
  <2>4. QED
    BY <1>3, <1>4, <2>2, <2>3, QuietStep
<1>7. QED
  BY <1>5, <1>6

-----------------------------------------------------------------------------
(* The invariant *)

LEMMA InvInit == Init => Inv
<1> SUFFICES ASSUME Init PROVE Inv
  OBVIOUS
<1>1. TypeOK
  <2>1. DOMAIN versions = {} /\ 0 \in Serials
    BY TofuStateAssumption DEF Init, Serials
  <2>2. /\ running \in SUBSET Steps /\ exists \in BOOLEAN
        /\ lock \in [id : LockIDs, step : Steps] \cup {NoLock}
        /\ current \in Nat /\ serial \in Serials /\ lineage \in Lineages \cup {NoLineage}
    BY <2>1 DEF Init
  <2>3. /\ req \in [Reqs -> Requests \cup {NoReq}]
        /\ seen \in [Reqs -> Nat] /\ attempt \in [Reqs -> 0 .. lockAttempts]
    BY DEF Init, lockAttempts
  <2>4. QED
    BY <2>1, <2>2, <2>3 DEF Init, TypeOK
<1>2. HistoryIsLinear /\ NoRowNoState
  BY DEF Init, HistoryIsLinear, NoRowNoState
<1>3. \A r \in Reqs : RequestInv(r)
  BY DEF Init, RequestInv, RightRequest, LockProgress, CheckedWrite, PendingRead, lockAttempts
<1>4. QED
  BY <1>1, <1>2, <1>3 DEF Inv

LEMMA InvNext == Inv /\ [Next]_vars => Inv'
<1> SUFFICES ASSUME Inv, [Next]_vars PROVE Inv'
  OBVIOUS
<1>1. ASSUME NEW r \in Reqs, Handle(r) PROVE Inv'
  BY <1>1, AuthenticateKeeps, FailsKeeps, RespondKeeps, FindKeeps, FetchKeeps, EnsureFindKeeps,
     EnsureCreateKeeps, TryLockKeeps, ReadHolderKeeps, TryUnlockKeeps, ExplainUnlockKeeps,
     CheckWriteKeeps, CommitWriteKeeps
     DEF Handle
<1>2. ASSUME UNCHANGED <<row, pc, req, seen, attempt, reply>>, running' \in SUBSET Steps
      PROVE  Inv'
  <2>1. HistoryIsLinear' /\ NoRowNoState' /\ RowGrows
    BY <1>2, RowKeeps
  <2>2. TypeOK'
    BY <1>2 DEF Inv, TypeOK, row
  <2>3. \A q \in Reqs : RequestInv(q)'
    BY <1>2, <2>1, BystanderKeeps DEF Bystander
  <2>4. QED
    BY <2>1, <2>2, <2>3 DEF Inv
<1>3. ASSUME NEW s \in Steps, SetRunning(s) PROVE Inv'
  <2>1. running' \in SUBSET Steps
    BY <1>3 DEF SetRunning, Inv, TypeOK
  <2>2. QED
    BY <1>2, <1>3, <2>1 DEF SetRunning
<1>4. CASE UNCHANGED vars
  BY <1>2, <1>4 DEF vars, row, Inv, TypeOK
<1>5. QED
  BY <1>1, <1>3, <1>4 DEF Next

LEMMA Invariance == Spec => []Inv
<1>1. QED
  BY InvInit, InvNext, PTL DEF Spec

-----------------------------------------------------------------------------
(* Theorems *)

\* Type correctness of the state service; in particular Lock gives up after
\* lockAttempts conditional updates.
THEOREM TofuStateTypeCorrect == Spec => []TypeOK
<1>1. Inv => TypeOK
  BY DEF Inv
<1>2. QED
  BY <1>1, Invariance, PTL

\* The stored versions form one line, whatever requests overlap: the checks of
\* Write are made on one read of the row, and the conditional pointer update
\* makes them hold at the commit.
THEOREM TofuStateHistoryIsLinear == Spec => []HistoryIsLinear
<1>1. Inv => HistoryIsLinear
  BY DEF Inv
<1>2. QED
  BY <1>1, Invariance, PTL

\* The steps that move CurrentVersion are commits.
LEMMA OnlyCommitStores ==
  ASSUME Inv, [Next]_vars, ~UNCHANGED <<current, versions>>
  PROVE  \E r \in Reqs : CommitWrite(r) /\ Insertable(r) /\ PointerMoves(r)
<1>1. ASSUME NEW r \in Reqs, Handle(r)
      PROVE  CommitWrite(r) /\ Insertable(r) /\ PointerMoves(r)
  <2>1. ~UNCHANGED row
    BY DEF row
  <2>2. ~EnsureCreate(r)
    BY DEF EnsureCreate, Inv, NoRowNoState
  <2>3. ~TryLock(r) /\ ~TryUnlock(r)
    BY DEF TryLock, TryUnlock
  <2>4. CommitWrite(r)
    BY <1>1, <2>1, <2>2, <2>3 DEF Handle, Authenticate, Find, Fetch, EnsureFind, ReadHolder,
       ExplainUnlock, CheckWrite, Fails, Respond
  <2>5. QED
    BY <2>4 DEF CommitWrite
<1>2. QED
  BY <1>1 DEF Next, SetRunning, vars, row

\* A version is stored only while its step holds the lock with a write token,
\* although the token was checked before the body arrived and the lock before
\* the transaction.
THEOREM TofuStateWritesOnlyUnderLock == Spec => WritesOnlyUnderLock
<1>1. ASSUME Inv, [Next]_vars, current' # current
      PROVE  /\ lock # NoLock
             /\ versions'[current'].step = lock.step
             /\ lock.step \in Writers
  <2>1. PICK r \in Reqs : CommitWrite(r) /\ Insertable(r) /\ PointerMoves(r)
    BY <1>1, OnlyCommitStores
  <2>2. /\ req[r] \in WriteReqs /\ req[r].body.step = req[r].step
        /\ lock = [id |-> req[r].id, step |-> req[r].step] /\ req[r].step \in Writers
        /\ current \in Nat /\ current' = current + 1
        /\ versions' = [i \in 1 .. current + 1 |->
                           IF i = current + 1 THEN req[r].body ELSE versions[i]]
    BY <1>1, <2>1, CommitStores
  <2>3. versions'[current'] = req[r].body
    BY <2>2
  <2>4. lock \in [id : LockIDs, step : Steps]
    BY <2>2 DEF WriteReqs
  <2>5. QED
    BY <2>2, <2>3, <2>4, TofuStateAssumption
<1>2. QED
  BY <1>1, Invariance, PTL DEF Spec, WritesOnlyUnderLock

\* The steps that change the lock are Lock's update of a free lock and
\* Unlock's update of a matching one.
LEMMA LockChanges ==
  ASSUME Inv, [Next]_vars, lock' # lock
  PROVE  \E r \in Reqs :
           /\ req[r] \in LockReqs
           /\ UNCHANGED <<current, versions>>
           /\ \/ lock = NoLock /\ lock' = [id |-> req[r].id, step |-> req[r].step]
              \/ pc[r] = "unlock" /\ Unlockable(r) /\ lock' = NoLock
<1>1. PICK r \in Reqs : Handle(r)
  BY DEF Next, SetRunning, vars, row
<1>2. ~UNCHANGED row
  BY DEF row
<1>3. ~EnsureCreate(r)
  BY DEF EnsureCreate, Inv, NoRowNoState
<1>4. ~CommitWrite(r)
  BY DEF CommitWrite
<1>5. TryLock(r) \/ TryUnlock(r)
  BY <1>1, <1>2, <1>3, <1>4 DEF Handle, Authenticate, Find, Fetch, EnsureFind, ReadHolder,
     ExplainUnlock, CheckWrite, Fails, Respond
<1>6. req[r] \in LockReqs
  BY <1>5 DEF Inv, RequestInv, RightRequest, TryLock, TryUnlock
<1>7. CASE TryLock(r)
  <2>1. lock = NoLock /\ lock' = [id |-> req[r].id, step |-> req[r].step]
    BY <1>7 DEF TryLock, Lockable, Holds
  <2>2. QED
    BY <1>6, <1>7, <2>1 DEF TryLock
<1>8. CASE TryUnlock(r)
  <2>1. pc[r] = "unlock" /\ Unlockable(r) /\ lock' = NoLock
    BY <1>8 DEF TryUnlock
  <2>2. QED
    BY <1>6, <1>8, <2>1 DEF TryUnlock
<1>9. QED
  BY <1>5, <1>7, <1>8

\* A lock changes hands only through a release by its own step or by a write
\* token that names its id.
THEOREM TofuStateNoTakeover == Spec => NoTakeover
<1>1. ASSUME Inv, [Next]_vars, lock # NoLock, lock' # lock
      PROVE  /\ lock' = NoLock
             /\ \E r \in Reqs : /\ pc[r] = "unlock" /\ req[r].id = lock.id
                                /\ req[r].step \in Writers \cup {lock.step}
  BY <1>1, LockChanges DEF Unlockable, CanWrite
<1>2. QED
  BY <1>1, Invariance, PTL DEF Spec, NoTakeover

\* The service implements the abstract register: its initial state is one of
\* the register's, and each of its steps is a step of the register or leaves
\* lock and history alone.
THEOREM TofuStateImplementsRegister == Spec => ImplementsRegister
<1>1. Init => Register!Init
  BY DEF Init, Register!Init
<1>2. ASSUME Inv, [Next]_vars PROVE [Register!Next]_Register!vars
  <2>1. CASE UNCHANGED <<current, versions, lock>>
    BY <2>1 DEF Register!vars
  <2>2. CASE lock' # lock
    <3>1. PICK r \in Reqs :
           /\ req[r] \in LockReqs
           /\ UNCHANGED <<current, versions>>
           /\ \/ lock = NoLock /\ lock' = [id |-> req[r].id, step |-> req[r].step]
              \/ pc[r] = "unlock" /\ Unlockable(r) /\ lock' = NoLock
      BY <1>2, <2>2, LockChanges
    <3>2. req[r].id \in LockIDs /\ req[r].step \in Steps
      BY <3>1 DEF LockReqs
    <3>3. Register!Acquire(req[r].id, req[r].step) \/ Register!Release
      BY <2>2, <3>1 DEF Register!Acquire, Register!Release
    <3>4. QED
      BY <3>2, <3>3 DEF Register!Next
  <2>3. CASE lock' = lock /\ ~UNCHANGED <<current, versions>>
    <3>1. PICK r \in Reqs : CommitWrite(r) /\ Insertable(r) /\ PointerMoves(r)
      BY <1>2, <2>3, OnlyCommitStores
    <3>2. /\ req[r] \in WriteReqs /\ req[r].body.step = req[r].step
          /\ lock = [id |-> req[r].id, step |-> req[r].step] /\ req[r].step \in Writers
          /\ current \in Nat /\ current' = current + 1
          /\ versions' = [i \in 1 .. current + 1 |->
                           IF i = current + 1 THEN req[r].body ELSE versions[i]]
          /\ current > 0 => /\ req[r].body.lineage = versions[current].lineage
                            /\ req[r].body.serial > versions[current].serial
      BY <1>2, <3>1, CommitStores
    <3>3. lock # NoLock /\ lock.step = req[r].body.step /\ req[r].body \in Versions
      BY <3>2, TofuStateAssumption DEF WriteReqs
    <3>4. Register!Store(req[r].body)
      BY <2>3, <3>2, <3>3 DEF Register!Store
    <3>5. QED
      BY <3>3, <3>4 DEF Register!Next
  <2>4. QED
    BY <2>1, <2>2, <2>3
<1>3. QED
  BY <1>1, <1>2, Invariance, PTL DEF Spec, ImplementsRegister, Register!Spec

-----------------------------------------------------------------------------
(* Answers *)

\* The history only grows.
LEMMA HistoryGrows ==
  ASSUME Inv, [Next]_vars
  PROVE  /\ current \in Nat /\ current' \in Nat /\ current <= current'
         /\ DOMAIN versions \subseteq DOMAIN versions'
         /\ \A i \in DOMAIN versions : versions'[i] = versions[i]
<1>1. current \in Nat /\ DOMAIN versions = 1 .. current
  BY DEF Inv, TypeOK, HistoryIsLinear
<1>2. CASE UNCHANGED <<current, versions>>
  BY <1>1, <1>2
<1>3. CASE ~UNCHANGED <<current, versions>>
  <2>1. PICK r \in Reqs : CommitWrite(r) /\ Insertable(r) /\ PointerMoves(r)
    BY <1>3, OnlyCommitStores
  <2>2. /\ current' = current + 1
        /\ versions' = [i \in 1 .. current + 1 |->
                           IF i = current + 1 THEN req[r].body ELSE versions[i]]
    BY <2>1, CommitStores
  <2>3. QED
    BY <1>1, <2>2
<1>4. QED
  BY <1>2, <1>3

\* A request's step leaves the others' answers alone.
LEMMA OthersStay ==
  ASSUME Inv, NEW r \in Reqs, Handle(r), NEW q \in Reqs \ {r}
  PROVE  pc'[q] = pc[q] /\ req'[q] = req[q] /\ seen'[q] = seen[q] /\ reply'[q] = reply[q]
<1> USE DEF Inv, TypeOK, Answer, AnswerDone, Goto
<1>1. CASE Authenticate(r)
  BY <1>1 DEF Authenticate
<1>2. CASE Find(r) \/ Fetch(r)
  BY <1>2 DEF Find, Fetch
<1>3. CASE EnsureFind(r) \/ EnsureCreate(r)
  BY <1>3 DEF EnsureFind, EnsureCreate
<1>4. CASE TryLock(r)
  BY <1>4 DEF TryLock
<1>5. CASE ReadHolder(r)
  BY <1>5 DEF ReadHolder
<1>6. CASE TryUnlock(r)
  BY <1>6 DEF TryUnlock
<1>7. CASE ExplainUnlock(r)
  BY <1>7 DEF ExplainUnlock
<1>8. CASE CheckWrite(r)
  BY <1>8 DEF CheckWrite
<1>9. CASE CommitWrite(r)
  BY <1>9 DEF CommitWrite
<1>10. CASE Fails(r) \/ Respond(r)
  BY <1>10 DEF Fails, Respond
<1>11. QED
  BY <1>1, <1>2, <1>3, <1>4, <1>5, <1>6, <1>7, <1>8, <1>9, <1>10 DEF Handle

FreshRead(r) ==
  pc[r] = "done" /\ req[r].op = "read" =>
    /\ reply[r] # "missing"
    /\ reply[r] = "ok" => req[r].floor <= seen[r] /\ seen[r] <= current
    /\ reply[r] = "empty" => req[r].floor = 0

\* The answers of the request that takes the step.
LEMMA AnswersFresh ==
  ASSUME Inv, NEW r \in Reqs, Handle(r)
  PROVE  FreshRead(r)'
<1> SUFFICES ASSUME pc'[r] = "done", req'[r].op = "read" PROVE FreshRead(r)'
  BY DEF FreshRead
<1>1. RightRequest(r) /\ PendingRead(r) /\ current \in Nat /\ seen[r] \in Nat
      /\ DOMAIN versions = 1 .. current
  BY DEF Inv, RequestInv, TypeOK, HistoryIsLinear
<1>2. CASE Find(r)
  <2>1. pc[r] = "find" /\ reply'[r] = "empty" /\ current = 0 /\ req' = req
    BY <1>2 DEF Find, Answer, Goto, NoState, Inv, TypeOK
  <2>2. req[r].floor \in Nat /\ req[r].floor <= 0
    BY <1>1, <2>1 DEF RightRequest, PendingRead, ReadReqs
  <2>3. QED
    BY <2>1, <2>2 DEF FreshRead
<1>3. CASE Fetch(r)
  <2>1. /\ req[r].floor <= seen[r] /\ seen[r] <= current /\ seen[r] \in DOMAIN versions
    BY <1>1, <1>3 DEF Fetch, PendingRead
  <2>2. reply'[r] = "ok" /\ req' = req /\ seen' = seen /\ current' = current
    BY <1>3, <2>1 DEF Fetch, Answer, Inv, TypeOK, row
  <2>3. QED
    BY <2>1, <2>2 DEF FreshRead
<1>4. CASE Fails(r)
  <2>1. reply'[r] = "error"
    BY <1>4 DEF Fails, Answer, Inv, TypeOK
  <2>2. QED
    BY <2>1 DEF FreshRead
<1>5. ~Authenticate(r) /\ ~EnsureFind(r) /\ ~EnsureCreate(r) /\ ~Respond(r)
  BY DEF Authenticate, EnsureFind, EnsureCreate, Respond, Goto, Inv, TypeOK
<1>6. ~TryLock(r) /\ ~ReadHolder(r) /\ ~TryUnlock(r) /\ ~ExplainUnlock(r)
  BY <1>1 DEF TryLock, ReadHolder, TryUnlock, ExplainUnlock, RightRequest, LockReqs
<1>7. ~CheckWrite(r) /\ ~CommitWrite(r)
  BY <1>1 DEF CheckWrite, CommitWrite, RightRequest, WriteReqs
<1>8. QED
  BY <1>2, <1>3, <1>4, <1>5, <1>6, <1>7 DEF Handle

\* A read is two queries, and any number of writes may commit between them;
\* it still finds its version, and never one older than the request.
THEOREM TofuStateReadIsFresh == Spec => []ReadIsFresh
<1> DEFINE Fresh == \A r \in Reqs : FreshRead(r)
<1>1. Init => Fresh
  BY DEF Init, FreshRead
<1>2. ASSUME Inv, Fresh, [Next]_vars PROVE Fresh'
  <2>1. /\ current \in Nat /\ current' \in Nat /\ current <= current'
    BY <1>2, HistoryGrows
  <2>2. ASSUME NEW q \in Reqs,
               pc'[q] = pc[q] /\ req'[q] = req[q] /\ seen'[q] = seen[q] /\ reply'[q] = reply[q]
        PROVE  FreshRead(q)'
    <3>1. seen[q] \in Nat /\ FreshRead(q)
      BY <1>2 DEF Inv, TypeOK
    <3>2. QED
      BY <2>1, <2>2, <3>1 DEF FreshRead
  <2>3. ASSUME NEW r \in Reqs, Handle(r) PROVE Fresh'
    <3>1. ASSUME NEW q \in Reqs PROVE FreshRead(q)'
      BY <1>2, <2>2, <2>3, AnswersFresh, OthersStay
    <3>2. QED
      BY <3>1
  <2>4. CASE UNCHANGED <<pc, req, seen, reply>>
    BY <2>2, <2>4
  <2>5. QED
    BY <1>2, <2>3, <2>4 DEF Next, SetRunning, vars
<1>3. Fresh => ReadIsFresh
  BY DEF FreshRead, ReadIsFresh
<1>4. QED
  BY <1>1, <1>2, <1>3, Invariance, PTL DEF Spec

StoredWrite(r) ==
  pc[r] = "done" /\ reply[r] = "ok" /\ req[r].op = "write" =>
    \E i \in DOMAIN versions :
      /\ versions[i].serial = req[r].body.serial
      /\ versions[i].lineage = req[r].body.lineage
      /\ versions[i].md5 = req[r].body.md5

LEMMA AnswersStored ==
  ASSUME Inv, NEW r \in Reqs, Handle(r)
  PROVE  StoredWrite(r)'
<1> SUFFICES ASSUME pc'[r] = "done", reply'[r] = "ok", req'[r].op = "write" PROVE StoredWrite(r)'
  BY DEF StoredWrite
<1>1. RightRequest(r) /\ current \in Nat /\ DOMAIN versions = 1 .. current
      /\ (current > 0 => serial = versions[current].serial /\ lineage = versions[current].lineage)
  BY DEF Inv, RequestInv, TypeOK, HistoryIsLinear
<1>2. CASE CheckWrite(r)
  <2>1. IsRetry(req[r].body) /\ req' = req /\ versions' = versions
    BY <1>2 DEF CheckWrite, Answer, Goto, Inv, TypeOK, row
  <2>2. current \in DOMAIN versions
    BY <1>1, <2>1 DEF IsRetry
  <2>3. QED
    BY <1>1, <2>1, <2>2 DEF IsRetry, StoredWrite
<1>3. CASE CommitWrite(r)
  <2>1. Insertable(r) /\ PointerMoves(r) /\ req' = req
    BY <1>3 DEF CommitWrite, Answer, Inv, TypeOK
  <2>2. versions' = [i \in 1 .. current + 1 |->
                           IF i = current + 1 THEN req[r].body ELSE versions[i]]
    BY <1>3, <2>1, CommitStores
  <2>3. current + 1 \in DOMAIN versions' /\ versions'[current + 1] = req[r].body
    BY <1>1, <2>2
  <2>4. QED
    BY <2>1, <2>3 DEF StoredWrite
<1>4. ~Authenticate(r) /\ ~EnsureFind(r) /\ ~EnsureCreate(r) /\ ~Respond(r) /\ ~Fails(r)
  BY DEF Authenticate, EnsureFind, EnsureCreate, Respond, Fails, Answer, Goto, Inv, TypeOK
<1>5. ~TryLock(r) /\ ~ReadHolder(r) /\ ~TryUnlock(r) /\ ~ExplainUnlock(r)
  BY <1>1 DEF TryLock, ReadHolder, TryUnlock, ExplainUnlock, RightRequest, LockReqs
<1>6. ~Find(r) /\ ~Fetch(r)
  BY <1>1 DEF Find, Fetch, RightRequest, ReadReqs
<1>7. QED
  BY <1>2, <1>3, <1>4, <1>5, <1>6 DEF Handle

\* A write that was answered with success, as a new version or as a retry of
\* the newest one, stays in the history whatever is written afterwards.
THEOREM TofuStateAcknowledgedWriteIsStored == Spec => []AcknowledgedWriteIsStored
<1> DEFINE Stored == \A r \in Reqs : StoredWrite(r)
<1>1. Init => Stored
  BY DEF Init, StoredWrite
<1>2. ASSUME Inv, Stored, [Next]_vars PROVE Stored'
  <2>1. /\ DOMAIN versions \subseteq DOMAIN versions'
        /\ \A i \in DOMAIN versions : versions'[i] = versions[i]
    BY <1>2, HistoryGrows
  <2>2. ASSUME NEW q \in Reqs, pc'[q] = pc[q] /\ req'[q] = req[q] /\ reply'[q] = reply[q]
        PROVE  StoredWrite(q)'
    <3>1. SUFFICES ASSUME pc[q] = "done" /\ reply[q] = "ok" /\ req[q].op = "write"
                   PROVE  \E i \in DOMAIN versions' :
                            /\ versions'[i].serial = req[q].body.serial
                            /\ versions'[i].lineage = req[q].body.lineage
                            /\ versions'[i].md5 = req[q].body.md5
      BY <2>2 DEF StoredWrite
    <3>2. PICK i \in DOMAIN versions : /\ versions[i].serial = req[q].body.serial
                                       /\ versions[i].lineage = req[q].body.lineage
                                       /\ versions[i].md5 = req[q].body.md5
      BY <1>2, <3>1 DEF StoredWrite
    <3>3. QED
      BY <2>1, <3>2
  <2>3. ASSUME NEW r \in Reqs, Handle(r) PROVE Stored'
    <3>1. ASSUME NEW q \in Reqs PROVE StoredWrite(q)'
      BY <1>2, <2>2, <2>3, AnswersStored, OthersStay
    <3>2. QED
      BY <3>1
  <2>4. CASE UNCHANGED <<pc, req, reply>>
    BY <2>2, <2>4
  <2>5. QED
    BY <1>2, <2>3, <2>4 DEF Next, SetRunning, vars
<1>3. Stored => AcknowledgedWriteIsStored
  BY DEF StoredWrite, AcknowledgedWriteIsStored
<1>4. QED
  BY <1>1, <1>2, <1>3, Invariance, PTL DEF Spec

=============================================================================
