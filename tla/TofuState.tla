------------------------------ MODULE TofuState ------------------------------
(***************************************************************************)
(* Managed OpenTofu state: lib/tofustate/service.go behind the handlers of *)
(* lib/api/tofustate.go, for one component workspace.                      *)
(*                                                                         *)
(* The database holds one state row (its lock, the current version, the    *)
(* serial and the lineage) and the append-only versions.  Requests of any  *)
(* serve replica run concurrently; each is a sequence of single statements *)
(* and one transaction, and between two of them every other request, the   *)
(* worker that settles steps, and a failure of the connection may come.    *)
(* Clients are not constrained: a request may be late, repeated, or sent   *)
(* by a pod whose step has long been settled.                              *)
(*                                                                         *)
(* Abstracted: the body is its header and its digest; sealing, sizes and   *)
(* malformed requests (which change nothing) are left out.                 *)
(***************************************************************************)
EXTENDS Integers, FiniteSets

CONSTANTS Reqs,       \* request slots: how many requests run at a time
          Steps,      \* component runs a token was minted for
          Writers,    \* the steps whose token has the write scope
          LockIDs, Lineages, Digests,
          MaxSerial,  \* bound on the serials clients send
          NoLock, NoReq, NoLineage

ASSUME TofuStateAssumption ==
  /\ Writers \subseteq Steps
  /\ MaxSerial \in Nat
  /\ NoLock \notin [id : LockIDs, step : Steps]
  /\ NoLineage \notin Lineages

lockAttempts == 3

Serials == 0 .. MaxSerial

Versions == [serial : Serials, lineage : Lineages, md5 : Digests, step : Steps]

VARIABLES
  running,   \* steps whose component run has status running
  exists,    \* the state row exists
  lock,      \* row: LockID and LockedByComponentRunID, or NoLock
  current,   \* row: CurrentVersion
  serial,    \* row: Serial
  lineage,   \* row: Lineage
  versions,  \* version number -> stored version (the key is the unique index)
  pc,        \* request -> the statement it executes next
  req,       \* request -> [op, step, id, body], or NoReq
  seen,      \* request -> CurrentVersion of the row it has read
  attempt,   \* request -> conditional updates Lock has made
  reply      \* request -> its outcome

row == <<exists, lock, current, serial, lineage, versions>>
vars == <<running, exists, lock, current, serial, lineage, versions,
          pc, req, seen, attempt, reply>>

\* floor is not sent: it remembers CurrentVersion when the read came in.
Requests ==
  [op : {"read"}, step : Steps, floor : Nat]
    \cup [op : {"lock", "unlock"}, step : Steps, id : LockIDs]
    \cup [op : {"write"}, step : Steps, id : LockIDs, body : Versions]

\* Mutant: the token's scope is not looked at.
CanWrite_Always(s) == TRUE

CanWrite(s) == s \in Writers

Holds(id, s) == lock = [id |-> id, step |-> s]

-----------------------------------------------------------------------------
(* Control of a request *)

Goto(r, label) ==
  /\ pc' = [pc EXCEPT ![r] = label]
  /\ UNCHANGED reply

Answer(r, outcome) ==
  /\ pc' = [pc EXCEPT ![r] = "done"]
  /\ reply' = [reply EXCEPT ![r] = outcome]

\* The statement took effect; whether the caller learns of it is open.
AnswerDone(r) == Answer(r, "ok") \/ Answer(r, "error")

\* tofuStateClaims: the token's step must be running now.  The body is read
\* afterwards, so the request may go on much later.
Authenticate(r) ==
  /\ pc[r] = "idle"
  /\ \E s \in running :
       \/ /\ req' = [req EXCEPT ![r] = [op |-> "read", step |-> s, floor |-> current]]
          /\ Goto(r, "find")
       \/ \E id \in LockIDs :
            /\ req' = [req EXCEPT ![r] = [op |-> "lock", step |-> s, id |-> id]]
            /\ Goto(r, "ensure")
       \/ \E id \in LockIDs :
            /\ req' = [req EXCEPT ![r] = [op |-> "unlock", step |-> s, id |-> id]]
            /\ Goto(r, "unlock")
       \/ \E id \in LockIDs, v \in Versions :
            /\ v.step = s
            /\ req' = [req EXCEPT ![r] = [op |-> "write", step |-> s, id |-> id, body |-> v]]
            /\ Goto(r, "check")
  /\ UNCHANGED <<running, row, seen, attempt>>

\* A query fails or the client goes away: the handler returns an error.
Fails(r) ==
  /\ pc[r] \notin {"idle", "done"}
  /\ Answer(r, "error")
  /\ UNCHANGED <<running, row, req, seen, attempt>>

\* The response is written and the slot is free again.
Respond(r) ==
  /\ pc[r] = "done"
  /\ pc' = [pc EXCEPT ![r] = "idle"]
  /\ req' = [req EXCEPT ![r] = NoReq]
  /\ seen' = [seen EXCEPT ![r] = 0]
  /\ attempt' = [attempt EXCEPT ![r] = 0]
  /\ reply' = [reply EXCEPT ![r] = "none"]
  /\ UNCHANGED <<running, row>>

-----------------------------------------------------------------------------
(* Read *)

\* Mutant: a row without versions is not told apart.
NoState_NoRow == ~exists

NoState == current = 0

\* findState; "no state" when there is no row or no version.
Find(r) ==
  /\ pc[r] = "find"
  /\ IF NoState
     THEN Answer(r, "empty") /\ UNCHANGED seen
     ELSE Goto(r, "fetch") /\ seen' = [seen EXCEPT ![r] = current]
  /\ UNCHANGED <<running, row, req, attempt>>

\* The version row is queried on its own; Only() fails when there is none.
Fetch(r) ==
  /\ pc[r] = "fetch"
  /\ Answer(r, IF seen[r] \in DOMAIN versions THEN "ok" ELSE "missing")
  /\ UNCHANGED <<running, row, req, seen, attempt>>

-----------------------------------------------------------------------------
(* Lock and Unlock *)

\* ensureState: find the row, else insert it; the loser of two first inserts
\* meets the unique index and reads the winner's row.
EnsureFind(r) ==
  /\ pc[r] = "ensure"
  /\ Goto(r, IF exists THEN "lock" ELSE "create")
  /\ UNCHANGED <<running, row, req, seen, attempt>>

EnsureCreate(r) ==
  /\ pc[r] = "create"
  /\ exists' = TRUE
  /\ IF exists
     THEN UNCHANGED <<lock, current, serial, lineage>>
     ELSE lock' = NoLock /\ current' = 0 /\ serial' = 0 /\ lineage' = NoLineage
  /\ Goto(r, "lock")
  /\ UNCHANGED <<running, versions, req, seen, attempt>>

\* Mutant: the lock id alone is enough to lock again.
Lockable_ById(r) == IF lock = NoLock THEN TRUE ELSE lock.id = req[r].id

\* The predicate of the conditional UPDATE: free, or already this step's lock
\* with this id.
Lockable(r) == lock = NoLock \/ Holds(req[r].id, req[r].step)

TryLock(r) ==
  /\ pc[r] = "lock"
  /\ IF Lockable(r)
     THEN /\ lock' = [id |-> req[r].id, step |-> req[r].step]
          /\ AnswerDone(r)
          /\ UNCHANGED attempt
     ELSE /\ attempt' = [attempt EXCEPT ![r] = @ + 1]
          /\ Goto(r, "holder")
          /\ UNCHANGED lock
  /\ UNCHANGED <<running, exists, current, serial, lineage, versions, req, seen>>

TryAgain(r) == attempt[r] < lockAttempts

\* Read the holder for the 423; released meanwhile means another attempt.
ReadHolder(r) ==
  /\ pc[r] = "holder"
  /\ IF lock # NoLock THEN Answer(r, "locked")
     ELSE IF TryAgain(r) THEN Goto(r, "lock")
     ELSE Answer(r, "conflict")
  /\ UNCHANGED <<running, row, req, seen, attempt>>

\* The predicate of Unlock's UPDATE: the lock id, for a read token also its
\* own step.
Unlockable(r) ==
  /\ lock # NoLock /\ lock.id = req[r].id
  /\ CanWrite(req[r].step) \/ lock.step = req[r].step

TryUnlock(r) ==
  /\ pc[r] = "unlock"
  /\ IF ~exists THEN Answer(r, "ok") /\ UNCHANGED lock
     ELSE IF Unlockable(r)
     THEN lock' = NoLock /\ AnswerDone(r)
     ELSE Goto(r, "refused") /\ UNCHANGED lock
  /\ UNCHANGED <<running, exists, current, serial, lineage, versions, req, seen, attempt>>

\* Why it matched nothing, from a second read of the row.
ExplainUnlock(r) ==
  /\ pc[r] = "refused"
  /\ Answer(r, IF lock = NoLock THEN "ok"
               ELSE IF lock.id # req[r].id THEN "locked" ELSE "forbidden")
  /\ UNCHANGED <<running, row, req, seen, attempt>>

-----------------------------------------------------------------------------
(* Write *)

\* Mutant: the stored serial is accepted again.
LineageAndSerialOK_SameSerial(v) ==
  current > 0 => v.lineage = lineage /\ v.serial >= serial

\* The guards, on one read of the row: scope, lock, lineage, serial.
LineageAndSerialOK(v) ==
  current > 0 => v.lineage = lineage /\ v.serial > serial

\* Mutant: a retry is not compared byte for byte.
IsRetry_BySerial(v) ==
  current > 0 /\ v.lineage = lineage /\ v.serial = serial

IsRetry(v) ==
  /\ current > 0 /\ v.lineage = lineage /\ v.serial = serial
  /\ versions[current].md5 = v.md5

CheckWrite(r) ==
  LET v == req[r].body IN
  /\ pc[r] = "check"
  /\ IF ~CanWrite(req[r].step)
     THEN Answer(r, "forbidden") /\ UNCHANGED seen
     ELSE IF ~Holds(req[r].id, req[r].step)
     THEN Answer(r, "conflict") /\ UNCHANGED seen
     ELSE IF LineageAndSerialOK(v)
     THEN Goto(r, "commit") /\ seen' = [seen EXCEPT ![r] = current]
     ELSE Answer(r, IF IsRetry(v) THEN "ok" ELSE "conflict") /\ UNCHANGED seen
  /\ UNCHANGED <<running, row, req, attempt>>

\* The transaction: insert version seen + 1, move the pointer from the seen
\* version while the lock is still held, or roll both back.
Insertable(r) == seen[r] + 1 \notin DOMAIN versions

\* Mutant: the lock is not checked again when the pointer moves.
PointerMoves_Unlocked(r) == current = seen[r]

PointerMoves(r) == current = seen[r] /\ Holds(req[r].id, req[r].step)

CommitWrite(r) ==
  LET v == req[r].body
      next == seen[r] + 1
  IN
  /\ pc[r] = "commit"
  /\ IF Insertable(r) /\ PointerMoves(r)
     THEN /\ versions' = [i \in DOMAIN versions \cup {next} |->
                            IF i = next THEN v ELSE versions[i]]
          /\ current' = next
          /\ serial' = v.serial
          /\ lineage' = v.lineage
          /\ AnswerDone(r)
     ELSE Answer(r, "conflict") /\ UNCHANGED <<versions, current, serial, lineage>>
  /\ UNCHANGED <<running, exists, lock, req, seen, attempt>>

-----------------------------------------------------------------------------
(* The worker: a step starts, settles, or runs again on a retry *)

SetRunning(s) ==
  /\ running' = IF s \in running THEN running \ {s} ELSE running \cup {s}
  /\ UNCHANGED <<row, pc, req, seen, attempt, reply>>

-----------------------------------------------------------------------------
(* Specification *)

Init ==
  /\ running = {}
  /\ exists = FALSE
  /\ lock = NoLock
  /\ current = 0
  /\ serial = 0
  /\ lineage = NoLineage
  /\ versions = [i \in 1 .. 0 |-> 0]
  /\ pc = [r \in Reqs |-> "idle"]
  /\ req = [r \in Reqs |-> NoReq]
  /\ seen = [r \in Reqs |-> 0]
  /\ attempt = [r \in Reqs |-> 0]
  /\ reply = [r \in Reqs |-> "none"]

Handle(r) ==
  \/ Authenticate(r)
  \/ Find(r) \/ Fetch(r)
  \/ EnsureFind(r) \/ EnsureCreate(r) \/ TryLock(r) \/ ReadHolder(r)
  \/ TryUnlock(r) \/ ExplainUnlock(r)
  \/ CheckWrite(r) \/ CommitWrite(r)
  \/ Fails(r) \/ Respond(r)

Next ==
  \/ \E r \in Reqs : Handle(r)
  \/ \E s \in Steps : SetRunning(s)

Spec == Init /\ [][Next]_vars

-----------------------------------------------------------------------------
(* Properties *)

\* The row, the versions and the requests have their types; Lock makes at most
\* lockAttempts conditional updates.
TypeOK ==
  /\ running \in SUBSET Steps
  /\ exists \in BOOLEAN
  /\ lock \in [id : LockIDs, step : Steps] \cup {NoLock}
  /\ current \in Nat
  /\ serial \in Serials
  /\ lineage \in Lineages \cup {NoLineage}
  /\ DOMAIN versions \subseteq Nat
  /\ \A i \in DOMAIN versions : versions[i] \in Versions
  /\ pc \in [Reqs -> {"idle", "find", "fetch", "ensure", "create", "lock", "holder",
                      "unlock", "refused", "check", "commit", "done"}]
  /\ req \in [Reqs -> Requests \cup {NoReq}]
  /\ seen \in [Reqs -> Nat]
  /\ attempt \in [Reqs -> 0 .. lockAttempts]
  /\ reply \in [Reqs -> {"none", "ok", "error", "empty", "missing", "locked",
                         "conflict", "forbidden"}]

\* The stored versions are 1 .. CurrentVersion, with one lineage and strictly
\* increasing serials, and the row describes the newest: no interleaving of
\* checked-then-committed writes leaves a gap, a fork or a step backwards.
HistoryIsLinear ==
  /\ DOMAIN versions = 1 .. current
  /\ current > 0 => /\ serial = versions[current].serial
                    /\ lineage = versions[current].lineage
  /\ \A i, j \in DOMAIN versions : i < j =>
       /\ versions[i].serial < versions[j].serial
       /\ versions[i].lineage = versions[j].lineage

\* A write answered with success is in the history as it was sent, also when
\* it was answered as a retry and when other writes followed.
AcknowledgedWriteIsStored ==
  \A r \in Reqs : pc[r] = "done" /\ reply[r] = "ok" /\ req[r].op = "write" =>
    \E i \in DOMAIN versions :
      /\ versions[i].serial = req[r].body.serial
      /\ versions[i].lineage = req[r].body.lineage
      /\ versions[i].md5 = req[r].body.md5

\* Reads are two queries, yet a read never misses its version and never
\* returns one older than what was current when it was authenticated.
ReadIsFresh ==
  \A r \in Reqs : pc[r] = "done" /\ req[r].op = "read" =>
    /\ reply[r] # "missing"
    /\ reply[r] = "ok" => req[r].floor <= seen[r] /\ seen[r] <= current
    /\ reply[r] = "empty" => req[r].floor = 0

\* A version is stored only for the step that holds the lock at that moment
\* and has a write token, whatever was true when the write was checked.
WritesOnlyUnderLock ==
  [][current' # current => /\ lock # NoLock
                           /\ versions'[current'].step = lock.step
                           /\ lock.step \in Writers]_vars

\* A lock never passes from one holder to another: it is released first, by
\* its own step or by a write token that names its id.
NoTakeover ==
  [][(lock # NoLock /\ lock' # lock) =>
       /\ lock' = NoLock
       /\ \E r \in Reqs : /\ pc[r] = "unlock" /\ req[r].id = lock.id
                          /\ req[r].step \in Writers \cup {lock.step}]_vars

\* The service implements the abstract versioned register.
Register == INSTANCE VersionedRegister WITH length <- current, history <- versions

ImplementsRegister == Register!Spec

=============================================================================
