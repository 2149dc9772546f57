--------------------------- MODULE VersionedRegister ---------------------------
(***************************************************************************)
(* What managed OpenTofu state promises its callers: a lock that one step  *)
(* holds at a time, and a history of versions that only grows, one version *)
(* at a time, by the step that holds the lock, with one lineage and        *)
(* strictly increasing serials.  TofuState is shown to implement it.       *)
(***************************************************************************)
EXTENDS Integers

CONSTANTS Steps, Writers, LockIDs, Versions, NoLock

VARIABLES
  length,   \* number of versions stored
  history,  \* version number -> version
  lock      \* [id, step] of the holder, or NoLock

vars == <<length, history, lock>>

Init ==
  /\ length = 0
  /\ history = [i \in 1 .. 0 |-> 0]
  /\ lock = NoLock

Acquire(id, s) ==
  /\ lock = NoLock
  /\ lock' = [id |-> id, step |-> s]
  /\ UNCHANGED <<length, history>>

Release ==
  /\ lock # NoLock
  /\ lock' = NoLock
  /\ UNCHANGED <<length, history>>

Store(v) ==
  /\ lock # NoLock
  /\ lock.step = v.step /\ v.step \in Writers
  /\ length > 0 => /\ v.lineage = history[length].lineage
                   /\ v.serial > history[length].serial
  /\ length' = length + 1
  /\ history' = [i \in 1 .. length + 1 |-> IF i = length + 1 THEN v ELSE history[i]]
  /\ UNCHANGED lock

Next ==
  \/ \E id \in LockIDs, s \in Steps : Acquire(id, s)
  \/ Release
  \/ \E v \in Versions : Store(v)

Spec == Init /\ [][Next]_vars

=============================================================================
