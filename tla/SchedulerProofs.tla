--------------------------- MODULE SchedulerProofs ---------------------------
(***************************************************************************)
(* Proofs about Scheduler, for any number of nodes, any acyclic node list  *)
(* and any concurrency.                                                    *)
(***************************************************************************)
EXTENDS Scheduler, FiniteSetTheorems, WellFoundedInduction, TLAPS

-----------------------------------------------------------------------------
(* The inductive invariant *)

\* A goroutine's node is unsettled until the goroutine settles it.
ResultsMatchWorkers ==
  \A n \in Nodes :
    /\ worker[n] \in {"queued", "running"} => results[n] = "none"
    /\ worker[n] \in {"settled", "received"} => results[n] # "none"

\* launched is folded into pending when the sweep ends.
LaunchedOnlyInSweep == main # "sweep" => launched = 0

CoreInv ==
  TypeOK /\ ResultsMatchWorkers /\ LaunchedOnlyInSweep /\ NoGoroutineLeaks

-----------------------------------------------------------------------------
(* Lemmas about Outstanding *)

\* Outstanding is finite, so its cardinality is a number that is zero exactly
\* when no goroutine is left.
LEMMA OutstandingFinite ==
  /\ IsFiniteSet(Outstanding)
  /\ Cardinality(Outstanding) \in Nat
  /\ Cardinality(Outstanding) = 0 <=> Outstanding = {}
<1>1. IsFiniteSet(Nodes)
  BY SchedulerAssumption, FS_Interval DEF Nodes
<1>2. IsFiniteSet(Outstanding)
  BY <1>1, FS_Subset DEF Outstanding
<1> QED
  BY <1>2, FS_CardinalityType, FS_EmptySet

\* Handing in an id takes exactly one goroutine out of Outstanding.
LEMMA ReceivedLeavesOutstanding ==
  ASSUME TypeOK, NEW n \in Nodes, worker[n] = "settled",
         worker' = [worker EXCEPT ![n] = "received"]
  PROVE  /\ Cardinality(Outstanding') = Cardinality(Outstanding) - 1
         /\ Cardinality(Outstanding) >= 1
         /\ Cardinality(Outstanding') = 0 <=> Outstanding' = {}
<1>1. Outstanding' = Outstanding \ {n} /\ n \in Outstanding
  BY DEF Outstanding, TypeOK
<1>2. /\ IsFiniteSet(Outstanding \ {n})
      /\ Cardinality(Outstanding \ {n}) = Cardinality(Outstanding) - 1
  BY <1>1, OutstandingFinite, FS_RemoveElement
<1>3. Cardinality(Outstanding \ {n}) \in Nat
  BY <1>2, FS_CardinalityType
<1>4. Cardinality(Outstanding \ {n}) = 0 <=> Outstanding \ {n} = {}
  BY <1>2, FS_EmptySet
<1> QED
  BY <1>1, <1>2, <1>3, <1>4, OutstandingFinite

\* Launching a node that has no goroutine yet adds exactly one.
LEMMA LaunchEntersOutstanding ==
  ASSUME TypeOK, NEW n \in Nodes, n \notin Outstanding,
         worker' = [worker EXCEPT ![n] = "queued"]
  PROVE  Cardinality(Outstanding') = Cardinality(Outstanding) + 1
<1>1. Outstanding' = Outstanding \cup {n}
  BY DEF Outstanding, TypeOK
<1> QED
  BY <1>1, OutstandingFinite, FS_AddElement

\* A goroutine that moves on between queued, running and settled stays
\* outstanding.
LEMMA MoveKeepsOutstanding ==
  ASSUME TypeOK, NEW n \in Nodes, n \in Outstanding,
         NEW w \in {"running", "settled"}, worker' = [worker EXCEPT ![n] = w]
  PROVE  Outstanding' = Outstanding
  BY DEF Outstanding, TypeOK

-----------------------------------------------------------------------------
(* CoreInv is inductive *)

\* The scheduler starts with nothing launched and nothing settled.
LEMMA CoreInvInit == Init => CoreInv
<1> SUFFICES ASSUME Init PROVE CoreInv
  OBVIOUS
<1>1. TypeOK
  <2>1. 1 \in 1 .. N + 1
    BY SchedulerAssumption
  <2> QED
    BY <2>1 DEF Init, TypeOK
<1>2. ResultsMatchWorkers /\ LaunchedOnlyInSweep
  BY DEF Init, ResultsMatchWorkers, LaunchedOnlyInSweep
<1>3. Outstanding = {}
  BY DEF Init, Outstanding
<1>4. NoGoroutineLeaks
  BY <1>3, OutstandingFinite DEF Init, NoGoroutineLeaks
<1> QED
  BY <1>1, <1>2, <1>4 DEF CoreInv

\* Every step of the main goroutine, of a node's goroutine and of whoever
\* cancels the context preserves CoreInv.
LEMMA CoreInvNext == CoreInv /\ [Next]_vars => CoreInv'
<1> SUFFICES ASSUME CoreInv, [Next]_vars PROVE CoreInv'
  OBVIOUS
<1> USE SchedulerAssumption
<1>c. 1 \in 1 .. N + 1
  OBVIOUS
<1>t. TypeOK /\ ResultsMatchWorkers /\ LaunchedOnlyInSweep /\ NoGoroutineLeaks
  BY DEF CoreInv
<1>o. Cardinality(Outstanding) \in Nat
  BY OutstandingFinite
<1>1. ASSUME NEW n \in Nodes, Pass(n) PROVE CoreInv'
  <2>1. TypeOK'
    BY <1>1, <1>t DEF Pass, Visiting, StepCursor, TypeOK, nodeList, Nodes
  <2>2. ResultsMatchWorkers' /\ LaunchedOnlyInSweep'
    BY <1>1, <1>t DEF Pass, StepCursor, ResultsMatchWorkers, LaunchedOnlyInSweep
  <2>3. NoGoroutineLeaks'
    BY <1>1, <1>t DEF Pass, StepCursor, NoGoroutineLeaks, Outstanding
  <2> QED BY <2>1, <2>2, <2>3 DEF CoreInv
<1>2. ASSUME NEW n \in Nodes, SettleInPlace(n) PROVE CoreInv'
  <2>1. TypeOK'
    BY <1>2, <1>t DEF SettleInPlace, Visiting, StepCursor, Progress, Terminal,
                      TypeOK, nodeList, Nodes
  <2>2. worker[n] \notin {"queued", "running"}
    BY <1>2 DEF SettleInPlace, Sweepable, inflight
  <2>3. ResultsMatchWorkers' /\ LaunchedOnlyInSweep'
    BY <1>2, <1>t, <2>2 DEF SettleInPlace, StepCursor, ResultsMatchWorkers, TypeOK,
                            LaunchedOnlyInSweep, Terminal
  <2>4. NoGoroutineLeaks'
    BY <1>2, <1>t DEF SettleInPlace, StepCursor, NoGoroutineLeaks, Outstanding
  <2> QED BY <2>1, <2>3, <2>4 DEF CoreInv
<1>3. ASSUME NEW n \in Nodes, Park(n) PROVE CoreInv'
  <2>1. TypeOK'
    BY <1>3, <1>t DEF Park, Visiting, StepCursor, Progress, TypeOK, nodeList, Nodes
  <2>2. ResultsMatchWorkers' /\ LaunchedOnlyInSweep'
    BY <1>3, <1>t DEF Park, StepCursor, ResultsMatchWorkers, LaunchedOnlyInSweep
  <2>3. NoGoroutineLeaks'
    BY <1>3, <1>t DEF Park, StepCursor, NoGoroutineLeaks, Outstanding
  <2> QED BY <2>1, <2>2, <2>3 DEF CoreInv
<1>4. ASSUME NEW n \in Nodes, Launch(n) PROVE CoreInv'
  <2>1. TypeOK'
    BY <1>4, <1>t DEF Launch, Visiting, StepCursor, TypeOK, nodeList, Nodes
  <2>2. results[n] = "none" /\ n \notin Outstanding /\ main = "sweep"
    BY <1>4, <1>t DEF Launch, Visiting, Sweepable, Settled, inflight, Outstanding,
                      ResultsMatchWorkers, TypeOK
  <2>3. ResultsMatchWorkers' /\ LaunchedOnlyInSweep'
    BY <1>4, <1>t, <2>2 DEF Launch, StepCursor, ResultsMatchWorkers, LaunchedOnlyInSweep, TypeOK
  <2>4. Cardinality(Outstanding') = Cardinality(Outstanding) + 1
    BY <1>4, <1>t, <2>2, LaunchEntersOutstanding DEF Launch
  <2>5. launched' = launched + 1 /\ pending' = pending /\ main' = "sweep"
    BY <1>4, <2>2 DEF Launch, StepCursor
  <2>6. NoGoroutineLeaks'
    BY <1>t, <1>o, <2>4, <2>5 DEF NoGoroutineLeaks, TypeOK
  <2> QED BY <2>1, <2>3, <2>6 DEF CoreInv
<1>5. CASE NextPass
  <2>1. TypeOK'
    BY <1>5, <1>t, <1>c DEF NextPass, TypeOK, nodeList
  <2>2. ResultsMatchWorkers' /\ LaunchedOnlyInSweep'
    BY <1>5, <1>t DEF NextPass, ResultsMatchWorkers, LaunchedOnlyInSweep
  <2>3. NoGoroutineLeaks'
    BY <1>5, <1>t DEF NextPass, NoGoroutineLeaks, Outstanding
  <2> QED BY <2>1, <2>2, <2>3 DEF CoreInv
<1>6. CASE SweepEnd
  <2>1. FinalStatus \in {"succeeded", "failed", "partial", "suspended"}
    BY DEF FinalStatus
  <2>2. TypeOK'
    BY <1>6, <1>t, <2>1 DEF SweepEnd, NowPending, TypeOK, nodeList, Nodes
  <2>3. ResultsMatchWorkers' /\ LaunchedOnlyInSweep'
    BY <1>6, <1>t DEF SweepEnd, ResultsMatchWorkers, LaunchedOnlyInSweep
  <2>4. Outstanding' = Outstanding
    BY <1>6 DEF SweepEnd, Outstanding
  <2>5. pending' = pending + launched /\ launched' = 0
    BY <1>6 DEF SweepEnd, NowPending
  <2>6. main' = "returned" => pending + launched = 0
    BY <1>6, <1>t DEF SweepEnd, NowPending, TypeOK
  <2>7. NoGoroutineLeaks'
    BY <1>t, <1>o, <2>4, <2>5, <2>6, OutstandingFinite DEF NoGoroutineLeaks, TypeOK
  <2> QED BY <2>2, <2>3, <2>7 DEF CoreInv
<1>7. ASSUME NEW n \in Nodes, Receive(n) PROVE CoreInv'
  <2>1. /\ Cardinality(Outstanding') = Cardinality(Outstanding) - 1
        /\ Cardinality(Outstanding) >= 1
    BY <1>7, <1>t, ReceivedLeavesOutstanding DEF Receive
  <2>2. launched = 0 /\ pending >= 1
    BY <1>7, <1>t, <1>o, <2>1 DEF Receive, LaunchedOnlyInSweep, NoGoroutineLeaks, TypeOK
  <2>3. TypeOK'
    <3>1. pending' \in Nat
      BY <1>7, <1>t, <2>2 DEF Receive, TypeOK
    <3>2. worker' \in [Nodes -> {"idle", "queued", "running", "settled", "received"}]
      BY <1>7, <1>t DEF Receive, TypeOK
    <3> QED
      BY <1>7, <1>t, <1>c, <3>1, <3>2 DEF Receive, TypeOK, nodeList
  <2>4. ResultsMatchWorkers' /\ LaunchedOnlyInSweep'
    BY <1>7, <1>t DEF Receive, ResultsMatchWorkers, LaunchedOnlyInSweep, TypeOK
  <2>5. pending' = pending - 1 /\ launched' = launched /\ main' = "sweep"
    BY <1>7 DEF Receive
  <2>6. NoGoroutineLeaks'
    BY <1>t, <1>o, <2>1, <2>5 DEF NoGoroutineLeaks, TypeOK
  <2> QED BY <2>3, <2>4, <2>6 DEF CoreInv
<1>8. ASSUME NEW n \in Nodes, DrainOne(n) PROVE CoreInv'
  <2>1. /\ Cardinality(Outstanding') = Cardinality(Outstanding) - 1
        /\ Cardinality(Outstanding) >= 1
        /\ Cardinality(Outstanding') = 0 <=> Outstanding' = {}
    BY <1>8, <1>t, ReceivedLeavesOutstanding DEF DrainOne
  <2>2. launched = 0 /\ pending >= 1
    BY <1>8, <1>t, <1>o, <2>1 DEF DrainOne, LaunchedOnlyInSweep, NoGoroutineLeaks, TypeOK
  <2>3. TypeOK'
    BY <1>8, <1>t, <2>2 DEF DrainOne, TypeOK, nodeList, sweepVars, Nodes
  <2>4. ResultsMatchWorkers' /\ LaunchedOnlyInSweep'
    BY <1>8, <1>t, <2>2 DEF DrainOne, ResultsMatchWorkers, LaunchedOnlyInSweep, TypeOK, sweepVars
  <2>5. pending' = pending - 1 /\ launched' = launched
    BY <1>8 DEF DrainOne, sweepVars
  <2>6. main' = "returned" => pending = 1
    BY <1>8 DEF DrainOne
  <2>7. NoGoroutineLeaks'
    BY <1>t, <1>o, <2>1, <2>2, <2>5, <2>6 DEF NoGoroutineLeaks, TypeOK
  <2> QED BY <2>3, <2>4, <2>7 DEF CoreInv
<1>9. CASE ObserveCancel
  <2>1. TypeOK'
    BY <1>9, <1>t DEF ObserveCancel, TypeOK, nodeList, sweepVars, Nodes
  <2>2. ResultsMatchWorkers' /\ LaunchedOnlyInSweep'
    BY <1>9, <1>t DEF ObserveCancel, ResultsMatchWorkers, LaunchedOnlyInSweep, sweepVars
  <2>3. NoGoroutineLeaks'
    BY <1>9, <1>t DEF ObserveCancel, NoGoroutineLeaks, Outstanding, sweepVars
  <2> QED BY <2>1, <2>2, <2>3 DEF CoreInv
<1>10. ASSUME NEW n \in Nodes, Start(n) PROVE CoreInv'
  <2>1. TypeOK'
    BY <1>10, <1>t DEF Start, TypeOK, nodeList, sweepVars, Nodes
  <2>2. ResultsMatchWorkers' /\ LaunchedOnlyInSweep'
    BY <1>10, <1>t DEF Start, ResultsMatchWorkers, LaunchedOnlyInSweep, TypeOK, sweepVars
  <2>3. n \in Outstanding
    BY <1>10 DEF Start, Outstanding
  <2>4. Outstanding' = Outstanding
    BY <1>10, <1>t, <2>3, MoveKeepsOutstanding DEF Start
  <2>5. NoGoroutineLeaks'
    BY <1>10, <1>t, <2>4 DEF Start, NoGoroutineLeaks, sweepVars
  <2> QED BY <2>1, <2>2, <2>5 DEF CoreInv
<1>11. ASSUME NEW n \in Nodes, Settle(n) PROVE CoreInv'
  <2>1. TypeOK'
    BY <1>11, <1>t DEF Settle, Outcomes, Terminal, TypeOK, nodeList, sweepVars, Nodes
  <2>2. ResultsMatchWorkers' /\ LaunchedOnlyInSweep'
    BY <1>11, <1>t DEF Settle, Outcomes, Terminal, ResultsMatchWorkers, LaunchedOnlyInSweep,
                       TypeOK, sweepVars
  <2>3. n \in Outstanding
    BY <1>11 DEF Settle, Outstanding
  <2>4. Outstanding' = Outstanding
    BY <1>11, <1>t, <2>3, MoveKeepsOutstanding DEF Settle
  <2>5. NoGoroutineLeaks'
    BY <1>11, <1>t, <2>4 DEF Settle, NoGoroutineLeaks, sweepVars
  <2> QED BY <2>1, <2>2, <2>5 DEF CoreInv
<1>12. CASE CancelCtx
  <2>1. TypeOK'
    BY <1>12, <1>t DEF CancelCtx, TypeOK, nodeList, sweepVars, Nodes
  <2>2. ResultsMatchWorkers' /\ LaunchedOnlyInSweep'
    BY <1>12, <1>t DEF CancelCtx, ResultsMatchWorkers, LaunchedOnlyInSweep, sweepVars
  <2>3. NoGoroutineLeaks'
    BY <1>12, <1>t DEF CancelCtx, NoGoroutineLeaks, Outstanding, sweepVars
  <2> QED BY <2>1, <2>2, <2>3 DEF CoreInv
<1>13. CASE UNCHANGED vars
  <2>1. TypeOK' /\ ResultsMatchWorkers' /\ LaunchedOnlyInSweep'
    BY <1>13, <1>t DEF vars, TypeOK, ResultsMatchWorkers, LaunchedOnlyInSweep
  <2>2. NoGoroutineLeaks'
    BY <1>13, <1>t DEF vars, NoGoroutineLeaks, Outstanding
  <2> QED BY <2>1, <2>2 DEF CoreInv
<1> QED
  BY <1>1, <1>2, <1>3, <1>4, <1>5, <1>6, <1>7, <1>8, <1>9, <1>10, <1>11, <1>12, <1>13
  DEF Next, Main

\* schedule()'s variables keep their types; in particular pending never goes
\* below zero and the cursor never leaves the node list.
THEOREM SchedulerTypeCorrect == Spec => []TypeOK
<1>1. CoreInv => TypeOK
  BY DEF CoreInv
<1> QED
  BY CoreInvInit, CoreInvNext, <1>1, PTL DEF Spec

\* pending counts the outstanding goroutines, and schedule() leaves none of
\* them behind, for every node list and every interleaving.
THEOREM SchedulerLeaksNothing == Spec => []NoGoroutineLeaks
<1>1. CoreInv => NoGoroutineLeaks
  BY DEF CoreInv
<1> QED
  BY CoreInvInit, CoreInvNext, <1>1, PTL DEF Spec

-----------------------------------------------------------------------------
(* What a step leaves alone *)

\* The node list is frozen, a settled node keeps its status, and a node once
\* made moot stays so.
LEMMA StepKeeps ==
  ASSUME CoreInv, [Next]_vars
  PROVE  /\ UNCHANGED <<dependsOn, contOnFail, gated>>
         /\ \A n \in Nodes : results[n] # "none" => results'[n] = results[n]
         /\ completed \subseteq completed'
<1> USE DEF CoreInv
<1>1. ASSUME NEW n \in Nodes, Pass(n) \/ SettleInPlace(n) \/ Park(n) \/ Launch(n)
      PROVE  /\ UNCHANGED <<dependsOn, contOnFail, gated, completed>>
             /\ \A m \in Nodes : results[m] # "none" => results'[m] = results[m]
  BY <1>1 DEF Pass, SettleInPlace, Park, Launch, Sweepable, Settled, nodeList, TypeOK
<1>2. ASSUME NEW n \in Nodes, Settle(n)
      PROVE  /\ UNCHANGED <<dependsOn, contOnFail, gated>>
             /\ completed \subseteq completed'
             /\ \A m \in Nodes : results[m] # "none" => results'[m] = results[m]
  <2>1. results[n] = "none"
    BY <1>2 DEF Settle, ResultsMatchWorkers
  <2>2. PICK s \in Outcomes : results' = [results EXCEPT ![n] = s]
    BY <1>2 DEF Settle
  <2>3. completed \subseteq completed'
    BY <1>2 DEF Settle
  <2> QED
    BY <1>2, <2>1, <2>2, <2>3 DEF Settle, nodeList, TypeOK
<1>3. ASSUME NEW n \in Nodes, Receive(n) \/ DrainOne(n) \/ Start(n)
      PROVE  UNCHANGED <<dependsOn, contOnFail, gated, results, completed>>
  BY <1>3 DEF Receive, DrainOne, Start, nodeList
<1>4. ASSUME NextPass \/ SweepEnd \/ ObserveCancel \/ CancelCtx \/ UNCHANGED vars
      PROVE  UNCHANGED <<dependsOn, contOnFail, gated, results, completed>>
  BY <1>4 DEF NextPass, SweepEnd, ObserveCancel, CancelCtx, vars, nodeList
<1> QED
  BY <1>1, <1>2, <1>3, <1>4 DEF Next, Main

\* Only a launch gives an idle node a goroutine.
LEMMA OnlyLaunchStartsGoroutines ==
  ASSUME CoreInv, [Next]_vars, NEW n \in Nodes, worker'[n] # "idle"
  PROVE  worker[n] # "idle" \/ Launch(n)
<1> USE DEF CoreInv
<1>1. ASSUME NEW m \in Nodes, Pass(m) \/ SettleInPlace(m) \/ Park(m)
      PROVE  worker' = worker
  BY <1>1 DEF Pass, SettleInPlace, Park
<1>2. ASSUME NEW m \in Nodes, Launch(m) PROVE worker[n] # "idle" \/ Launch(n)
  BY <1>2 DEF Launch, TypeOK
<1>3. ASSUME NEW m \in Nodes, Receive(m) \/ DrainOne(m) \/ Start(m) \/ Settle(m)
      PROVE  worker[n] # "idle"
  BY <1>3 DEF Receive, DrainOne, Start, Settle, TypeOK
<1>4. ASSUME NextPass \/ SweepEnd \/ ObserveCancel \/ CancelCtx \/ UNCHANGED vars
      PROVE  worker' = worker
  BY <1>4 DEF NextPass, SweepEnd, ObserveCancel, CancelCtx, vars
<1> QED
  BY <1>1, <1>2, <1>3, <1>4 DEF Next, Main

\* A node without a goroutine gets its status from the sweep.
LEMMA IdleNodesSettleInPlace ==
  ASSUME CoreInv, [Next]_vars, NEW n \in Nodes, worker'[n] = "idle"
  PROVE  /\ worker[n] = "idle"
         /\ \/ results'[n] = results[n]
            \/ Verdict(n, results'[n])
<1> USE DEF CoreInv
<1>1. ASSUME NEW m \in Nodes, Pass(m) \/ Park(m) PROVE UNCHANGED <<worker, results>>
  BY <1>1 DEF Pass, Park
<1>2. ASSUME NEW m \in Nodes, SettleInPlace(m)
      PROVE  /\ worker' = worker
             /\ results'[n] = results[n] \/ Verdict(n, results'[n])
  BY <1>2 DEF SettleInPlace, TypeOK
<1>3. ASSUME NEW m \in Nodes, Launch(m)
      PROVE  worker[n] = "idle" /\ results' = results
  BY <1>3 DEF Launch, TypeOK
<1>4. ASSUME NEW m \in Nodes, Receive(m) \/ DrainOne(m) \/ Start(m)
      PROVE  worker[n] = "idle" /\ results' = results
  BY <1>4 DEF Receive, DrainOne, Start, TypeOK
<1>5. ASSUME NEW m \in Nodes, Settle(m)
      PROVE  worker[n] = "idle" /\ results'[n] = results[n]
  BY <1>5 DEF Settle, TypeOK
<1>6. ASSUME NextPass \/ SweepEnd \/ ObserveCancel \/ CancelCtx \/ UNCHANGED vars
      PROVE  UNCHANGED <<worker, results>>
  BY <1>6 DEF NextPass, SweepEnd, ObserveCancel, CancelCtx, vars
<1> QED
  BY <1>1, <1>2, <1>3, <1>4, <1>5, <1>6 DEF Next, Main

-----------------------------------------------------------------------------
(* The order of the steps *)

\* No node's goroutine exists ahead of a dependency that has not passed or
\* behind a closed gate: what the sweep saw when it launched the node stays
\* true, because settled nodes keep their status.
THEOREM SchedulerRunsOnlyWhenReady == Spec => []RunsOnlyWhenReady
<1>1. Init => RunsOnlyWhenReady
  BY DEF Init, RunsOnlyWhenReady
<1>2. CoreInv /\ RunsOnlyWhenReady /\ [Next]_vars => RunsOnlyWhenReady'
  <2> SUFFICES ASSUME CoreInv, RunsOnlyWhenReady, [Next]_vars,
                      NEW n \in Nodes, worker'[n] # "idle"
               PROVE  /\ ~gated'[n]
                      /\ \A d \in dependsOn'[n] :
                           /\ d \in Nodes
                           /\ results'[d] \in {"succeeded", "failed"}
                           /\ results'[d] = "failed" => contOnFail'[d]
    BY DEF RunsOnlyWhenReady
  <2>1. /\ ~gated[n]
        /\ \A d \in dependsOn[n] :
             /\ d \in Nodes
             /\ results[d] \in {"succeeded", "failed"}
             /\ results[d] = "failed" => contOnFail[d]
    <3>1. CASE worker[n] # "idle"
      BY <3>1 DEF RunsOnlyWhenReady
    <3>2. CASE Launch(n)
      BY <3>2 DEF Launch, Ready, depPassed
    <3> QED
      BY <3>1, <3>2, OnlyLaunchStartsGoroutines
  <2> QED
    BY <2>1, StepKeeps
<1> QED
  BY <1>1, <1>2, CoreInvInit, CoreInvNext, PTL DEF Spec

\* Every status the sweep hands out is justified by the final statuses of the
\* node's dependencies.
THEOREM SchedulerSettlesWithReason == Spec => []SettledInPlaceIsJustified
<1>1. Init => SettledInPlaceIsJustified
  BY DEF Init, SettledInPlaceIsJustified
<1>2. CoreInv /\ SettledInPlaceIsJustified /\ [Next]_vars => SettledInPlaceIsJustified'
  <2> SUFFICES ASSUME CoreInv, SettledInPlaceIsJustified, [Next]_vars,
                      NEW n \in Nodes, worker'[n] = "idle"
               PROVE  /\ results'[n] = "skipped" => Blocked(n)'
                      /\ results'[n] = "succeeded" => n \in completed' /\ Ready(n)'
                      /\ results'[n] = "failed" => HasUnknownDep(n)'
    BY DEF SettledInPlaceIsJustified
  <2>1. /\ results'[n] = "skipped" => Blocked(n)
        /\ results'[n] = "succeeded" => n \in completed /\ Ready(n)
        /\ results'[n] = "failed" => HasUnknownDep(n)
    BY IdleNodesSettleInPlace DEF SettledInPlaceIsJustified, Verdict
  <2>2. Blocked(n) => Blocked(n)'
    BY StepKeeps DEF Blocked, depBlocks
  <2>3. Ready(n) => Ready(n)'
    BY StepKeeps DEF Ready, depPassed
  <2>4. HasUnknownDep(n) => HasUnknownDep(n)'
    BY StepKeeps DEF HasUnknownDep
  <2> QED
    BY <2>1, <2>2, <2>3, <2>4, StepKeeps
<1> QED
  BY <1>1, <1>2, CoreInvInit, CoreInvNext, PTL DEF Spec

\* A node settles once.
THEOREM SchedulerSettlesOnce == Spec => SettlesOnce
<1>1. CoreInv /\ [Next]_vars => [\A n \in Nodes : Settled(n) => results'[n] = results[n]]_vars
  BY StepKeeps DEF Settled
<1> QED
  BY <1>1, CoreInvInit, CoreInvNext, PTL DEF Spec, SettlesOnce

-----------------------------------------------------------------------------
(* Parked nodes, and how a step changes what the sweep looks at *)

\* A parked node has no goroutine and no result: approvals are decided after
\* schedule() has returned.
ParkedAreIdle == \A n \in parked : worker[n] = "idle" /\ results[n] = "none"

\* A node the sweep can act on has never had a goroutine.
LEMMA SweepableIsIdle ==
  ASSUME CoreInv, NEW n \in Nodes, Sweepable(n)
  PROVE  worker[n] = "idle" /\ results[n] = "none" /\ n \notin parked
  BY DEF CoreInv, TypeOK, ResultsMatchWorkers, Sweepable, Settled, inflight

\* Nothing is parked at first.
LEMMA ParkedInit == Init => ParkedAreIdle
  BY DEF Init, ParkedAreIdle

\* Only Park parks a node, and no other action touches a parked one.
LEMMA ParkedNext == CoreInv /\ ParkedAreIdle /\ [Next]_vars => ParkedAreIdle'
<1> SUFFICES ASSUME CoreInv, ParkedAreIdle, [Next]_vars PROVE ParkedAreIdle'
  OBVIOUS
<1>t. TypeOK /\ parked \subseteq Nodes
  BY DEF CoreInv, TypeOK
<1>1. ASSUME NEW n \in Nodes, SettleInPlace(n) PROVE ParkedAreIdle'
  <2>1. n \notin parked
    BY <1>1, SweepableIsIdle DEF SettleInPlace
  <2> QED
    BY <1>1, <1>t, <2>1 DEF SettleInPlace, ParkedAreIdle, TypeOK
<1>2. ASSUME NEW n \in Nodes, Park(n) PROVE ParkedAreIdle'
  <2>1. worker[n] = "idle" /\ results[n] = "none"
    BY <1>2, SweepableIsIdle DEF Park
  <2> QED
    BY <1>2, <2>1 DEF Park, ParkedAreIdle
<1>3. ASSUME NEW n \in Nodes, Launch(n) PROVE ParkedAreIdle'
  <2>1. n \notin parked
    BY <1>3, SweepableIsIdle DEF Launch
  <2> QED
    BY <1>3, <1>t, <2>1 DEF Launch, ParkedAreIdle, TypeOK
<1>4. ASSUME NEW n \in Nodes, Receive(n) \/ DrainOne(n) \/ Start(n) PROVE ParkedAreIdle'
  BY <1>4, <1>t DEF Receive, DrainOne, Start, ParkedAreIdle, TypeOK
<1>5. ASSUME NEW n \in Nodes, Settle(n) PROVE ParkedAreIdle'
  <2>1. n \notin parked
    BY <1>5 DEF Settle, ParkedAreIdle
  <2>2. PICK s \in Outcomes : results' = [results EXCEPT ![n] = s]
    BY <1>5 DEF Settle
  <2> QED
    BY <1>5, <1>t, <2>1, <2>2 DEF Settle, ParkedAreIdle, TypeOK
<1>6. ASSUME NEW n \in Nodes, Pass(n) PROVE ParkedAreIdle'
  BY <1>6 DEF Pass, ParkedAreIdle
<1>7. ASSUME NextPass \/ SweepEnd \/ ObserveCancel \/ CancelCtx \/ UNCHANGED vars
      PROVE  ParkedAreIdle'
  BY <1>7 DEF NextPass, SweepEnd, ObserveCancel, CancelCtx, vars, ParkedAreIdle
<1> QED
  BY <1>1, <1>2, <1>3, <1>4, <1>5, <1>6, <1>7 DEF Next, Main

-----------------------------------------------------------------------------
(* schedule() returns when it is done *)

\* In a pass that has changed nothing yet, the nodes behind the cursor have
\* nothing left for the sweep.
SweptNodesAreDone ==
  main = "sweep" /\ ~progressed => \A n \in Nodes : n < cursor => ~Sweepable(n)

\* Why schedule() returned: at a fixpoint, with the status that follows from
\* the results, or drained after a cancellation.
ReturnedForAReason ==
  /\ main = "drain" => ctxDone
  /\ main = "returned" =>
       \/ status = FinalStatus /\ \A n \in Nodes : ~Sweepable(n)
       \/ status = "failed" /\ ctxDone

ReturnInv == CoreInv /\ Acyclic(dependsOn) /\ SweptNodesAreDone /\ ReturnedForAReason

\* The sweep looks at the results, the parked nodes, the goroutines in flight
\* and the frozen node list, and at nothing else.
LEMMA SweepableDependsOn ==
  ASSUME NEW n \in Nodes, UNCHANGED <<nodeList, results, parked>>,
         inflight(n)' = inflight(n)
  PROVE  Sweepable(n)' = Sweepable(n)
  BY DEF Sweepable, Settled, inflight, HasUnknownDep, Blocked, Ready, depBlocks,
         depPassed, nodeList

\* A goroutine in flight keeps the sweep off its node.
LEMMA InflightIsNotSweepable ==
  ASSUME NEW n \in Nodes PROVE inflight(n) => ~Sweepable(n)
  BY DEF Sweepable

\* Nothing is behind the cursor at first.
LEMMA ReturnInvInit == Init => ReturnInv
<1> SUFFICES ASSUME Init PROVE ReturnInv
  OBVIOUS
<1>1. SweptNodesAreDone
  BY SchedulerAssumption DEF Init, SweptNodesAreDone, Nodes
<1> QED
  BY <1>1, CoreInvInit DEF Init, ReturnInv, ReturnedForAReason

\* One step of the main goroutine or of a node's goroutine.
LEMMA ReturnInvNext == ReturnInv /\ [Next]_vars => ReturnInv'
<1> SUFFICES ASSUME ReturnInv, [Next]_vars PROVE ReturnInv'
  OBVIOUS
<1> USE SchedulerAssumption
<1>t. TypeOK /\ CoreInv /\ SweptNodesAreDone /\ ReturnedForAReason
  BY DEF CoreInv, ReturnInv
<1>c. CoreInv' /\ Acyclic(dependsOn)'
  <2>1. dependsOn' = dependsOn
    BY <1>t, StepKeeps
  <2> QED
    BY <1>t, <2>1, CoreInvNext DEF ReturnInv
<1> SUFFICES SweptNodesAreDone' /\ ReturnedForAReason'
  BY <1>c DEF ReturnInv
<1>n. \A n \in Nodes : n \in Int /\ n <= N
  BY DEF Nodes
<1>1. ASSUME NEW n \in Nodes, Pass(n) PROVE SweptNodesAreDone' /\ ReturnedForAReason'
  <2>1. main' = main /\ progressed' = progressed /\ cursor = n /\ cursor' = n + 1
    BY <1>1 DEF Pass, Visiting, StepCursor
  <2>2. \A m \in Nodes : Sweepable(m)' = Sweepable(m)
    BY <1>1, SweepableDependsOn DEF Pass, inflight
  <2>3. SweptNodesAreDone'
    BY <1>1, <1>t, <1>n, <2>1, <2>2 DEF Pass, SweptNodesAreDone
  <2> QED
    BY <1>1, <1>t, <2>1, <2>3 DEF Pass, Visiting, ReturnedForAReason
<1>2. ASSUME NEW n \in Nodes, SettleInPlace(n) \/ Park(n)
      PROVE  SweptNodesAreDone' /\ ReturnedForAReason'
  BY <1>2 DEF SettleInPlace, Park, Visiting, StepCursor, Progress, SweptNodesAreDone,
              ReturnedForAReason
<1>3. ASSUME NEW n \in Nodes, Launch(n) PROVE SweptNodesAreDone' /\ ReturnedForAReason'
  <2>1. main' = main /\ progressed' = progressed /\ cursor = n /\ cursor' = n + 1
    BY <1>3 DEF Launch, Visiting, StepCursor
  <2>2. \A m \in Nodes : m # n => Sweepable(m)' = Sweepable(m)
    BY <1>3, <1>t, SweepableDependsOn DEF Launch, inflight, TypeOK
  <2>3. ~Sweepable(n)'
    BY <1>3, <1>t DEF Launch, Sweepable, inflight, TypeOK
  <2>4. SweptNodesAreDone'
    BY <1>t, <1>n, <2>1, <2>2, <2>3 DEF SweptNodesAreDone
  <2> QED
    BY <1>3, <1>t, <2>1, <2>4 DEF Launch, Visiting, ReturnedForAReason
<1>4. CASE NextPass
  BY <1>4, <1>t DEF NextPass, SweptNodesAreDone, ReturnedForAReason, Nodes
<1>5. CASE SweepEnd
  <2>1. \A m \in Nodes : ~Sweepable(m)
    BY <1>5, <1>t, <1>n DEF SweepEnd, SweptNodesAreDone
  <2>2. \A m \in Nodes : ~Sweepable(m)'
    BY <1>5, <2>1, SweepableDependsOn DEF SweepEnd, inflight
  <2>3. FinalStatus' = FinalStatus
    BY <1>5 DEF SweepEnd, FinalStatus, HardFailed, SoftFailed, nodeList
  <2>4. \/ main' = "select"
        \/ main' = "returned" /\ status' = FinalStatus
    BY <1>5, Zenon DEF SweepEnd
  <2> QED
    BY <2>2, <2>3, <2>4 DEF SweptNodesAreDone, ReturnedForAReason
<1>6. ASSUME NEW n \in Nodes, Receive(n) PROVE SweptNodesAreDone' /\ ReturnedForAReason'
  BY <1>6 DEF Receive, SweptNodesAreDone, ReturnedForAReason, Nodes
<1>7. ASSUME NEW n \in Nodes, DrainOne(n) PROVE SweptNodesAreDone' /\ ReturnedForAReason'
  BY <1>7, <1>t DEF DrainOne, SweptNodesAreDone, ReturnedForAReason
<1>8. CASE ObserveCancel
  BY <1>8 DEF ObserveCancel, SweptNodesAreDone, ReturnedForAReason
<1>9. ASSUME NEW n \in Nodes, Start(n) PROVE SweptNodesAreDone' /\ ReturnedForAReason'
  <2>1. main # "returned"
    BY <1>9, <1>t DEF Start, CoreInv, NoGoroutineLeaks, Outstanding
  <2>2. \A m \in Nodes : Sweepable(m)' = Sweepable(m)
    BY <1>9, <1>t, SweepableDependsOn DEF Start, inflight, TypeOK
  <2> QED
    BY <1>9, <1>t, <2>1, <2>2 DEF Start, sweepVars, SweptNodesAreDone, ReturnedForAReason
<1>10. ASSUME NEW n \in Nodes, Settle(n) PROVE SweptNodesAreDone' /\ ReturnedForAReason'
  <2>1. main # "returned"
    BY <1>10, <1>t DEF Settle, CoreInv, NoGoroutineLeaks, Outstanding
  <2> QED
    BY <1>10, <1>t, <2>1 DEF Settle, SweptNodesAreDone, ReturnedForAReason
<1>11. CASE CancelCtx
  <2>1. \A m \in Nodes : Sweepable(m)' = Sweepable(m)
    BY <1>11, SweepableDependsOn DEF CancelCtx, inflight
  <2> QED
    BY <1>11, <1>t, <2>1 DEF CancelCtx, sweepVars, SweptNodesAreDone, ReturnedForAReason
<1>12. CASE UNCHANGED vars
  <2>1. \A m \in Nodes : Sweepable(m)' = Sweepable(m)
    BY <1>12, SweepableDependsOn DEF vars, nodeList, inflight
  <2>2. FinalStatus' = FinalStatus
    BY <1>12 DEF vars, FinalStatus, HardFailed, SoftFailed
  <2> QED
    BY <1>12, <1>t, <2>1, <2>2 DEF vars, SweptNodesAreDone, ReturnedForAReason
<1> QED
  BY <1>1, <1>2, <1>3, <1>4, <1>5, <1>6, <1>7, <1>8, <1>9, <1>10, <1>11, <1>12
  DEF Next, Main

\* A non-empty set of naturals has a least element.
LEMMA LeastNatural ==
  ASSUME NEW T \in SUBSET Nat, T # {}
  PROVE  \E x \in T : \A y \in T : x <= y
<1>0. IsWellFoundedOn(OpToRel(<, Nat), Nat)
  BY NatLessThanWellFounded
<1>1. PICK x \in T : \A y \in T : ~ (<<y, x>> \in OpToRel(<, Nat))
  BY <1>0, WFMin
<1>2. ASSUME NEW y \in T PROVE x <= y
  <2>1. ~ (<<y, x>> \in {ss \in Nat \X Nat : ss[1] < ss[2]})
    BY <1>1, Zenon DEF OpToRel
  <2>2. y \in Nat /\ x \in Nat
    OBVIOUS
  <2>3. y < x => <<y, x>> \in {ss \in Nat \X Nat : ss[1] < ss[2]}
    BY <2>2
  <2> QED
    BY <2>1, <2>2, <2>3
<1> QED
  BY <1>2

\* In an acyclic node list every non-empty set of nodes has one that depends
\* on no other node of the set.
LEMMA FirstOfNodes ==
  ASSUME Acyclic(dependsOn), NEW S \in SUBSET Nodes, S # {}
  PROVE  \E n \in S : \A d \in dependsOn[n] \cap Nodes : d \notin S
<1>1. PICK rank \in [Nodes -> Nodes] :
        \A n \in Nodes : \A d \in dependsOn[n] \cap Nodes : rank[d] < rank[n]
  BY DEF Acyclic
<1> DEFINE T == {rank[n] : n \in S}
<1>2. T \in SUBSET Nat /\ T # {}
  <2>1. \A n \in S : rank[n] \in Nat
    BY <1>1, SchedulerAssumption DEF Nodes
  <2>2. PICK n \in S : TRUE
    OBVIOUS
  <2>3. rank[n] \in T
    OBVIOUS
  <2> QED
    BY <2>1, <2>3
<1>3. PICK x \in T : \A y \in T : x <= y
  BY <1>2, LeastNatural
<1>4. PICK n \in S : rank[n] = x
  BY <1>3
<1>5. ASSUME NEW d \in dependsOn[n] \cap Nodes PROVE d \notin S
  <2>1. rank[d] < rank[n] /\ rank[d] \in Int /\ rank[n] \in Int
    BY <1>1 DEF Nodes
  <2> QED
    BY <1>3, <1>4, <2>1
<1> QED
  BY <1>5

\* At a fixpoint without parked nodes and goroutines every node is settled:
\* the first unsettled one would have only settled dependencies, and the sweep
\* would have something to do for it.
LEMMA FixpointSettlesEverything ==
  ASSUME CoreInv, Acyclic(dependsOn), Outstanding = {}, parked = {},
         \A n \in Nodes : ~Sweepable(n)
  PROVE  \A n \in Nodes : Settled(n)
<1> SUFFICES ASSUME {n \in Nodes : ~Settled(n)} # {} PROVE FALSE
  OBVIOUS
<1>1. PICK n \in Nodes : /\ ~Settled(n)
                         /\ \A d \in dependsOn[n] \cap Nodes : Settled(d)
  BY FirstOfNodes
<1>2. ~inflight(n)
  BY DEF inflight, Outstanding
<1>3. HasUnknownDep(n) \/ dependsOn[n] \subseteq Nodes
  BY DEF HasUnknownDep, CoreInv, TypeOK
<1>4. \A d \in dependsOn[n] \cap Nodes : depPassed(d) \/ depBlocks(d)
  BY <1>1 DEF Settled, depPassed, depBlocks, CoreInv, TypeOK, Terminal
<1>5. HasUnknownDep(n) \/ Blocked(n) \/ Ready(n)
  BY <1>3, <1>4 DEF Blocked, Ready
<1> QED
  BY <1>1, <1>2, <1>5 DEF Sweepable

\* schedule() returns when it is done, and what it reports as succeeded or
\* partial has no unsettled node and no skip that nobody asked for.
THEOREM SchedulerReturnsWhenDone == Spec => []ReturnsWhenDone
<1>1. ReturnInv /\ SettledInPlaceIsJustified => ReturnsWhenDone
  <2> SUFFICES ASSUME ReturnInv, SettledInPlaceIsJustified, main = "returned"
               PROVE  /\ \/ \A n \in Nodes : ~Sweepable(n)
                         \/ ctxDone /\ status = "failed"
                      /\ status \in {"succeeded", "partial"} =>
                           /\ \A n \in Nodes : Settled(n)
                           /\ (\E n \in Nodes : results[n] = "skipped") =>
                                \E n \in Nodes : results[n] = "skipped" /\ worker[n] = "received"
    BY DEF ReturnsWhenDone
  <2>1. \/ status = FinalStatus /\ \A n \in Nodes : ~Sweepable(n)
        \/ status = "failed" /\ ctxDone
    BY DEF ReturnInv, ReturnedForAReason
  <2>2. Outstanding = {}
    BY DEF ReturnInv, CoreInv, NoGoroutineLeaks
  <2>3. ASSUME status \in {"succeeded", "partial"}
        PROVE  /\ \A n \in Nodes : ~Sweepable(n)
               /\ ~HardFailed /\ parked = {}
    BY <2>1, <2>3 DEF FinalStatus
  <2>4. ASSUME status \in {"succeeded", "partial"} PROVE \A n \in Nodes : Settled(n)
    BY <2>2, <2>3, <2>4, FixpointSettlesEverything DEF ReturnInv
  <2>5. ASSUME status \in {"succeeded", "partial"}, \E n \in Nodes : results[n] = "skipped"
        PROVE  \E n \in Nodes : results[n] = "skipped" /\ worker[n] = "received"
    <3>1. {n \in Nodes : results[n] = "skipped"} # {}
      BY <2>5
    <3>2. PICK n \in Nodes : /\ results[n] = "skipped"
                             /\ \A d \in dependsOn[n] \cap Nodes : results[d] # "skipped"
      BY <3>1, FirstOfNodes DEF ReturnInv
    <3>3. ~Blocked(n)
      BY <2>3, <2>5, <3>2 DEF Blocked, depBlocks, HardFailed
    <3>4. worker[n] # "idle"
      BY <3>2, <3>3 DEF SettledInPlaceIsJustified
    <3>5. worker[n] = "received"
      BY <2>2, <3>4 DEF Outstanding, ReturnInv, CoreInv, TypeOK
    <3> QED
      BY <3>2, <3>5
  <2> QED
    BY <2>1, <2>4, <2>5
<1> QED
  BY <1>1, ReturnInvInit, ReturnInvNext, SchedulerSettlesWithReason, PTL DEF Spec

-----------------------------------------------------------------------------
(* Scheduler implements DagRun *)

\* The step state that the detailed scheduler shows.
LEMMA StepStateIs ==
  ASSUME NEW n \in Nodes
  PROVE  /\ Settled(n) => StepState[n] = results[n]
         /\ ~Settled(n) /\ n \in parked => StepState[n] = "awaiting_approval"
         /\ ~Settled(n) /\ n \notin parked /\ inflight(n) => StepState[n] = "running"
         /\ ~Settled(n) /\ n \notin parked /\ ~inflight(n) => StepState[n] = "pending"
  BY DEF StepState

\* A step of the scheduler changes the state of one step at most.
LEMMA StepStateMoves ==
  ASSUME NEW n \in Nodes, NEW s, StepState'[n] = s,
         \A m \in Nodes : m # n => StepState'[m] = StepState[m]
  PROVE  StepState' = [StepState EXCEPT ![n] = s]
  BY DEF StepState

\* The state of a step is a function of its result, its goroutine and whether
\* it is parked.
LEMMA StepStateDependsOn ==
  ASSUME NEW n \in Nodes, results'[n] = results[n], inflight(n)' = inflight(n),
         n \in parked' <=> n \in parked
  PROVE  StepState'[n] = StepState[n]
  BY DEF StepState, Settled

\* Readiness and blocking are the same question in both specifications.
LEMMA ReadinessMaps ==
  ASSUME NEW n \in Nodes
  PROVE  /\ Ready(n) => Dag!DepsPassed(n)
         /\ Blocked(n) => \E d \in dependsOn[n] : d \in Nodes /\ Dag!Blocks(d)
<1>1. ASSUME NEW d \in Nodes, results[d] # "none" PROVE StepState[d] = results[d]
  BY <1>1, StepStateIs DEF Settled
<1>2. ASSUME NEW d \in Nodes, depPassed(d) PROVE Dag!Passed(d)
  BY <1>1, <1>2 DEF depPassed, Dag!Passed
<1>3. ASSUME NEW d \in Nodes, depBlocks(d) PROVE Dag!Blocks(d)
  BY <1>1, <1>3 DEF depBlocks, Dag!Blocks
<1> QED
  BY <1>2, <1>3 DEF Ready, Blocked, Dag!DepsPassed

\* A node the sweep acts on waits in DagRun.
LEMMA SweepableWaits ==
  ASSUME NEW n \in Nodes, Sweepable(n) PROVE Dag!Waiting(n)
  BY StepStateIs DEF Sweepable, Dag!Waiting

\* Every step of the scheduler is a step of DagRun or changes nothing in it.
LEMMA DagStep ==
  ASSUME CoreInv, ParkedAreIdle, [Next]_vars PROVE [Dag!Next]_(Dag!vars)
<1>t. TypeOK
  BY DEF CoreInv
<1>1. ASSUME NEW n \in Nodes, SettleInPlace(n) PROVE Dag!Next
  <2>1. PICK s \in Terminal : Verdict(n, s) /\ results' = [results EXCEPT ![n] = s]
    BY <1>1 DEF SettleInPlace
  <2>2. Dag!Waiting(n)
    BY <1>1, SweepableWaits DEF SettleInPlace
  <2>3. StepState'[n] = s
    <3>1. results'[n] = s /\ s # "none"
      BY <1>t, <2>1 DEF TypeOK, Terminal
    <3> QED
      BY <3>1, StepStateIs DEF StepState, Settled
  <2>4. \A m \in Nodes : m # n => StepState'[m] = StepState[m]
    BY <1>1, <1>t, <2>1, StepStateDependsOn DEF SettleInPlace, TypeOK, inflight
  <2>5. Dag!Become(n, s)
    BY <1>1, <2>3, <2>4, StepStateMoves DEF SettleInPlace, nodeList, Dag!Become
  <2>6. completed' = completed
    BY <1>1 DEF SettleInPlace
  <2>7. Dag!Skip(n) \/ Dag!Complete(n) \/ Dag!Reject(n)
    BY <2>1, <2>2, <2>5, <2>6, ReadinessMaps
    DEF Verdict, HasUnknownDep, Dag!Skip, Dag!Complete, Dag!Reject
  <2> QED
    BY <2>7 DEF Dag!Next
<1>2. ASSUME NEW n \in Nodes, Park(n) PROVE Dag!Next
  <2>1. Dag!Waiting(n) /\ results[n] = "none"
    BY <1>2, SweepableWaits DEF Park, Sweepable, Settled
  <2>2. StepState'[n] = "awaiting_approval"
    BY <1>2, <2>1 DEF Park, StepState, Settled
  <2>3. \A m \in Nodes : m # n => StepState'[m] = StepState[m]
    BY <1>2, StepStateDependsOn DEF Park, inflight
  <2>4. Dag!Become(n, "awaiting_approval")
    BY <1>2, <2>2, <2>3, StepStateMoves DEF Park, nodeList, Dag!Become
  <2>5. Dag!AwaitApproval(n)
    BY <1>2, <2>1, <2>4, ReadinessMaps DEF Park, Dag!AwaitApproval
  <2> QED
    BY <2>5 DEF Dag!Next
<1>3. ASSUME NEW n \in Nodes, Launch(n) PROVE Dag!Next
  <2>1. Dag!Waiting(n) /\ results[n] = "none" /\ n \notin parked
    BY <1>3, SweepableWaits DEF Launch, Sweepable, Settled
  <2>2. StepState'[n] = "running"
    BY <1>3, <1>t, <2>1 DEF Launch, StepState, Settled, inflight, TypeOK
  <2>3. \A m \in Nodes : m # n => StepState'[m] = StepState[m]
    BY <1>3, <1>t, StepStateDependsOn DEF Launch, inflight, TypeOK
  <2>4. Dag!Become(n, "running")
    BY <1>3, <2>2, <2>3, StepStateMoves DEF Launch, nodeList, Dag!Become
  <2>5. Dag!Run(n)
    BY <1>3, <2>1, <2>4, ReadinessMaps DEF Launch, Dag!Run
  <2> QED
    BY <2>5 DEF Dag!Next
<1>4. ASSUME NEW n \in Nodes, Settle(n) PROVE Dag!Next
  <2>1. PICK s \in Outcomes, M \in SUBSET {m \in Nodes : n \in dependsOn[m]} :
          /\ s # "succeeded" => M = {}
          /\ results' = [results EXCEPT ![n] = s]
          /\ completed' = completed \cup M
    BY <1>4 DEF Settle
  <2>2. StepState[n] = "running"
    <3>1. results[n] = "none" /\ n \notin parked /\ inflight(n)
      BY <1>4 DEF Settle, CoreInv, ResultsMatchWorkers, ParkedAreIdle, inflight
    <3> QED
      BY <3>1, StepStateIs DEF Settled
  <2>3. StepState'[n] = s
    <3>1. results'[n] = s /\ s # "none"
      BY <1>t, <2>1 DEF TypeOK, Outcomes, Terminal
    <3> QED
      BY <3>1 DEF StepState, Settled
  <2>4. \A m \in Nodes : m # n => StepState'[m] = StepState[m]
    BY <1>4, <1>t, <2>1, StepStateDependsOn DEF Settle, TypeOK, inflight
  <2>5. Dag!Become(n, s)
    BY <1>4, <2>3, <2>4, StepStateMoves DEF Settle, nodeList, Dag!Become
  <2>6. s \in {"succeeded", "failed", "skipped"}
    BY DEF Outcomes, Terminal
  <2>7. \/ completed' = completed
        \/ StepState'[n] = "succeeded" /\ completed' = completed \cup M
    BY <2>1, <2>3
  <2>8. Dag!Finish(n)
    BY <2>2, <2>5, <2>6, <2>7 DEF Dag!Finish
  <2> QED
    BY <2>8 DEF Dag!Next
<1>5. ASSUME NEW n \in Nodes, Receive(n) \/ DrainOne(n) \/ Start(n) PROVE UNCHANGED Dag!vars
  <2>1. /\ UNCHANGED <<dependsOn, contOnFail, gated, results, parked, completed>>
        /\ \A m \in Nodes : inflight(m)' = inflight(m)
    BY <1>5, <1>t DEF Receive, DrainOne, Start, nodeList, inflight, TypeOK
  <2>2. \A m \in Nodes : StepState'[m] = StepState[m]
    BY <2>1, StepStateDependsOn
  <2>3. StepState' = StepState
    BY <2>2 DEF StepState
  <2> QED
    BY <2>1, <2>3 DEF Dag!vars
<1>6. ASSUME (\E n \in Nodes : Pass(n)) \/ NextPass \/ SweepEnd \/ ObserveCancel
               \/ CancelCtx \/ UNCHANGED vars
      PROVE  UNCHANGED Dag!vars
  <2>1. UNCHANGED <<dependsOn, contOnFail, gated, results, parked, completed, worker>>
    BY <1>6 DEF Pass, NextPass, SweepEnd, ObserveCancel, CancelCtx, vars, nodeList
  <2>2. StepState' = StepState
    BY <2>1 DEF StepState, Settled, inflight
  <2> QED
    BY <2>1, <2>2 DEF Dag!vars
<1> QED
  BY <1>1, <1>2, <1>3, <1>4, <1>5, <1>6 DEF Next, Main

\* The scheduler implements the step semantics: whatever its goroutines, its
\* sweeps and a cancellation do, each step changes state once and by one of
\* DagRun's rules.
THEOREM SchedulerImplementsDagRun == Spec => ImplementsDagRun
<1>1. Init => Dag!Init
  <2> SUFFICES ASSUME Init PROVE Dag!Init
    OBVIOUS
  <2>1. \A n \in Nodes : StepState[n] = "pending"
    BY StepStateIs DEF Init, Settled, inflight
  <2>2. StepState = [n \in Nodes |-> "pending"]
    BY <2>1 DEF StepState
  <2> QED
    BY <2>2 DEF Init, Dag!Init
<1>2. CoreInv /\ ParkedAreIdle /\ [Next]_vars => [Dag!Next]_(Dag!vars)
  BY DagStep
<1> QED
  BY <1>1, <1>2, CoreInvInit, CoreInvNext, ParkedInit, ParkedNext, PTL
  DEF Spec, ImplementsDagRun, Dag!Spec

=============================================================================
