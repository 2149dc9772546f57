--------------------------- MODULE RunGraphProofs ---------------------------
(***************************************************************************)
(* Proofs about RunGraph, for any set of components and any number of      *)
(* stages.                                                                 *)
(***************************************************************************)
EXTENDS RunGraph, FiniteSetTheorems, WellFoundedInduction, TLAPS

Terminal == {"succeeded", "failed", "skipped"}
UnitStates == InFlight \cup Terminal

-----------------------------------------------------------------------------
(* The graph of a run *)

\* The authored workflow.
WorkflowOK ==
  /\ stage \in [Components -> 1 .. Stages]
  /\ type \in [Components -> {"terraform", "helm"}]
  /\ cof \subseteq Components /\ gate \subseteq Components

\* The units of a graph g for action a: an OpenTofu component of a run that
\* changes things has a plan and an apply unit, any other component one unit;
\* a scoped graph has one component, and the graph of a whole workflow has them
\* all, unless it is a drift check's.
UnitsOK(g, a, sc) ==
  /\ DOMAIN g \subseteq Units
  /\ \A u \in DOMAIN g :
       /\ u[1] \in Components
       /\ Own(u[1]) \in DOMAIN g
       /\ \/ u = Own(u[1])
          \/ u = Apply(u[1]) /\ HasApply(u[1], a) /\ a # "state_op"
       /\ a # "state_op" => remap(u[1], a) \in DOMAIN g
       /\ g[u].stage = stage[u[1]]
  /\ sc => a \in {"deploy", "uninstall", "state_op"} /\ \A u, v \in DOMAIN g : u[1] = v[1]
  /\ ~sc => a # "state_op"
  /\ ~sc /\ a \notin {"none", "drift"} => \A c \in Components : Own(c) \in DOMAIN g

\* Its edges: an apply waits for its plan, everything else for the last units
\* of the previous stage.
EdgesOK(g, a, sc) ==
  \A u \in DOMAIN g :
    g[u].dependsOn = IF u = Apply(u[1]) THEN {Own(u[1])}
                     ELSE IF sc THEN {}
                     ELSE {remap(d, a) : d \in stageDependencies(u[1])}

\* Its flags: the unit that finishes a component carries the component's
\* continue-on-failure, and the one that changes something its gate.
FlagsOK(g, a, sc) ==
  \A u \in DOMAIN g :
    /\ g[u].contOnFail <=> ~sc /\ u[1] \in cof /\ (ReadOnly(a) \/ u = remap(u[1], a))
    /\ ~ReadOnly(a) /\ (type[u[1]] = "terraform" => u = Apply(u[1]) \/ a = "state_op") =>
         (g[u].requiresApproval <=> u[1] \in gate \/ (sc /\ a = "uninstall") \/ a = "state_op")

GraphOK(g, a, sc) == UnitsOK(g, a, sc) /\ EdgesOK(g, a, sc) /\ FlagsOK(g, a, sc)

\* A unit is its component and its half.
LEMMA UnitParts ==
  ASSUME NEW c \in Components
  PROVE  /\ Own(c) \in Units /\ Apply(c) \in Units
         /\ Own(c)[1] = c /\ Apply(c)[1] = c
         /\ Own(c)[2] = "own" /\ Apply(c)[2] = "apply"
         /\ Own(c) # Apply(c)
  BY DEF Own, Apply, Units

\* The node of a component with one unit.
SingleNode(n, a) == [n EXCEPT !.dependsOn = {remap(d, a) : d \in @}]

\* What the expansion makes of a component's node: its apply unit,
LEMMA ApplyNodeIs ==
  ASSUME NEW c, NEW D, NEW B, NEW Q, NEW s, NEW n,
         n = [dependsOn |-> D, contOnFail |-> c \in B, requiresApproval |-> c \in Q, stage |-> s]
  PROVE  /\ applyNode(c, n).dependsOn = {Own(c)} /\ applyNode(c, n).stage = s
         /\ applyNode(c, n).contOnFail <=> c \in B
         /\ applyNode(c, n).requiresApproval <=> c \in Q
  BY DEF applyNode

\* its plan unit,
LEMMA PlanNodeIs ==
  ASSUME NEW c, NEW a, NEW D, NEW B, NEW Q, NEW s, NEW n,
         n = [dependsOn |-> D, contOnFail |-> c \in B, requiresApproval |-> c \in Q, stage |-> s]
  PROVE  /\ planNode(c, n, a).dependsOn = {remap(d, a) : d \in D} /\ planNode(c, n, a).stage = s
         /\ planNode(c, n, a).contOnFail <=> ReadOnly(a) /\ c \in B
<1>1. planNode(c, n, a).dependsOn = {remap(d, a) : d \in D} /\ planNode(c, n, a).stage = s
  BY DEF planNode
<1>2. planNode(c, n, a).contOnFail <=> ReadOnly(a) /\ c \in B
  BY DEF planNode
<1> QED
  BY <1>1, <1>2

\* or its only one.
LEMMA SingleNodeIs ==
  ASSUME NEW c, NEW a, NEW D, NEW B, NEW Q, NEW s, NEW n,
         n = [dependsOn |-> D, contOnFail |-> c \in B, requiresApproval |-> c \in Q, stage |-> s]
  PROVE  /\ SingleNode(n, a).dependsOn = {remap(d, a) : d \in D} /\ SingleNode(n, a).stage = s
         /\ SingleNode(n, a).contOnFail <=> c \in B
         /\ SingleNode(n, a).requiresApproval <=> c \in Q
<1>1. SingleNode(n, a).dependsOn = {remap(d, a) : d \in D} /\ SingleNode(n, a).stage = s
  BY DEF SingleNode
<1>2. /\ SingleNode(n, a).contOnFail <=> c \in B
      /\ SingleNode(n, a).requiresApproval <=> c \in Q
  BY DEF SingleNode
<1> QED
  BY <1>1, <1>2

\* g is the expansion, field by field, of the components of C, whose nodes have
\* the dependencies D, continue on failure in B and are gated in Q.
Expands(g, C, a, D, B, Q) ==
  /\ DOMAIN g = {Own(c) : c \in C} \cup {Apply(c) : c \in {d \in C : HasApply(d, a)}}
  /\ \A u \in DOMAIN g :
       /\ u \in Units /\ u[1] \in C
       /\ u = Own(u[1]) \/ (u = Apply(u[1]) /\ HasApply(u[1], a))
       /\ Own(u[1]) \in DOMAIN g /\ remap(u[1], a) \in DOMAIN g
       /\ g[u].stage = stage[u[1]]
       /\ u = Apply(u[1]) => g[u].dependsOn = {Own(u[1])}
       /\ u # Apply(u[1]) => g[u].dependsOn = {remap(d, a) : d \in D[u[1]]}
       /\ g[u].contOnFail <=> u[1] \in B /\ (ReadOnly(a) \/ u = remap(u[1], a))
       /\ ~ReadOnly(a) /\ (type[u[1]] = "terraform" => u = Apply(u[1])) =>
            (g[u].requiresApproval <=> u[1] \in Q)

Kept(C, a) == {c \in C : a = "drift" => type[c] = "terraform"}

\* expandExecutionNodes.
LEMMA ExpandedGraph ==
  ASSUME WorkflowOK, NEW C \in SUBSET Components, NEW a, NEW nodes, NEW D, NEW B, NEW Q,
         DOMAIN nodes = C,
         \A c \in C : nodes[c] = [dependsOn |-> D[c], contOnFail |-> c \in B,
                                  requiresApproval |-> c \in Q, stage |-> stage[c]]
  PROVE  Expands(expandExecutionNodes(nodes, a), Kept(C, a), a, D, B, Q)
<1> DEFINE kept == Kept(C, a)
           units == {Own(c) : c \in kept} \cup {Apply(c) : c \in {d \in kept : HasApply(d, a)}}
           g == expandExecutionNodes(nodes, a)
           Node(u) == CASE u = Apply(u[1]) -> applyNode(u[1], nodes[u[1]])
                        [] u = Own(u[1]) /\ type[u[1]] = "terraform" -> planNode(u[1], nodes[u[1]], a)
                        [] OTHER -> SingleNode(nodes[u[1]], a)
<1>1. g = [u \in units |-> Node(u)]
  BY DEF expandExecutionNodes, SingleNode, Kept
<1>2. DOMAIN g = units
  BY <1>1
<1>3. \A u \in units : g[u] = Node(u)
  BY <1>1
<1>k. kept \subseteq C
  BY DEF Kept
<1> HIDE DEF g, kept
<1>4. ASSUME NEW u \in units
      PROVE  /\ u \in Units /\ u[1] \in kept /\ u[1] \in C
             /\ u = Own(u[1]) \/ (u = Apply(u[1]) /\ HasApply(u[1], a))
             /\ Own(u[1]) # Apply(u[1])
  BY <1>k, UnitParts
<1>5. ASSUME NEW u \in units PROVE Own(u[1]) \in units /\ remap(u[1], a) \in units
  <2>1. u[1] \in kept
    BY <1>4
  <2>2. HasApply(u[1], a) => Apply(u[1]) \in units
    BY <2>1
  <2> QED
    BY <2>1, <2>2 DEF remap
<1>6. ASSUME NEW u \in units
      PROVE  /\ g[u].stage = stage[u[1]]
             /\ u = Apply(u[1]) => g[u].dependsOn = {Own(u[1])}
             /\ u # Apply(u[1]) => g[u].dependsOn = {remap(d, a) : d \in D[u[1]]}
             /\ g[u].contOnFail <=> u[1] \in B /\ (ReadOnly(a) \/ u = remap(u[1], a))
             /\ ~ReadOnly(a) /\ (type[u[1]] = "terraform" => u = Apply(u[1])) =>
                  (g[u].requiresApproval <=> u[1] \in Q)
  <2> DEFINE c == u[1]
             n == nodes[u[1]]
  <2>1. n = [dependsOn |-> D[c], contOnFail |-> c \in B, requiresApproval |-> c \in Q, stage |-> stage[c]]
    BY <1>4
  <2>2. CASE u = Apply(u[1])
    <3>1. g[u] = applyNode(c, n)
      BY <1>3, <1>4, <2>2
    <3>2. u = remap(c, a)
      BY <1>4, <2>2 DEF remap
    <3>3. /\ applyNode(c, n).dependsOn = {Own(c)} /\ applyNode(c, n).stage = stage[c]
          /\ applyNode(c, n).contOnFail <=> c \in B
          /\ applyNode(c, n).requiresApproval <=> c \in Q
      BY <2>1, ApplyNodeIs
    <3> QED
      BY <2>2, <3>1, <3>2, <3>3
  <2>3. CASE u = Own(u[1]) /\ type[u[1]] = "terraform"
    <3>1. g[u] = planNode(c, n, a)
      BY <1>3, <1>4, <2>3
    <3>2. u # Apply(c) /\ (u = remap(c, a) => ReadOnly(a))
      BY <1>4, <2>3 DEF remap, HasApply
    <3>3. /\ planNode(c, n, a).dependsOn = {remap(d, a) : d \in D[c]} /\ planNode(c, n, a).stage = stage[c]
          /\ planNode(c, n, a).contOnFail <=> ReadOnly(a) /\ c \in B
      BY <2>1, PlanNodeIs
    <3> QED
      BY <2>3, <3>1, <3>2, <3>3
  <2>4. CASE u = Own(u[1]) /\ type[u[1]] # "terraform"
    <3>1. g[u] = SingleNode(n, a)
      BY <1>3, <1>4, <2>4
    <3>2. u # Apply(c) /\ u = remap(c, a)
      BY <1>4, <2>4 DEF remap, HasApply
    <3>3. /\ SingleNode(n, a).dependsOn = {remap(d, a) : d \in D[c]} /\ SingleNode(n, a).stage = stage[c]
          /\ SingleNode(n, a).contOnFail <=> c \in B
          /\ SingleNode(n, a).requiresApproval <=> c \in Q
      BY <2>1, SingleNodeIs
    <3> QED
      BY <2>4, <3>1, <3>2, <3>3
  <2> QED
    BY <1>4, <2>2, <2>3, <2>4
<1> QED
  BY <1>2, <1>4, <1>5, <1>6 DEF g, kept, Expands

\* The snapshot of a whole workflow.
LEMMA WholeGraph ==
  ASSUME WorkflowOK, NEW a \in WholeActions
  PROVE  GraphOK(snapshotComponents(a), a, FALSE)
<1> DEFINE nodes == [c \in Components |-> [componentNode(c) EXCEPT !.dependsOn = stageDependencies(c)]]
           D == [c \in Components |-> stageDependencies(c)]
           g == expandExecutionNodes(nodes, a)
<1>0. DOMAIN nodes = Components /\ \A c \in Components : D[c] = stageDependencies(c)
  OBVIOUS
<1>1. \A c \in Components :
        nodes[c] = [dependsOn |-> D[c], contOnFail |-> c \in cof,
                    requiresApproval |-> c \in gate, stage |-> stage[c]]
  BY DEF componentNode
<1>2. g = snapshotComponents(a)
  BY DEF snapshotComponents
<1> HIDE DEF nodes, D
<1>3. Expands(g, Kept(Components, a), a, D, cof, gate)
  BY <1>0, <1>1, ExpandedGraph
<1> HIDE DEF g
<1>4. a # "state_op" /\ (a # "drift" => Kept(Components, a) = Components)
  BY DEF WholeActions, Kept
<1>5. Kept(Components, a) \subseteq Components
  BY DEF Kept
<1>6. UnitsOK(g, a, FALSE)
  <2>1. a # "drift" => \A c \in Components : Own(c) \in DOMAIN g
    BY <1>3, <1>4 DEF Expands
  <2> QED
    BY <1>3, <1>4, <1>5, <2>1 DEF UnitsOK, Expands
<1>7. EdgesOK(g, a, FALSE)
  BY <1>0, <1>3, <1>5 DEF EdgesOK, Expands
<1>8. FlagsOK(g, a, FALSE)
  BY <1>3, <1>4 DEF FlagsOK, Expands
<1> QED
  BY <1>2, <1>6, <1>7, <1>8 DEF GraphOK

\* The snapshot of a component run.
LEMMA ScopedGraph ==
  ASSUME WorkflowOK, NEW c \in Components, NEW a \in {"deploy", "uninstall"}
  PROVE  GraphOK(scopedSnapshot(c, a), a, TRUE)
<1> DEFINE nodes == [d \in {c} |-> [componentNode(c) EXCEPT !.contOnFail = FALSE,
                                       !.requiresApproval = @ \/ a = "uninstall"]]
           D == [d \in {c} |-> {}]
           Q == {d \in {c} : d \in gate \/ a = "uninstall"}
           g == expandExecutionNodes(nodes, a)
<1>0. DOMAIN nodes = {c} /\ D[c] = {} /\ {c} \in SUBSET Components
  OBVIOUS
<1>1. nodes[c] = [dependsOn |-> D[c], contOnFail |-> c \in {},
                  requiresApproval |-> c \in Q, stage |-> stage[c]]
  <2>1. nodes[c] = [componentNode(c) EXCEPT !.contOnFail = FALSE,
                       !.requiresApproval = @ \/ a = "uninstall"]
    OBVIOUS
  <2>2. (c \in Q) = (c \in gate \/ a = "uninstall")
    OBVIOUS
  <2>3. (c \in {}) = FALSE
    OBVIOUS
  <2> QED
    BY <1>0, <2>1, <2>2, <2>3, Zenon DEF componentNode
<1>2. g = scopedSnapshot(c, a)
  BY DEF scopedSnapshot
<1> HIDE DEF nodes, D
<1>3. \A d \in {c} : nodes[d] = [dependsOn |-> D[d], contOnFail |-> d \in {},
                                 requiresApproval |-> d \in Q, stage |-> stage[d]]
  BY <1>1
<1>q. \A d \in {c} : d \in Q <=> d \in gate \/ a = "uninstall"
  OBVIOUS
<1> HIDE DEF Q
<1>4. Expands(g, Kept({c}, a), a, D, {}, Q)
  BY <1>0, <1>3, ExpandedGraph
<1> HIDE DEF g
<1>5. Kept({c}, a) \subseteq {c} /\ ~ReadOnly(a)
  BY DEF Kept, ReadOnly
<1>6. \A u \in DOMAIN g : u[1] = c /\ u[1] \in Components
  BY <1>4, <1>5 DEF Expands
<1>7. ASSUME NEW u \in DOMAIN g
      PROVE  /\ u \in Units
             /\ u = Own(u[1]) \/ (u = Apply(u[1]) /\ HasApply(u[1], a))
             /\ Own(u[1]) \in DOMAIN g /\ remap(u[1], a) \in DOMAIN g
             /\ g[u].stage = stage[u[1]]
             /\ u = Apply(u[1]) => g[u].dependsOn = {Own(u[1])}
             /\ u # Apply(u[1]) => g[u].dependsOn = {remap(d, a) : d \in D[c]}
             /\ ~g[u].contOnFail
             /\ (type[u[1]] = "terraform" => u = Apply(u[1])) =>
                  (g[u].requiresApproval <=> u[1] \in gate \/ a = "uninstall")
  <2>1. /\ u \in Units
        /\ u = Own(u[1]) \/ (u = Apply(u[1]) /\ HasApply(u[1], a))
        /\ Own(u[1]) \in DOMAIN g /\ remap(u[1], a) \in DOMAIN g
        /\ g[u].stage = stage[u[1]]
    BY <1>4 DEF Expands
  <2>2. /\ u = Apply(u[1]) => g[u].dependsOn = {Own(u[1])}
        /\ u # Apply(u[1]) => g[u].dependsOn = {remap(d, a) : d \in D[u[1]]}
        /\ g[u].contOnFail <=> u[1] \in {} /\ (ReadOnly(a) \/ u = remap(u[1], a))
    BY <1>4 DEF Expands
  <2>3. (type[u[1]] = "terraform" => u = Apply(u[1])) => (g[u].requiresApproval <=> u[1] \in Q)
    BY <1>4, <1>5 DEF Expands
  <2>4. u[1] = c /\ (c \in Q <=> c \in gate \/ a = "uninstall")
    BY <1>6, <1>q
  <2>5. ~g[u].contOnFail
    BY <2>2
  <2> QED
    BY <2>1, <2>2, <2>3, <2>4, <2>5
<1>8. a # "state_op" /\ a \in {"deploy", "uninstall", "state_op"}
  OBVIOUS
<1>9. UnitsOK(g, a, TRUE)
  <2>0. DOMAIN g \subseteq Units
    BY <1>7
  <2>1. ASSUME NEW u \in DOMAIN g, NEW v \in DOMAIN g PROVE u[1] = v[1]
    <3>1. u[1] = c
      BY <1>6
    <3>2. v[1] = c
      BY <1>6
    <3> QED
      BY <3>1, <3>2
  <2>2. \A u \in DOMAIN g :
          /\ u[1] \in Components
          /\ Own(u[1]) \in DOMAIN g
          /\ \/ u = Own(u[1])
             \/ u = Apply(u[1]) /\ HasApply(u[1], a) /\ a # "state_op"
          /\ a # "state_op" => remap(u[1], a) \in DOMAIN g
          /\ g[u].stage = stage[u[1]]
    BY <1>6, <1>7, <1>8
  <2> QED
    BY <1>8, <2>0, <2>1, <2>2 DEF UnitsOK
<1>10. {remap(d, a) : d \in D[c]} = {}
  BY <1>0
<1>11. EdgesOK(g, a, TRUE)
  BY <1>7, <1>10 DEF EdgesOK
<1>12. FlagsOK(g, a, TRUE)
  BY <1>7, <1>8 DEF FlagsOK
<1> QED
  BY <1>2, <1>9, <1>11, <1>12 DEF GraphOK

\* The snapshot of a state operation.
LEMMA StateOpGraph ==
  ASSUME WorkflowOK, NEW c \in Components, type[c] = "terraform"
  PROVE  GraphOK(stateOpSnapshot(c), "state_op", TRUE)
<1> DEFINE g == stateOpSnapshot(c)
<1>1. DOMAIN g = {Own(c)} /\ Own(c) \in Units /\ Own(c)[1] = c /\ Own(c) # Apply(c)
  BY UnitParts DEF stateOpSnapshot
<1>2. g[Own(c)] = [componentNode(c) EXCEPT !.contOnFail = FALSE, !.requiresApproval = TRUE]
  BY DEF stateOpSnapshot
<1>3. /\ g[Own(c)].dependsOn = {} /\ g[Own(c)].stage = stage[c]
      /\ ~g[Own(c)].contOnFail /\ g[Own(c)].requiresApproval
  BY <1>2 DEF componentNode
<1> HIDE DEF g
<1>4. UnitsOK(g, "state_op", TRUE)
  BY <1>1, <1>3 DEF UnitsOK
<1>5. EdgesOK(g, "state_op", TRUE)
  BY <1>1, <1>3 DEF EdgesOK
<1>6. FlagsOK(g, "state_op", TRUE)
  BY <1>1, <1>3 DEF FlagsOK
<1> QED
  BY <1>4, <1>5, <1>6 DEF GraphOK, g

-----------------------------------------------------------------------------
(* The run of a graph *)

Statuses == {"none", "running", "awaiting_approval", "succeeded", "failed", "partial"}

\* Rows have a status, and exactly the units of the run have rows.
StateOK ==
  /\ status \in Statuses
  /\ state \in [Units -> UnitStates \cup {"absent"}]
  /\ \A u \in Units : state[u] = "absent" <=> u \notin InRun
  /\ action = "none" => InRun = {}
  /\ scoped \in BOOLEAN

GraphInv == WorkflowOK /\ GraphOK(snap, action, scoped) /\ StateOK

\* What is known of a unit of the run.
LEMMA UnitFacts ==
  ASSUME GraphInv, NEW u \in InRun
  PROVE  /\ u \in Units /\ u[1] \in Components /\ state[u] \in UnitStates
         /\ Own(u[1]) \in InRun /\ Own(u[1]) # Apply(u[1])
         /\ \/ u = Own(u[1])
            \/ u = Apply(u[1]) /\ HasApply(u[1], action) /\ action # "state_op"
         /\ action # "state_op" => remap(u[1], action) \in InRun
         /\ snap[u].stage = stage[u[1]] /\ stage[u[1]] \in Nat
         /\ StageOf(u[1]) = stage[u[1]]
<1>1. UnitsOK(snap, action, scoped) /\ WorkflowOK /\ StateOK
  BY DEF GraphInv, GraphOK
<1>2. /\ u \in Units /\ u[1] \in Components
      /\ Own(u[1]) \in InRun
      /\ \/ u = Own(u[1])
         \/ u = Apply(u[1]) /\ HasApply(u[1], action) /\ action # "state_op"
      /\ action # "state_op" => remap(u[1], action) \in InRun
      /\ snap[u].stage = stage[u[1]]
  BY <1>1 DEF UnitsOK, InRun
<1>3. state[u] \in UnitStates
  BY <1>1, <1>2 DEF StateOK
<1>4. stage[u[1]] \in Nat
  BY <1>1, <1>2, GraphAssumption DEF WorkflowOK
<1>5. Own(u[1])[1] = u[1] /\ Own(u[1]) # Apply(u[1])
  BY <1>2, UnitParts
<1>6. snap[Own(u[1])].stage = stage[u[1]]
  BY <1>1, <1>2, <1>5 DEF UnitsOK, InRun
<1> QED
  BY <1>2, <1>3, <1>4, <1>5, <1>6 DEF StageOf

\* What a unit waits for: an apply for its plan, another unit for the last
\* units of the nearest earlier stage, and in a read-only run for nothing.
LEMMA DependsOnIs ==
  ASSUME GraphInv, NEW u \in InRun
  PROVE  /\ DependsOn(u) \subseteq InRun
         /\ ReadOnly(action) => DependsOn(u) = {}
         /\ ~ReadOnly(action) /\ u = Apply(u[1]) => DependsOn(u) = {Own(u[1])}
         /\ ~ReadOnly(action) /\ u # Apply(u[1]) =>
              DependsOn(u) = IF scoped THEN {} ELSE {remap(d, action) : d \in stageDependencies(u[1])}
<1>1. UnitsOK(snap, action, scoped) /\ EdgesOK(snap, action, scoped) /\ WorkflowOK /\ StateOK
  BY DEF GraphInv, GraphOK
<1>2. CASE ReadOnly(action)
  BY <1>2 DEF DependsOn
<1>3. CASE ~ReadOnly(action)
  <2>1. snap[u].dependsOn = IF u = Apply(u[1]) THEN {Own(u[1])}
                            ELSE IF scoped THEN {}
                            ELSE {remap(d, action) : d \in stageDependencies(u[1])}
    BY <1>1 DEF EdgesOK, InRun
  <2>2. snap[u].dependsOn \subseteq InRun
    <3>1. CASE u = Apply(u[1])
      BY <2>1, <3>1, UnitFacts
    <3>2. CASE u # Apply(u[1]) /\ scoped
      BY <2>1, <3>2
    <3>3. CASE u # Apply(u[1]) /\ ~scoped
      <4>1. action # "none" /\ action # "state_op"
        BY <1>1, <3>3 DEF StateOK, UnitsOK
      <4>2. ASSUME NEW d \in stageDependencies(u[1]) PROVE remap(d, action) \in InRun
        <5>1. d \in Components
          BY DEF stageDependencies
        <5>2. Own(d) \in InRun
          BY <1>1, <1>3, <3>3, <4>1, <5>1 DEF UnitsOK, InRun, ReadOnly
        <5>3. Own(d)[1] = d
          BY <5>1, UnitParts
        <5> QED
          BY <4>1, <5>2, <5>3, UnitFacts
      <4> QED
        BY <2>1, <3>3, <4>2
    <3> QED
      BY <3>1, <3>2, <3>3
  <2>3. DependsOn(u) = {IF d \in InRun THEN d ELSE NoUnit : d \in snap[u].dependsOn}
    BY <1>3 DEF DependsOn
  <2>4. DependsOn(u) = snap[u].dependsOn
    BY <2>2, <2>3
  <2> QED
    BY <1>3, <2>1, <2>2, <2>4
<1> QED
  BY <1>2, <1>3

\* Nothing waits for what comes later.
LEMMA DependsOnEarlier ==
  ASSUME GraphInv, NEW u \in InRun, NEW d \in DependsOn(u)
  PROVE  /\ d \in InRun /\ ~ReadOnly(action) /\ stage[d[1]] <= stage[u[1]]
         /\ stage[d[1]] = stage[u[1]] => u = Apply(u[1]) /\ d = Own(u[1])
<1>1. d \in InRun /\ ~ReadOnly(action)
  BY DependsOnIs
<1>2. u[1] \in Components /\ stage[u[1]] \in Nat
  BY UnitFacts
<1>3. CASE u = Apply(u[1])
  <2>1. d = Own(u[1])
    BY <1>1, <1>3, DependsOnIs
  <2>2. d[1] = u[1]
    BY <1>2, <2>1, UnitParts
  <2> QED
    BY <1>1, <1>2, <1>3, <2>1, <2>2
<1>4. CASE u # Apply(u[1])
  <2>1. PICK b \in stageDependencies(u[1]) : d = remap(b, action)
    <3>1. ~scoped
      BY <1>1, <1>4, DependsOnIs
    <3> QED
      BY <1>1, <1>4, <3>1, DependsOnIs
  <2>2. b \in Components /\ stage[b] < stage[u[1]]
    BY DEF stageDependencies
  <2>3. d[1] = b
    BY <2>1, <2>2, UnitParts DEF remap
  <2>4. stage[b] \in Nat
    BY <2>2, GraphAssumption DEF GraphInv, WorkflowOK
  <2> QED
    BY <1>1, <1>2, <2>2, <2>3, <2>4
<1> QED
  BY <1>3, <1>4

Passes(d) == state[d] = "succeeded" \/ (state[d] = "failed" /\ ContOnFail(d))
Hinders(d) == state[d] = "skipped" \/ (state[d] = "failed" /\ ~ContOnFail(d))

\* The rules of DagRun, said of the units.
LEMMA DagMeans ==
  ASSUME NEW u \in Units
  PROVE  /\ Dag!Passed(u) <=> Passes(u)
         /\ Dag!Blocks(u) <=> Hinders(u)
         /\ Dag!DepsPassed(u) => \A d \in DependsOn(u) : Passes(d)
         /\ (\A d \in DependsOn(u) : d \in Units /\ Passes(d)) => Dag!DepsPassed(u)
<1>1. \A d \in Units : Dag!Passed(d) <=> Passes(d)
  BY DEF Dag!Passed, Passes
<1>2. \A d \in Units : Dag!Blocks(d) <=> Hinders(d)
  BY DEF Dag!Blocks, Hinders
<1>3. Dag!DepsPassed(u) <=> \A d \in DependsOn(u) : d \in Units /\ Dag!Passed(d)
  BY DEF Dag!DepsPassed
<1> QED
  BY <1>1, <1>2, <1>3

\* A step of the attempt: one unit moves, by one of three rules.
Moves(u, s) ==
  /\ u \in InRun /\ state' = [state EXCEPT ![u] = s]
  /\ status = "running" /\ UNCHANGED <<stage, type, cof, gate, action, scoped, snap, approved, status>>
  /\ \/ /\ state[u] = "pending" /\ s \in {"running", "awaiting_approval", "succeeded"}
        /\ \A d \in DependsOn(u) : Passes(d)
        /\ s = "running" => ~Gated(u)
        /\ s = "awaiting_approval" => Gated(u)
     \/ state[u] = "running" /\ s \in {"succeeded", "failed"}
     \/ /\ state[u] = "pending" /\ s = "skipped"
        /\ \E d \in DependsOn(u) : Hinders(d)
        /\ \A v \in InRun : Blocked(v) => ~sweepsFirst(v, u)

\* Every driving action moves a unit.
LEMMA DriveMoves ==
  ASSUME GraphInv, NEW u \in Units, Drive(u)
  PROVE  \E s \in UnitStates : Moves(u, s)
<1>t. StateOK /\ state[u] \in UnitStates \cup {"absent"}
  BY DEF GraphInv, StateOK
<1>1. status = "running" /\ UNCHANGED <<stage, type, cof, gate, action, scoped, snap, approved, status>>
  BY DEF Drive, Launch, runComponent, Skip, CompleteApply, Park, Driving, workflow, runGraph
<1>2. ASSUME state[u] # "absent" PROVE u \in InRun
  BY <1>t, <1>2 DEF StateOK
<1>3. CASE Launch(u)
  <2>1. state[u] = "pending" /\ Dag!DepsPassed(u) /\ ~Gated(u) /\ state' = [state EXCEPT ![u] = "running"]
    BY <1>3 DEF Launch, Dag!Run, Dag!Waiting, Dag!Become
  <2>2. Moves(u, "running")
    BY <1>1, <1>2, <2>1, DagMeans DEF Moves
  <2> QED
    BY <2>2 DEF UnitStates, InFlight
<1>4. CASE runComponent(u)
  <2>1. PICK s \in {"succeeded", "failed", "skipped"} : state' = [state EXCEPT ![u] = s]
    BY <1>4 DEF runComponent, Dag!Finish, Dag!Become
  <2>2. state[u] = "running" /\ state'[u] \in {"succeeded", "failed"}
    BY <1>4 DEF runComponent, Dag!Finish
  <2>3. s \in {"succeeded", "failed"}
    BY <1>t, <2>1, <2>2 DEF StateOK
  <2>4. Moves(u, s)
    BY <1>1, <1>2, <2>1, <2>2, <2>3 DEF Moves
  <2> QED
    BY <2>3, <2>4 DEF UnitStates, Terminal
<1>5. CASE Skip(u)
  <2>1. /\ state[u] = "pending" /\ state' = [state EXCEPT ![u] = "skipped"]
        /\ \E d \in DependsOn(u) : d \in Units /\ Dag!Blocks(d)
        /\ \A v \in InRun : Blocked(v) => ~sweepsFirst(v, u)
    BY <1>5 DEF Skip, Dag!Skip, Dag!Waiting, Dag!Become
  <2>2. \E d \in DependsOn(u) : Hinders(d)
    BY <2>1, DagMeans
  <2>3. Moves(u, "skipped")
    BY <1>1, <1>2, <2>1, <2>2 DEF Moves
  <2> QED
    BY <2>3 DEF UnitStates, Terminal
<1>6. CASE CompleteApply(u)
  <2>1. state[u] = "pending" /\ Dag!DepsPassed(u) /\ state' = [state EXCEPT ![u] = "succeeded"]
    BY <1>6 DEF CompleteApply, Dag!Complete, Dag!Waiting, Dag!Become
  <2>2. Moves(u, "succeeded")
    BY <1>1, <1>2, <2>1, DagMeans DEF Moves
  <2> QED
    BY <2>2 DEF UnitStates, Terminal
<1>7. CASE Park(u)
  <2>1. /\ state[u] = "pending" /\ Dag!DepsPassed(u) /\ Gated(u)
        /\ state' = [state EXCEPT ![u] = "awaiting_approval"]
    BY <1>7 DEF Park, Dag!AwaitApproval, Dag!Waiting, Dag!Become
  <2>2. Moves(u, "awaiting_approval")
    BY <1>1, <1>2, <2>1, DagMeans DEF Moves
  <2> QED
    BY <2>2 DEF UnitStates, InFlight
<1> QED
  BY <1>3, <1>4, <1>5, <1>6, <1>7 DEF Drive

\* The run begins with the graph g.
Begins(g, a, sc) ==
  /\ status = "none" /\ GraphOK(g, a, sc) /\ a # "none" /\ sc \in BOOLEAN
  /\ action' = a /\ scoped' = sc /\ snap' = g
  /\ state' = [u \in Units |-> IF u \in DOMAIN g THEN "pending" ELSE "absent"]
  /\ status' = "running"
  /\ UNCHANGED <<stage, type, cof, gate, approved>>

\* A gate is decided.
Decides(u, s) ==
  /\ u \in InRun /\ s \in {"pending", "failed"} /\ state[u] = "awaiting_approval"
  /\ status = "awaiting_approval" /\ state' = [state EXCEPT ![u] = s]
  /\ UNCHANGED <<stage, type, cof, gate, action, scoped, snap, status>>
  /\ approved' = approved \cup {u}

\* The run is suspended, resumes, or does nothing.
Rests ==
  /\ UNCHANGED <<stage, type, cof, gate, action, scoped, snap, approved, state>>
  /\ \/ status' = status
     \/ status \in {"running", "awaiting_approval"} /\ status' \in {"running", "awaiting_approval"}

\* Every step is one of these, or the settlement.
LEMMA NextCases ==
  ASSUME GraphInv, [Next]_vars
  PROVE  \/ \E g, a, sc : Begins(g, a, sc)
         \/ \E u \in InRun, s \in UnitStates : Moves(u, s)
         \/ \E u \in InRun, s \in UnitStates : Decides(u, s)
         \/ Rests
         \/ Settle
<1>t. WorkflowOK /\ StateOK
  BY DEF GraphInv
<1>1. ASSUME NEW a \in WholeActions, BeginRun(a) PROVE \E g, b, sc : Begins(g, b, sc)
  <2>1. GraphOK(snapshotComponents(a), a, FALSE)
    BY <1>t, WholeGraph
  <2>2. Begins(snapshotComponents(a), a, FALSE)
    BY <1>1, <2>1 DEF BeginRun, createRun, Begins, workflow, WholeActions
  <2> QED
    BY <2>2
<1>2. ASSUME NEW c \in Components, NEW a \in {"deploy", "uninstall"}, BeginComponentRun(c, a)
      PROVE  \E g, b, sc : Begins(g, b, sc)
  <2>1. GraphOK(scopedSnapshot(c, a), a, TRUE)
    BY <1>t, ScopedGraph
  <2>2. Begins(scopedSnapshot(c, a), a, TRUE)
    BY <1>2, <2>1 DEF BeginComponentRun, createRun, Begins, workflow
  <2> QED
    BY <2>2
<1>3. ASSUME NEW c \in Components, BeginStateOp(c) PROVE \E g, b, sc : Begins(g, b, sc)
  <2>1. GraphOK(stateOpSnapshot(c), "state_op", TRUE)
    BY <1>t, <1>3, StateOpGraph DEF BeginStateOp
  <2>2. Begins(stateOpSnapshot(c), "state_op", TRUE)
    BY <1>3, <2>1 DEF BeginStateOp, createRun, Begins, workflow
  <2> QED
    BY <2>2
<1>4. ASSUME NEW u \in Units, Drive(u) PROVE \E v \in InRun, s \in UnitStates : Moves(v, s)
  BY <1>4, DriveMoves DEF Moves
<1>5. ASSUME NEW u \in Units, Approve(u) \/ RejectGate(u)
      PROVE  \E v \in InRun, s \in UnitStates : Decides(v, s)
  <2>1. PICK s \in {"pending", "failed"} : Decide(u, s)
    BY <1>5 DEF Approve, RejectGate
  <2>2. u \in InRun
    BY <1>t, <2>1 DEF Decide, StateOK
  <2>3. Decides(u, s)
    BY <2>1, <2>2 DEF Decide, Decides, workflow, runGraph
  <2> QED
    BY <2>2, <2>3 DEF UnitStates, InFlight, Terminal
<1>6. CASE Suspend \/ Resume
  BY <1>6 DEF Suspend, Resume, Returned, Rests, workflow, runGraph
<1>7. CASE UNCHANGED vars
  BY <1>7 DEF vars, Rests
<1> QED
  BY <1>1, <1>2, <1>3, <1>4, <1>5, <1>6, <1>7 DEF Next, Begin

\* The workflow and the graph depend on variables a step leaves alone.
LEMMA GraphFrame ==
  ASSUME UNCHANGED <<stage, type, cof, gate, action, scoped, snap>>
  PROVE  /\ WorkflowOK => WorkflowOK'
         /\ GraphOK(snap, action, scoped) => GraphOK(snap, action, scoped)'
         /\ InRun' = InRun
         /\ \A u : DependsOn(u)' = DependsOn(u) /\ (ContOnFail(u)' <=> ContOnFail(u))
<1>1. WorkflowOK => WorkflowOK'
  BY DEF WorkflowOK
<1>2. InRun' = InRun
  BY DEF InRun
<1>3. \A u : DependsOn(u)' = DependsOn(u) /\ (ContOnFail(u)' <=> ContOnFail(u))
  BY <1>2 DEF DependsOn, ContOnFail
<1>4. UnitsOK(snap, action, scoped) => UnitsOK(snap, action, scoped)'
  BY DEF UnitsOK, remap, HasApply
<1>5. EdgesOK(snap, action, scoped) => EdgesOK(snap, action, scoped)'
  <2>1. \A c : stageDependencies(c)' = stageDependencies(c) /\ remap(c, action)' = remap(c, action)
    BY DEF stageDependencies, remap, HasApply
  <2> QED
    BY <2>1 DEF EdgesOK
<1>6. FlagsOK(snap, action, scoped) => FlagsOK(snap, action, scoped)'
  BY DEF FlagsOK, remap, HasApply
<1> QED
  BY <1>1, <1>2, <1>3, <1>4, <1>5, <1>6 DEF GraphOK

\* A fresh run.
LEMMA BeginsGraph ==
  ASSUME GraphInv, NEW g, NEW a, NEW sc, Begins(g, a, sc)
  PROVE  /\ GraphInv'
         /\ \A u \in InRun' : state'[u] = "pending"
<1>1. WorkflowOK'
  BY DEF GraphInv, Begins, WorkflowOK
<1>2. GraphOK(snap, action, scoped)'
  <2>1. \A c, b : remap(c, b)' = remap(c, b) /\ HasApply(c, b)' = HasApply(c, b)
                  /\ stageDependencies(c)' = stageDependencies(c)
    BY DEF Begins, remap, HasApply, stageDependencies
  <2>2. UnitsOK(g, a, sc) /\ EdgesOK(g, a, sc) /\ FlagsOK(g, a, sc)
    BY DEF Begins, GraphOK
  <2>3. UnitsOK(snap, action, scoped)'
    BY <2>1, <2>2 DEF Begins, UnitsOK
  <2>4. EdgesOK(snap, action, scoped)'
    <3>1. \A c : {remap(d, a)' : d \in stageDependencies(c)'} = {remap(d, a) : d \in stageDependencies(c)}
      BY <2>1
    <3>2. snap' = g /\ action' = a /\ scoped' = sc
      BY DEF Begins
    <3>3. ASSUME NEW u \in DOMAIN g
          PROVE  g[u].dependsOn = IF u = Apply(u[1]) THEN {Own(u[1])}
                                  ELSE IF sc THEN {}
                                  ELSE {remap(d, a)' : d \in stageDependencies(u[1])'}
      BY <2>2, <3>1 DEF EdgesOK
    <3> QED
      BY <3>2, <3>3 DEF EdgesOK, remap, HasApply
  <2>5. FlagsOK(snap, action, scoped)'
    BY <2>1, <2>2 DEF Begins, FlagsOK
  <2> QED
    BY <2>3, <2>4, <2>5 DEF GraphOK
<1>3. InRun' = DOMAIN g /\ DOMAIN g \subseteq Units
  BY DEF Begins, InRun, GraphOK, UnitsOK
<1>4. \A u \in Units : state'[u] = IF u \in DOMAIN g THEN "pending" ELSE "absent"
  BY DEF Begins
<1>5. state' \in [Units -> UnitStates \cup {"absent"}]
  BY DEF Begins, UnitStates, InFlight
<1>6. StateOK'
  BY <1>3, <1>4, <1>5 DEF Begins, StateOK, Statuses
<1> QED
  BY <1>1, <1>2, <1>3, <1>4, <1>6 DEF GraphInv

\* The settlement, unit by unit.
LEMMA SettleIs ==
  ASSUME GraphInv, Settle
  PROVE  /\ UNCHANGED <<stage, type, cof, gate, action, scoped, snap, approved>>
         /\ status = "running" /\ status' = Final /\ Final \in {"failed", "partial", "succeeded"}
         /\ state' \in [Units -> UnitStates \cup {"absent"}]
         /\ \A u \in Units : state'[u] =
              IF status' \in {"failed", "partial"} /\ state[u] \in InFlight THEN "skipped" ELSE state[u]
<1>1. state \in [Units -> UnitStates \cup {"absent"}]
  BY DEF GraphInv, StateOK
<1>2. status' = Final /\ Final \in {"failed", "partial", "succeeded"}
  BY DEF Settle, Final
<1>3. state' = [u \in Units |->
        IF status' \in {"failed", "partial"} /\ state[u] \in InFlight THEN "skipped" ELSE state[u]]
  BY DEF Settle
<1>4. state' \in [Units -> UnitStates \cup {"absent"}]
  BY <1>1, <1>3 DEF UnitStates, Terminal
<1>5. UNCHANGED <<stage, type, cof, gate, action, scoped, snap, approved>> /\ status = "running"
  BY DEF Settle, Returned, workflow, runGraph
<1> QED
  BY <1>2, <1>3, <1>4, <1>5

\* At first there is no run.
LEMMA GraphInit == Init => GraphInv
<1> SUFFICES ASSUME Init PROVE GraphInv
  OBVIOUS
<1>1. WorkflowOK
  BY GraphAssumption DEF Init, WorkflowOK
<1>2. DOMAIN snap = {} /\ InRun = {}
  BY DEF Init, InRun
<1>3. GraphOK(snap, action, scoped)
  BY <1>2 DEF Init, GraphOK, UnitsOK, EdgesOK, FlagsOK
<1>4. StateOK
  BY <1>2 DEF Init, StateOK, Statuses
<1> QED
  BY <1>1, <1>3, <1>4 DEF GraphInv

\* The graph and the rows keep their form.
LEMMA GraphNext == GraphInv /\ [Next]_vars => GraphInv'
<1> SUFFICES ASSUME GraphInv, [Next]_vars PROVE GraphInv'
  OBVIOUS
<1>t. WorkflowOK /\ GraphOK(snap, action, scoped) /\ StateOK
  BY DEF GraphInv
<1>1. ASSUME NEW g, NEW a, NEW sc, Begins(g, a, sc) PROVE GraphInv'
  BY <1>1, BeginsGraph
<1>2. ASSUME NEW u \in InRun, NEW s \in UnitStates, Moves(u, s) \/ Decides(u, s) PROVE GraphInv'
  <2>1. /\ UNCHANGED <<stage, type, cof, gate, action, scoped, snap, status>>
        /\ state' = [state EXCEPT ![u] = s]
    BY <1>2 DEF Moves, Decides
  <2>2. WorkflowOK' /\ GraphOK(snap, action, scoped)' /\ InRun' = InRun
    BY <1>t, <2>1, GraphFrame
  <2>3. u \in Units /\ s # "absent"
    BY UnitFacts DEF UnitStates, InFlight, Terminal
  <2>4. StateOK'
    BY <1>t, <2>1, <2>2, <2>3 DEF StateOK
  <2> QED
    BY <2>2, <2>4 DEF GraphInv
<1>3. CASE Rests
  <2>1. WorkflowOK' /\ GraphOK(snap, action, scoped)' /\ InRun' = InRun
    BY <1>t, <1>3, GraphFrame DEF Rests
  <2>2. StateOK'
    BY <1>t, <1>3, <2>1 DEF Rests, StateOK, Statuses
  <2> QED
    BY <2>1, <2>2 DEF GraphInv
<1>4. CASE Settle
  <2>1. /\ UNCHANGED <<stage, type, cof, gate, action, scoped, snap>>
        /\ status' \in {"failed", "partial", "succeeded"}
        /\ state' \in [Units -> UnitStates \cup {"absent"}]
        /\ \A u \in Units : state'[u] =
             IF status' \in {"failed", "partial"} /\ state[u] \in InFlight THEN "skipped" ELSE state[u]
    BY <1>4, SettleIs
  <2>2. WorkflowOK' /\ GraphOK(snap, action, scoped)' /\ InRun' = InRun
    BY <1>t, <2>1, GraphFrame
  <2>3. \A u \in Units : state'[u] = "absent" <=> state[u] = "absent"
    BY <2>1 DEF InFlight
  <2>4. StateOK'
    BY <1>t, <2>1, <2>2, <2>3 DEF StateOK, Statuses
  <2> QED
    BY <2>2, <2>4 DEF GraphInv
<1> QED
  BY <1>1, <1>2, <1>3, <1>4, NextCases

\* Whatever the action drops from the graph, no attempt is given a dependency
\* on a step its run does not have (runs.go: expandExecutionNodes, remap;
\* worker.go: the node list).
THEOREM NodeListIsClosed == Spec => []DependenciesAreInTheRun
<1>1. GraphInv => DependenciesAreInTheRun
  BY DependsOnIs DEF DependenciesAreInTheRun
<1> QED
  BY <1>1, GraphInit, GraphNext, PTL DEF Spec

\* A gated component, a component uninstall and a state operation change
\* things only after an approval: the gate is on the unit that changes
\* something, and the scheduler runs no unit whose gate is closed
\* (runs.go: expandExecutionNodes; scoped.go, stateops.go).
THEOREM NothingChangesUnapproved == Spec => ChangesWaitForApproval
<1>1. ASSUME GraphInv, [Next]_vars, NEW u \in Units, state'[u] = "running", state[u] # "running"
      PROVE  ReadOnly(action) \/ ~Changes(u) \/ ~MustApprove(u[1]) \/ u \in approved
  <2>t. StateOK /\ FlagsOK(snap, action, scoped)
    BY <1>1 DEF GraphInv, GraphOK
  <2>1. Moves(u, "running")
    <3>1. ASSUME NEW g, NEW a, NEW sc, Begins(g, a, sc) PROVE FALSE
      BY <1>1, <3>1 DEF Begins
    <3>2. ASSUME NEW v \in InRun, NEW s \in UnitStates, Decides(v, s) PROVE FALSE
      BY <1>1, <2>t, <3>2 DEF Decides, StateOK
    <3>3. ASSUME Rests \/ Settle PROVE FALSE
      BY <1>1, <3>3, SettleIs DEF Rests
    <3>4. PICK v \in InRun, s \in UnitStates : Moves(v, s)
      BY <1>1, <3>1, <3>2, <3>3, NextCases
    <3>5. v = u /\ s = "running"
      BY <1>1, <2>t, <3>4 DEF Moves, StateOK
    <3> QED
      BY <3>4, <3>5
  <2>2. u \in InRun /\ ~Gated(u)
    <3>1. state[u] # "running" /\ ~("running" \in {"succeeded", "failed"}) /\ "running" # "skipped"
      BY <1>1
    <3> QED
      BY <2>1, <3>1 DEF Moves
  <2>3. ReadOnly(action) \/ u \in approved \/ ~snap[u].requiresApproval
    BY <2>2 DEF Gated
  <2>4. ~ReadOnly(action) /\ Changes(u) => (snap[u].requiresApproval <=> MustApprove(u[1]))
    BY <2>t, <2>2 DEF FlagsOK, Changes, MustApprove, InRun
  <2> QED
    BY <2>3, <2>4
<1>2. GraphInv /\ [Next]_vars =>
        [\A u \in Units : state'[u] = "running" /\ state[u] # "running" =>
           ReadOnly(action) \/ ~Changes(u) \/ ~MustApprove(u[1]) \/ u \in approved]_vars
  BY <1>1
<1> QED
  BY <1>2, GraphInit, GraphNext, PTL DEF Spec, ChangesWaitForApproval

-----------------------------------------------------------------------------
(* Stages *)

\* A non-empty set of natural numbers has a least element.
LEMMA LeastOf ==
  ASSUME NEW T \in SUBSET Nat, T # {}
  PROVE  \E x \in T : \A y \in T : x <= y
<1>1. IsWellFoundedOn(OpToRel(<, Nat), Nat)
  BY NatLessThanWellFounded
<1>2. PICK x \in T : \A y \in T : ~ (<<y, x>> \in OpToRel(<, Nat))
  BY <1>1, WFMin
<1>3. ASSUME NEW y \in T PROVE x <= y
  <2>1. ~ (<<y, x>> \in {p \in Nat \X Nat : p[1] < p[2]})
    BY <1>2, Zenon DEF OpToRel
  <2>2. y \in Nat /\ x \in Nat
    OBVIOUS
  <2>3. y < x => <<y, x>> \in {p \in Nat \X Nat : p[1] < p[2]}
    BY <2>2
  <2> QED
    BY <2>1, <2>2, <2>3
<1> QED
  BY <1>3

\* What a component waits for is in the nearest earlier stage: no component
\* lies between them.
LEMMA NearestStage ==
  ASSUME WorkflowOK, NEW b \in Components, NEW c \in Components, stage[b] < stage[c]
  PROVE  \E m \in stageDependencies(c) : stage[b] <= stage[m]
<1>0. \A x \in Components : stage[x] \in Nat /\ stage[x] <= Stages
  BY GraphAssumption DEF WorkflowOK
<1>s. Stages \in Nat
  BY GraphAssumption
<1> DEFINE T == {Stages - stage[x] : x \in {y \in Components : stage[y] < stage[c]}}
<1>1. T \in SUBSET Nat
  BY <1>0, <1>s
<1>2. Stages - stage[b] \in T
  OBVIOUS
<1>3. PICK t \in T : \A e \in T : t <= e
  BY <1>1, <1>2, LeastOf
<1>4. PICK m \in Components : stage[m] < stage[c] /\ t = Stages - stage[m]
  OBVIOUS
<1>5. ASSUME NEW x \in Components, stage[x] < stage[c] PROVE stage[x] <= stage[m]
  <2>1. Stages - stage[x] \in T
    BY <1>5
  <2>2. Stages - stage[m] <= Stages - stage[x]
    BY <1>3, <1>4, <2>1
  <2> QED
    BY <1>0, <1>s, <2>2
<1>6. \A x \in Components : ~(stage[m] < stage[x] /\ stage[x] < stage[c])
  BY <1>0, <1>5
<1> QED
  BY <1>4, <1>5, <1>6 DEF stageDependencies

\* What has begun had its dependencies passed.
DepsRespected ==
  \A u \in InRun : state[u] \notin {"pending", "skipped"} => \A d \in DependsOn(u) : Passes(d)

\* A read-only run parks and skips nothing.
ReadOnlyFlows ==
  ReadOnly(action) => \A u \in InRun : state[u] \notin {"awaiting_approval", "skipped"}

FlowInv == GraphInv /\ DepsRespected /\ ReadOnlyFlows

\* A run of several stages is a run of the whole workflow.
LEMMA WholeRun ==
  ASSUME GraphInv, action # "drift", NEW b \in Jobs, NEW c \in Jobs, stage[b] # stage[c]
  PROVE  /\ ~scoped /\ action # "state_op"
         /\ \A x \in Components : Own(x) \in InRun /\ remap(x, action) \in InRun
<1>1. PICK u \in InRun : u[1] = b
  BY DEF Jobs
<1>2. PICK v \in InRun : v[1] = c
  BY DEF Jobs
<1>3. UnitsOK(snap, action, scoped) /\ StateOK
  BY DEF GraphInv, GraphOK
<1>4. ~scoped
  BY <1>1, <1>2, <1>3 DEF UnitsOK, InRun
<1>5. action # "none" /\ action # "state_op"
  BY <1>1, <1>3, <1>4 DEF StateOK, UnitsOK
<1>6. ASSUME NEW x \in Components PROVE Own(x) \in InRun /\ remap(x, action) \in InRun
  <2>1. Own(x) \in InRun
    BY <1>3, <1>4, <1>5 DEF UnitsOK, InRun
  <2>2. Own(x)[1] = x
    BY UnitParts
  <2> QED
    BY <1>5, <2>1, <2>2, UnitFacts
<1> QED
  BY <1>4, <1>5, <1>6

\* A component that has begun had the last units of the stage before it pass.
LEMMA BegunAfter ==
  ASSUME GraphInv, DepsRespected, ~ReadOnly(action), ~scoped,
         NEW u \in InRun, state[u] \notin {"pending", "skipped"},
         NEW m \in stageDependencies(u[1])
  PROVE  Passes(remap(m, action))
<1> DEFINE o == Own(u[1])
<1>1. /\ o \in InRun /\ o # Apply(u[1]) /\ u[1] \in Components
      /\ u = o \/ u = Apply(u[1])
  BY UnitFacts
<1>2. state[o] \notin {"pending", "skipped"}
  <2>1. CASE u = o
    BY <2>1
  <2>2. CASE u = Apply(u[1])
    <3>1. DependsOn(u) = {o}
      BY <2>2, DependsOnIs
    <3>2. Passes(o)
      BY <3>1 DEF DepsRespected
    <3> QED
      BY <3>2 DEF Passes
  <2> QED
    BY <1>1, <2>1, <2>2
<1>3. o[1] = u[1]
  BY <1>1, UnitParts
<1>4. DependsOn(o) = {remap(d, action) : d \in stageDependencies(u[1])}
  BY <1>1, <1>3, DependsOnIs
<1>5. remap(m, action) \in DependsOn(o)
  BY <1>4
<1> QED
  BY <1>1, <1>2, <1>5 DEF DepsRespected

\* The failure of a unit that does not continue stops the run.
LEMMA FailureFlags ==
  ASSUME GraphInv, NEW u \in InRun
  PROVE  /\ ContOnFail(u) <=> ~scoped /\ u[1] \in cof /\ (ReadOnly(action) \/ u = remap(u[1], action))
         /\ scoped => ~ReadOnly(action)
<1>1. FlagsOK(snap, action, scoped) /\ UnitsOK(snap, action, scoped)
  BY DEF GraphInv, GraphOK
<1>2. ContOnFail(u) <=> ~scoped /\ u[1] \in cof /\ (ReadOnly(action) \/ u = remap(u[1], action))
  BY <1>1 DEF FlagsOK, ContOnFail, InRun
<1>3. scoped => ~ReadOnly(action)
  BY <1>1 DEF UnitsOK, ReadOnly
<1> QED
  BY <1>2, <1>3

\* A component whose last unit passed has begun and is through.
LEMMA PassedIsThrough ==
  ASSUME GraphInv, DepsRespected, ~ReadOnly(action), NEW m \in Components,
         remap(m, action) \in InRun, Passes(remap(m, action))
  PROVE  Started(m) /\ Through(m)
<1> DEFINE r == remap(m, action)
<1>0. r[1] = m /\ Own(m)[1] = m /\ Own(m) # Apply(m)
  BY UnitParts DEF remap
<1>1. Started(m)
  BY <1>0 DEF Started, Passes
<1>2. state[r] = "succeeded" \/ (state[r] = "failed" /\ m \in cof)
  BY <1>0, FailureFlags DEF Passes
<1>3. ASSUME NEW u \in InRun, u[1] = m, u # r PROVE state[u] = "succeeded"
  <2>1. u = Own(m) \/ (u = Apply(m) /\ HasApply(m, action))
    BY <1>3, UnitFacts
  <2>2. HasApply(m, action) /\ u = Own(m) /\ r = Apply(m)
    BY <1>3, <2>1 DEF remap
  <2>3. DependsOn(r) = {u}
    BY <1>0, <2>2, DependsOnIs
  <2>4. Passes(u)
    BY <2>3 DEF DepsRespected, Passes
  <2>5. ~ContOnFail(u)
    BY <1>3, FailureFlags
  <2> QED
    BY <2>4, <2>5 DEF Passes
<1>4. Through(m)
  BY <1>2, <1>3 DEF Through
<1> QED
  BY <1>1, <1>4

\* When something of a stage has begun, all of the earlier stages is through.
LEMMA StagesFollow ==
  ASSUME GraphInv, DepsRespected, ~ReadOnly(action),
         NEW b \in Jobs, NEW c \in Jobs, stage[b] < stage[c], Started(c)
  PROVE  Through(b)
<1>j. Jobs \subseteq Components
  BY UnitFacts DEF Jobs
<1>0. \A x \in Components : stage[x] \in Nat
  BY GraphAssumption DEF GraphInv, WorkflowOK
<1>1. /\ ~scoped /\ \A x \in Components : Own(x) \in InRun /\ remap(x, action) \in InRun
  BY <1>j, <1>0, WholeRun DEF ReadOnly
<1> DEFINE Bad(x) == Started(x) /\ \E y \in Components : stage[y] < stage[x] /\ ~Through(y)
           T == {stage[x] : x \in {z \in Components : Bad(z)}}
<1> SUFFICES ASSUME ~Through(b) PROVE FALSE
  OBVIOUS
<1>2. stage[c] \in T
  BY <1>j
<1>3. T \in SUBSET Nat
  BY <1>0
<1>4. PICK t \in T : \A e \in T : t <= e
  BY <1>2, <1>3, LeastOf
<1>5. PICK x \in Components : Bad(x) /\ t = stage[x]
  OBVIOUS
<1>6. PICK y \in Components : stage[y] < stage[x] /\ ~Through(y)
  BY <1>5
<1>7. PICK m \in stageDependencies(x) : stage[y] <= stage[m]
  BY <1>6, NearestStage DEF GraphInv
<1>8. PICK u \in InRun : u[1] = x /\ state[u] \notin {"pending", "skipped"}
  BY <1>5 DEF Started
<1>9. ASSUME NEW d \in stageDependencies(x) PROVE d \in Components /\ Started(d) /\ Through(d)
  <2>1. d \in Components
    BY DEF stageDependencies
  <2>2. Passes(remap(d, action))
    BY <1>1, <1>8, BegunAfter
  <2> QED
    BY <1>1, <2>1, <2>2, PassedIsThrough
<1>10. stage[m] < stage[x] /\ m \in Components /\ Started(m)
  BY <1>9 DEF stageDependencies
<1>11. CASE stage[y] = stage[m]
  <2>1. y \in stageDependencies(x)
    BY <1>7, <1>11 DEF stageDependencies
  <2> QED
    BY <1>6, <1>9, <2>1
<1>12. CASE stage[y] # stage[m]
  <2>1. stage[y] < stage[m]
    BY <1>0, <1>7, <1>10, <1>12
  <2>2. Bad(m)
    BY <1>6, <1>10, <2>1
  <2>3. stage[m] \in T
    BY <1>10, <2>2
  <2>4. stage[x] <= stage[m]
    BY <1>4, <1>5, <2>3
  <2> QED
    BY <1>0, <1>10, <2>4
<1> QED
  BY <1>11, <1>12

-----------------------------------------------------------------------------
(* What a step can do to a unit *)

Fresh == \E g, a, sc : Begins(g, a, sc)

\* The graph stays, and what is done stays done.
Steady ==
  /\ UNCHANGED <<stage, type, cof, gate, action, scoped, snap>>
  /\ \A u \in InRun : state[u] \in Terminal => state'[u] = state[u]

\* Every step but the first is steady.
LEMMA TerminalStays ==
  ASSUME GraphInv, [Next]_vars, ~Fresh
  PROVE  Steady
<1>t. StateOK /\ InRun \subseteq Units
  BY UnitFacts DEF GraphInv
<1>1. ASSUME NEW v \in InRun, NEW s \in UnitStates, Moves(v, s) \/ Decides(v, s) PROVE Steady
  <2>1. /\ UNCHANGED <<stage, type, cof, gate, action, scoped, snap>>
        /\ state' = [state EXCEPT ![v] = s]
        /\ state[v] \in {"pending", "running", "awaiting_approval"}
    BY <1>1 DEF Moves, Decides
  <2>2. ASSUME NEW u \in InRun, state[u] \in Terminal PROVE state'[u] = state[u]
    <3>1. u # v
      BY <2>1, <2>2 DEF Terminal
    <3> QED
      BY <1>t, <2>1, <3>1 DEF StateOK
  <2> QED
    BY <2>1, <2>2 DEF Steady
<1>2. CASE Rests
  BY <1>2 DEF Rests, Steady
<1>3. CASE Settle
  <2>1. UNCHANGED <<stage, type, cof, gate, action, scoped, snap>>
    BY <1>3, SettleIs
  <2>2. ASSUME NEW u \in InRun, state[u] \in Terminal PROVE state'[u] = state[u]
    <3>1. state[u] \notin InFlight
      BY <2>2 DEF Terminal, InFlight
    <3> QED
      BY <1>t, <1>3, <3>1, SettleIs
  <2> QED
    BY <2>1, <2>2 DEF Steady
<1> QED
  BY <1>1, <1>2, <1>3, NextCases DEF Fresh

\* What is said of a unit that is done stays true.
LEMMA SteadyFacts ==
  ASSUME GraphInv, Steady
  PROVE  /\ InRun' = InRun /\ ReadOnly(action)' = ReadOnly(action)
         /\ \A u : DependsOn(u)' = DependsOn(u) /\ (ContOnFail(u)' <=> ContOnFail(u))
         /\ \A u \in InRun : Passes(u) => Passes(u)'
         /\ \A u \in InRun : Hinders(u) => Hinders(u)'
         /\ \A u \in InRun : Stops(u) => Stops(u)'
<1>1. /\ InRun' = InRun
      /\ \A u : DependsOn(u)' = DependsOn(u) /\ (ContOnFail(u)' <=> ContOnFail(u))
  BY GraphFrame DEF Steady
<1>2. ASSUME NEW u \in InRun, Passes(u) PROVE Passes(u)'
  BY <1>1, <1>2 DEF Passes, Steady, Terminal
<1>3. ASSUME NEW u \in InRun, Hinders(u) PROVE Hinders(u)'
  BY <1>1, <1>3 DEF Hinders, Steady, Terminal
<1>4. ASSUME NEW u \in InRun, Stops(u) PROVE Stops(u)'
  BY <1>4 DEF Stops, Steady, Terminal, ReadOnly, remap, HasApply
<1>5. ReadOnly(action)' = ReadOnly(action)
  BY DEF ReadOnly, Steady
<1> QED
  BY <1>1, <1>2, <1>3, <1>4, <1>5

\* A unit leaves its state by a move, a decision on its gate, or the
\* settlement, which closes what is in flight.
LEMMA UnitChanges ==
  ASSUME GraphInv, [Next]_vars, ~Fresh, NEW u \in InRun, state'[u] # state[u]
  PROVE  \/ \E s \in UnitStates : Moves(u, s) /\ state'[u] = s
         \/ \E s \in UnitStates : Decides(u, s) /\ state'[u] = s
         \/ Settle /\ state[u] \in InFlight /\ state'[u] = "skipped"
<1>t. StateOK /\ u \in Units
  BY UnitFacts DEF GraphInv
<1>1. ASSUME NEW v \in InRun, NEW s \in UnitStates, Moves(v, s) \/ Decides(v, s)
      PROVE  u = v /\ state'[u] = s
  <2>1. state' = [state EXCEPT ![v] = s]
    BY <1>1 DEF Moves, Decides
  <2> QED
    BY <1>t, <2>1 DEF StateOK
<1>2. ~Rests
  BY DEF Rests
<1>3. Settle => state[u] \in InFlight /\ state'[u] = "skipped"
  BY <1>t, SettleIs
<1> QED
  BY <1>1, <1>2, <1>3, NextCases DEF Fresh

\* At first nothing has begun.
LEMMA FlowInit == Init => FlowInv
<1> SUFFICES ASSUME Init PROVE FlowInv
  OBVIOUS
<1>1. InRun = {}
  BY DEF Init, InRun
<1> QED
  BY <1>1, GraphInit DEF FlowInv, DepsRespected, ReadOnlyFlows

\* In a fresh run nothing has begun.
LEMMA FlowFresh ==
  ASSUME GraphInv, Fresh
  PROVE  FlowInv'
<1>1. GraphInv' /\ \A u \in InRun' : state'[u] = "pending"
  BY BeginsGraph DEF Fresh
<1> QED
  BY <1>1 DEF FlowInv, DepsRespected, ReadOnlyFlows

\* When schedule() has returned without a failure that stops the run and
\* nothing is parked, every step is done: the earliest one that waits would
\* have been run or skipped.
LEMMA NothingLeft ==
  ASSUME GraphInv, Returned, ~HardFailed, Parked = {}
  PROVE  \A u \in InRun : state[u] \in Terminal
<1> DEFINE Rank(u) == 2 * stage[u[1]] + (IF u = Apply(u[1]) THEN 1 ELSE 0)
           T == {Rank(u) : u \in {v \in InRun : state[v] = "pending"}}
<1>0. \A u \in InRun : stage[u[1]] \in Nat /\ u \in Units /\ state[u] \in UnitStates
  BY UnitFacts
<1>1. \A u \in InRun : state[u] \in Terminal \/ state[u] = "pending"
  <2>1. ASSUME NEW u \in InRun PROVE state[u] # "running" /\ state[u] # "awaiting_approval"
    BY DEF Returned, Parked
  <2> QED
    BY <1>0, <2>1 DEF UnitStates, InFlight
<1> SUFFICES ASSUME NEW u0 \in InRun, state[u0] = "pending" PROVE FALSE
  BY <1>1
<1>2. Rank(u0) \in T
  OBVIOUS
<1>3. T \in SUBSET Nat
  BY <1>0
<1>4. PICK t \in T : \A e \in T : t <= e
  BY <1>2, <1>3, LeastOf
<1>5. PICK u \in InRun : state[u] = "pending" /\ t = Rank(u)
  OBVIOUS
<1>6. ASSUME NEW d \in DependsOn(u) PROVE d \in Units /\ Passes(d)
  <2>1. /\ d \in InRun /\ stage[d[1]] <= stage[u[1]]
        /\ stage[d[1]] = stage[u[1]] => u = Apply(u[1]) /\ d = Own(u[1])
    BY DependsOnEarlier
  <2>2. d # Apply(d[1]) \/ stage[d[1]] < stage[u[1]]
    <3>1. u[1] \in Components /\ Own(u[1])[1] = u[1] /\ Own(u[1]) # Apply(u[1])
      BY UnitFacts, UnitParts
    <3>2. CASE stage[d[1]] = stage[u[1]]
      BY <2>1, <3>1, <3>2
    <3>3. CASE stage[d[1]] # stage[u[1]]
      BY <1>0, <2>1, <3>3
    <3> QED
      BY <3>2, <3>3
  <2>3. Rank(d) < Rank(u)
    <3>1. CASE stage[d[1]] = stage[u[1]]
      BY <1>0, <2>1, <2>2, <3>1
    <3>2. CASE stage[d[1]] < stage[u[1]]
      BY <1>0, <2>1, <3>2
    <3> QED
      BY <1>0, <2>1, <3>1, <3>2
  <2>4. state[d] # "pending"
    <3> SUFFICES ASSUME state[d] = "pending" PROVE FALSE
      OBVIOUS
    <3>1. Rank(d) \in T
      BY <2>1
    <3>2. Rank(u) <= Rank(d)
      BY <1>4, <1>5, <3>1
    <3>3. Rank(u) \in Nat /\ Rank(d) \in Nat
      BY <1>0, <2>1
    <3> HIDE DEF Rank
    <3> QED
      BY <2>3, <3>2, <3>3
  <2>5. d \in Units
    BY <1>0, <2>1
  <2>6. ~Hinders(d)
    <3>1. Blocked(u) <=> \E e \in DependsOn(u) : e \in Units /\ Dag!Blocks(e)
      BY <1>5 DEF Blocked
    <3>2. ~Blocked(u)
      BY DEF Returned
    <3> QED
      BY <2>5, <3>1, <3>2, DagMeans
  <2>7. state[d] \in Terminal
    BY <1>1, <2>1, <2>4
  <2> QED
    BY <2>5, <2>6, <2>7 DEF Hinders, Passes, Terminal
<1>7. Dag!DepsPassed(u)
  BY <1>0, <1>6, DagMeans
<1> QED
  BY <1>5, <1>7 DEF Returned

\* What has begun had its dependencies passed, and a read-only run flows.
LEMMA FlowNext == FlowInv /\ [Next]_vars => FlowInv'
<1> SUFFICES ASSUME FlowInv, [Next]_vars, ~Fresh PROVE FlowInv'
  BY FlowFresh DEF FlowInv
<1>t. GraphInv /\ DepsRespected /\ ReadOnlyFlows
  BY DEF FlowInv
<1>1. GraphInv' /\ Steady
  BY <1>t, GraphNext, TerminalStays
<1>2. DepsRespected'
  <2> SUFFICES ASSUME NEW u \in InRun, state'[u] \notin {"pending", "skipped"}, NEW d \in DependsOn(u)
               PROVE  Passes(d)'
    BY <1>t, <1>1, SteadyFacts DEF DepsRespected
  <2>1. d \in InRun
    BY <1>t, DependsOnIs
  <2>2. Passes(d)
    <3>1. CASE state[u] \notin {"pending", "skipped"}
      BY <1>t, <3>1 DEF DepsRespected
    <3>2. CASE state[u] = "skipped"
      BY <1>1, <3>2 DEF Steady, Terminal
    <3>3. CASE state[u] = "pending"
      <4>1. PICK s \in UnitStates : Moves(u, s) /\ state'[u] = s
        BY <1>t, <3>3, UnitChanges DEF Decides
      <4> QED
        BY <3>3, <4>1 DEF Moves
    <3> QED
      BY <3>1, <3>2, <3>3
  <2> QED
    BY <1>t, <1>1, <2>1, <2>2, SteadyFacts
<1>3. ReadOnlyFlows'
  <2> SUFFICES ASSUME ReadOnly(action), NEW u \in InRun PROVE state'[u] \notin {"awaiting_approval", "skipped"}
    BY <1>t, <1>1, SteadyFacts DEF ReadOnlyFlows
  <2>0. state[u] \notin {"awaiting_approval", "skipped"} /\ DependsOn(u) = {}
    BY <1>t, DependsOnIs DEF ReadOnlyFlows
  <2>1. CASE state'[u] = state[u]
    BY <2>0, <2>1
  <2>2. ASSUME NEW s \in UnitStates, Moves(u, s), state'[u] = s PROVE s \notin {"awaiting_approval", "skipped"}
    BY <2>0, <2>2 DEF Moves, Gated
  <2>3. ASSUME NEW s \in UnitStates, Decides(u, s) PROVE FALSE
    BY <2>0, <2>3 DEF Decides
  <2>4. ASSUME Settle, state[u] \in InFlight PROVE FALSE
    <3>1. Returned /\ Parked = {}
      BY <1>t, <2>4 DEF Settle, ReadOnlyFlows, Parked
    <3>2. state[u] = "pending"
      BY <2>0, <2>4, <3>1 DEF InFlight, Returned
    <3>3. Dag!DepsPassed(u)
      BY <1>t, <2>0, UnitFacts, DagMeans
    <3> QED
      BY <3>1, <3>2, <3>3 DEF Returned
  <2> QED
    BY <1>t, <2>1, <2>2, <2>3, <2>4, UnitChanges
<1> QED
  BY <1>1, <1>2, <1>3 DEF FlowInv

\* Stages run in order: nothing of a stage begins before every component of
\* every earlier stage is through, apply included, although the graph has
\* edges between adjacent stages only (stages.go, runs.go).
THEOREM StagesAreInOrder == Spec => []StagesInOrder
<1>1. ASSUME FlowInv, ~ReadOnly(action), NEW b \in Jobs, NEW c \in Jobs,
             StageOf(b) < StageOf(c), Started(c)
      PROVE  Through(b)
  <2>1. GraphInv /\ DepsRespected
    BY <1>1 DEF FlowInv
  <2>2. StageOf(b) = stage[b]
    BY <2>1, UnitFacts DEF Jobs
  <2>3. StageOf(c) = stage[c]
    BY <2>1, UnitFacts DEF Jobs
  <2> QED
    BY <1>1, <2>1, <2>2, <2>3, StagesFollow
<1>2. FlowInv => StagesInOrder
  BY <1>1 DEF StagesInOrder
<1> QED
  BY <1>2, FlowInit, FlowNext, PTL DEF Spec

-----------------------------------------------------------------------------
(* What a run comes to *)

\* A step is skipped because of a failure that stops the run, at its own or an
\* earlier stage.
SkipsExplained ==
  \A u \in InRun : state[u] = "skipped" =>
    \E v \in InRun : Stops(v) /\ stage[v[1]] <= stage[u[1]]

\* The status of a run that has ended says what its steps did.
SucceededMeans == status = "succeeded" => \A u \in InRun : state[u] = "succeeded"
PartialMeans ==
  status = "partial" =>
    /\ \A u \in InRun : state[u] = "succeeded" \/ (state[u] = "failed" /\ u[1] \in cof /\ ~Stops(u))
    /\ \E u \in InRun : state[u] = "failed"
FailedMeans ==
  status = "failed" => \E u \in InRun : state[u] = "failed" /\ (Stops(u) \/ u[1] \notin cof)

OutcomeInv == FlowInv /\ SkipsExplained /\ SucceededMeans /\ PartialMeans /\ FailedMeans

\* A failure stops the run exactly when its step does not continue on failure,
\* in a run that changes things.
LEMMA StopsIs ==
  ASSUME GraphInv, NEW u \in InRun
  PROVE  Stops(u) <=> state[u] = "failed" /\ ~ReadOnly(action) /\ ~ContOnFail(u)
  BY FailureFlags DEF Stops

\* At first there is nothing to explain.
LEMMA OutcomeInit == Init => OutcomeInv
<1> SUFFICES ASSUME Init PROVE OutcomeInv
  OBVIOUS
<1>1. InRun = {} /\ status = "none"
  BY DEF Init, InRun
<1> QED
  BY <1>1, FlowInit DEF OutcomeInv, SkipsExplained, SucceededMeans, PartialMeans, FailedMeans

\* Nor in a fresh run.
LEMMA OutcomeFresh ==
  ASSUME GraphInv, Fresh
  PROVE  OutcomeInv'
<1>1. \A u \in InRun' : state'[u] = "pending"
  BY BeginsGraph DEF Fresh
<1>2. status' = "running"
  BY DEF Fresh, Begins
<1> QED
  BY <1>1, <1>2, FlowFresh DEF OutcomeInv, SkipsExplained, SucceededMeans, PartialMeans, FailedMeans

\* A step left open when the run settles is explained by the failure that
\* settled it: had that failure come at a later stage, the step's own stage
\* would be through.
LEMMA LeftOpen ==
  ASSUME FlowInv, Settle, NEW u \in InRun, state[u] \in InFlight
  PROVE  \E v \in InRun : Stops(v) /\ stage[v[1]] <= stage[u[1]]
<1>t. GraphInv /\ DepsRespected /\ ReadOnlyFlows
  BY DEF FlowInv
<1>1. Returned /\ (HardFailed \/ Parked = {})
  BY DEF Settle
<1>2. HardFailed
  BY <1>t, <1>1, NothingLeft DEF InFlight, Terminal
<1>3. PICK w \in InRun : state[w] = "failed" /\ ~ContOnFail(w)
  BY <1>2 DEF HardFailed
<1>4. ~ReadOnly(action)
  <2> SUFFICES ASSUME ReadOnly(action) PROVE FALSE
    OBVIOUS
  <2>1. state[u] = "pending"
    BY <1>t, <1>1 DEF ReadOnlyFlows, InFlight, Returned
  <2>2. DependsOn(u) = {} /\ u \in Units
    BY <1>t, DependsOnIs, UnitFacts
  <2>3. Dag!DepsPassed(u)
    BY <2>2, DagMeans
  <2> QED
    BY <1>1, <2>1, <2>3 DEF Returned
<1>5. Stops(w)
  BY <1>t, <1>3, <1>4, StopsIs
<1>6. stage[w[1]] \in Nat /\ stage[u[1]] \in Nat
  BY <1>t, UnitFacts
<1>7. ~(stage[u[1]] < stage[w[1]])
  <2> SUFFICES ASSUME stage[u[1]] < stage[w[1]] PROVE FALSE
    OBVIOUS
  <2>1. Started(w[1])
    BY <1>3 DEF Started
  <2>2. u[1] \in Jobs /\ w[1] \in Jobs
    BY DEF Jobs
  <2>3. Through(u[1])
    BY <1>t, <1>4, <2>1, <2>2, StagesFollow
  <2> QED
    BY <2>3 DEF Through, InFlight
<1> QED
  BY <1>5, <1>6, <1>7

\* Every step keeps the skips explained.
LEMMA SkipsNext ==
  ASSUME FlowInv, SkipsExplained, [Next]_vars, ~Fresh
  PROVE  SkipsExplained'
<1>t. GraphInv
  BY DEF FlowInv
<1>1. Steady
  BY <1>t, TerminalStays
<1> SUFFICES ASSUME NEW u \in InRun, state'[u] = "skipped"
             PROVE  \E v \in InRun : Stops(v) /\ stage[v[1]] <= stage[u[1]]
  <2>1. \A v \in InRun : Stops(v) => Stops(v)'
    BY <1>t, <1>1, SteadyFacts
  <2>2. InRun' = InRun /\ stage' = stage
    BY <1>t, <1>1, SteadyFacts DEF Steady
  <2> QED
    BY <2>1, <2>2 DEF SkipsExplained
<1>2. CASE state[u] = "skipped"
  BY <1>2 DEF SkipsExplained
<1>3. ASSUME NEW s \in UnitStates, Moves(u, s), state'[u] = s
      PROVE  \E v \in InRun : Stops(v) /\ stage[v[1]] <= stage[u[1]]
  <2>1. PICK d \in DependsOn(u) : Hinders(d)
    BY <1>3 DEF Moves
  <2>2. d \in InRun /\ ~ReadOnly(action) /\ stage[d[1]] <= stage[u[1]]
    BY <1>t, DependsOnEarlier
  <2>3. CASE state[d] = "skipped"
    <3>1. PICK v \in InRun : Stops(v) /\ stage[v[1]] <= stage[d[1]]
      BY <2>2, <2>3 DEF SkipsExplained
    <3>2. stage[v[1]] \in Nat /\ stage[d[1]] \in Nat
      BY <1>t, <2>2, UnitFacts
    <3>3. stage[u[1]] \in Nat
      BY <1>t, UnitFacts
    <3> QED
      BY <2>2, <3>1, <3>2, <3>3
  <2>4. CASE state[d] = "failed" /\ ~ContOnFail(d)
    BY <1>t, <2>2, <2>4, StopsIs
  <2> QED
    BY <2>1, <2>3, <2>4 DEF Hinders
<1>4. ASSUME NEW s \in UnitStates, Decides(u, s), state'[u] = s PROVE FALSE
  BY <1>4 DEF Decides
<1>5. CASE Settle /\ state[u] \in InFlight
  BY <1>5, LeftOpen
<1> QED
  BY <1>t, <1>2, <1>3, <1>4, <1>5, UnitChanges

\* What the settlement finds.
LEMMA SettleFinds ==
  ASSUME FlowInv, SkipsExplained, Settle
  PROVE  /\ status' = "succeeded" => ~HardFailed /\ ~SoftFailed
         /\ status' = "partial" => ~HardFailed /\ SoftFailed
         /\ status' = "failed" => HardFailed
         /\ ~HardFailed => \A u \in InRun : state[u] \in {"succeeded", "failed"} /\ state'[u] = state[u]
<1>t. GraphInv
  BY DEF FlowInv
<1>1. status' = Final /\ Returned /\ (HardFailed \/ Parked = {})
  BY DEF Settle
<1>2. ASSUME ~HardFailed, NEW u \in InRun PROVE state[u] \in {"succeeded", "failed"} /\ state'[u] = state[u]
  <2>1. state[u] \in Terminal
    BY <1>t, <1>1, <1>2, NothingLeft
  <2>2. state[u] # "skipped"
    <3> SUFFICES ASSUME state[u] = "skipped" PROVE FALSE
      OBVIOUS
    <3>1. PICK v \in InRun : Stops(v)
      BY DEF SkipsExplained
    <3> QED
      BY <1>t, <1>2, <3>1, StopsIs DEF HardFailed
  <2>3. state[u] \notin InFlight /\ u \in Units
    BY <1>t, <2>1, UnitFacts DEF InFlight, Terminal
  <2>4. state'[u] = state[u]
    BY <1>t, <2>3, SettleIs
  <2> QED
    BY <2>1, <2>2, <2>4 DEF Terminal
<1>3. Final = IF HardFailed THEN "failed" ELSE IF SoftFailed THEN "partial" ELSE "succeeded"
  BY DEF Final
<1> QED
  BY <1>1, <1>2, <1>3

\* A step of a run leaves an ended run alone, or ends it.
LEMMA OutcomeNext == OutcomeInv /\ [Next]_vars => OutcomeInv'
<1> SUFFICES ASSUME OutcomeInv, [Next]_vars, ~Fresh PROVE OutcomeInv'
  BY OutcomeFresh DEF OutcomeInv, FlowInv
<1>t. GraphInv /\ FlowInv /\ SkipsExplained
  BY DEF OutcomeInv, FlowInv
<1>1. FlowInv' /\ SkipsExplained' /\ Steady
  BY <1>t, FlowNext, SkipsNext, TerminalStays
<1>i. InRun' = InRun /\ cof' = cof
  BY <1>t, <1>1, SteadyFacts DEF Steady
<1>2. ASSUME NEW u \in InRun, NEW s \in UnitStates, Moves(u, s) \/ Decides(u, s)
      PROVE  status' \in {"running", "awaiting_approval"}
  BY <1>2 DEF Moves, Decides
<1>3. CASE Rests /\ status' = status
  <2>1. \A u \in InRun : Stops(u)' <=> Stops(u)
    BY <1>3 DEF Rests, Stops, ReadOnly, remap, HasApply
  <2>2. state' = state
    BY <1>3 DEF Rests
  <2> QED
    BY <1>1, <1>i, <1>3, <2>1, <2>2 DEF OutcomeInv, SucceededMeans, PartialMeans, FailedMeans
<1>4. CASE status' \in {"running", "awaiting_approval"}
  BY <1>1, <1>4 DEF OutcomeInv, SucceededMeans, PartialMeans, FailedMeans
<1>5. CASE Settle
  <2>f. /\ status' = "succeeded" => ~HardFailed /\ ~SoftFailed
        /\ status' = "partial" => ~HardFailed /\ SoftFailed
        /\ status' = "failed" => HardFailed
        /\ ~HardFailed => \A u \in InRun : state[u] \in {"succeeded", "failed"} /\ state'[u] = state[u]
    BY <1>t, <1>5, SettleFinds
  <2>s. \A u \in InRun : Stops(u)' <=> state'[u] = "failed" /\ ~ReadOnly(action) /\ ~ContOnFail(u)
    <3>1. ASSUME NEW u \in InRun
          PROVE  Stops(u)' <=> /\ state'[u] = "failed" /\ ~ReadOnly(action)
                               /\ u[1] \notin cof \/ scoped \/ u # remap(u[1], action)
      BY <1>1 DEF Steady, Stops, ReadOnly, remap, HasApply
    <3> QED
      BY <1>t, <3>1, FailureFlags
  <2>1. SucceededMeans'
    <3> SUFFICES ASSUME status' = "succeeded", NEW u \in InRun PROVE state'[u] = "succeeded"
      BY <1>i DEF SucceededMeans
    <3>1. state[u] # "failed"
      BY <2>f DEF HardFailed, SoftFailed
    <3> QED
      BY <2>f, <3>1
  <2>2. PartialMeans'
    <3> SUFFICES ASSUME status' = "partial"
                 PROVE  /\ \A u \in InRun : \/ state'[u] = "succeeded"
                                            \/ state'[u] = "failed" /\ u[1] \in cof /\ ~Stops(u)'
                        /\ \E u \in InRun : state'[u] = "failed"
      BY <1>i DEF PartialMeans
    <3>1. ASSUME NEW u \in InRun, state'[u] # "succeeded"
          PROVE  state'[u] = "failed" /\ u[1] \in cof /\ ~Stops(u)'
      <4>1. state[u] = "failed" /\ state'[u] = "failed"
        BY <2>f, <3>1
      <4>2. ContOnFail(u)
        BY <2>f, <4>1 DEF HardFailed
      <4>3. u[1] \in cof
        BY <1>t, <4>2, FailureFlags
      <4> QED
        BY <2>s, <4>1, <4>2, <4>3
    <3>2. \E u \in InRun : state'[u] = "failed"
      BY <2>f DEF SoftFailed
    <3> QED
      BY <3>1, <3>2
  <2>3. FailedMeans'
    <3> SUFFICES ASSUME status' = "failed"
                 PROVE  \E u \in InRun : state'[u] = "failed" /\ (Stops(u)' \/ u[1] \notin cof)
      BY <1>i DEF FailedMeans
    <3>1. PICK u \in InRun : state[u] = "failed" /\ ~ContOnFail(u)
      BY <2>f DEF HardFailed
    <3>2. state'[u] = "failed"
      BY <1>1, <3>1 DEF Steady, Terminal
    <3>3. ReadOnly(action) => u[1] \notin cof
      BY <1>t, <3>1, FailureFlags
    <3> QED
      BY <2>s, <3>1, <3>2, <3>3
  <2> QED
    BY <1>1, <2>1, <2>2, <2>3 DEF OutcomeInv
<1> QED
  BY <1>t, <1>2, <1>3, <1>4, <1>5, NextCases DEF Fresh, Rests

\* What a run comes to is what its components did: a step is skipped only
\* because of a failure that stops the run, at the same stage or an earlier
\* one, and succeeded, partial and failed mean what they say (worker.go: the
\* run's final status; recovery.go: SettleStuckComponentRuns).
THEOREM OutcomeIsExplained == Spec => []OutcomeExplained
<1>1. ASSUME OutcomeInv PROVE OutcomeExplained
  <2>1. ASSUME NEW u \in InRun, state[u] = "skipped"
        PROVE  \E v \in InRun : Stops(v) /\ StageOf(v[1]) <= StageOf(u[1])
    <3>1. PICK v \in InRun : Stops(v) /\ stage[v[1]] <= stage[u[1]]
      BY <1>1, <2>1 DEF OutcomeInv, SkipsExplained
    <3>2. StageOf(v[1]) = stage[v[1]] /\ StageOf(u[1]) = stage[u[1]]
      BY <1>1, UnitFacts DEF OutcomeInv, FlowInv
    <3> QED
      BY <3>1, <3>2
  <2> QED
    BY <1>1, <2>1 DEF OutcomeInv, OutcomeExplained, SucceededMeans, PartialMeans, FailedMeans
<1> QED
  BY <1>1, OutcomeInit, OutcomeNext, PTL DEF Spec

-----------------------------------------------------------------------------
(* The board *)

\* Until the run ends, what is skipped has a dependency that hinders it.
SkippedBecause ==
  status \notin {"failed", "partial"} =>
    \A u \in InRun : state[u] = "skipped" => \E d \in DependsOn(u) : Hinders(d)

\* A unit is done, or its stage has failed.
Accounted(b) ==
  \/ state[b] \in Terminal
  \/ \E w \in InRun : stage[w[1]] = stage[b[1]] /\ state[w] = "failed"

\* When something of a stage is skipped, the earlier stages are accounted for.
EarlierAccounted ==
  \A u, b \in InRun : state[u] = "skipped" /\ stage[b[1]] < stage[u[1]] => Accounted(b)

BoardInv == FlowInv /\ SkippedBecause /\ EarlierAccounted

\* What combineStatus makes of a set of statuses.
LEMMA CombinedStatus ==
  ASSUME NEW S \in SUBSET UnitStates
  PROVE  /\ combineStatus(S) \in UnitStates
         /\ "failed" \in S => combineStatus(S) = "failed"
         /\ S = {"pending"} => combineStatus(S) = "pending"
         /\ S \subseteq Terminal => combineStatus(S) \in Terminal
         /\ combineStatus(S) = "succeeded" => S \subseteq {"succeeded"}
<1>1. combineStatus(S) \in UnitStates
  BY DEF combineStatus, UnitStates, InFlight, Terminal
<1>2. "failed" \in S => combineStatus(S) = "failed"
  BY DEF combineStatus
<1>3. S = {"pending"} => combineStatus(S) = "pending"
  BY DEF combineStatus
<1>4. S \subseteq Terminal => combineStatus(S) \in Terminal
  BY DEF combineStatus, Terminal
<1>5. combineStatus(S) = "succeeded" => S \subseteq {"succeeded"}
  BY DEF combineStatus, UnitStates, InFlight, Terminal
<1> QED
  BY <1>1, <1>2, <1>3, <1>4, <1>5

\* A waiting unit with a dependency that hinders it is one sweep() skips.
LEMMA BlockedBy ==
  ASSUME GraphInv, NEW v \in InRun, state[v] = "pending", NEW d \in DependsOn(v), Hinders(d)
  PROVE  Blocked(v)
<1>1. d \in InRun
  BY DependsOnIs
<1>2. d \in Units
  BY <1>1, UnitFacts
<1> QED
  BY <1>2, DagMeans DEF Blocked

\* What hinders cannot have passed, and what waits for it has not begun.
LEMMA HinderedWaits ==
  ASSUME FlowInv, NEW v \in InRun, NEW d \in DependsOn(v), Hinders(d)
  PROVE  state[v] \in {"pending", "skipped"}
  BY DEF FlowInv, DepsRespected, Hinders, Passes

\* When a unit is skipped every earlier stage is accounted for: either the
\* dependency that hinders it accounts for them, or sweep() would have come to
\* one of their units first.
LEMMA SkipInOrder ==
  ASSUME BoardInv, NEW u \in InRun, Moves(u, "skipped"),
         NEW b \in InRun, stage[b[1]] < stage[u[1]]
  PROVE  Accounted(b)
<1>t. FlowInv /\ GraphInv /\ DepsRespected /\ WorkflowOK
  BY DEF BoardInv, FlowInv, GraphInv
<1>s. \A v \in InRun : v[1] \in Components /\ stage[v[1]] \in Nat /\ snap[v].stage = stage[v[1]]
  BY <1>t, UnitFacts
<1>n. \A x \in Components : stage[x] \in Nat
  BY <1>t, GraphAssumption DEF WorkflowOK
<1>1. /\ status = "running" /\ \E d \in DependsOn(u) : Hinders(d)
      /\ \A v \in InRun : Blocked(v) => ~sweepsFirst(v, u)
  BY DEF Moves
<1>2. \A v \in InRun : Blocked(v) => ~(stage[v[1]] < stage[u[1]])
  BY <1>1, <1>s DEF sweepsFirst
<1>3. PICK d \in DependsOn(u) : Hinders(d)
  BY <1>1
<1>4. /\ d \in InRun /\ ~ReadOnly(action) /\ stage[d[1]] <= stage[u[1]]
      /\ stage[d[1]] = stage[u[1]] => u = Apply(u[1]) /\ d = Own(u[1])
  BY <1>t, DependsOnEarlier
<1>5. CASE stage[b[1]] < stage[d[1]]
  <2>1. CASE state[d] = "skipped"
    BY <1>4, <1>5, <2>1 DEF BoardInv, EarlierAccounted
  <2>2. CASE state[d] = "failed"
    <3>1. Started(d[1]) /\ b[1] \in Jobs /\ d[1] \in Jobs
      BY <1>4, <2>2 DEF Started, Jobs
    <3>2. Through(b[1])
      BY <1>t, <1>4, <1>5, <3>1, StagesFollow
    <3> QED
      BY <3>2 DEF Through, Accounted, Terminal
  <2> QED
    BY <1>3, <2>1, <2>2 DEF Hinders
<1>6. CASE ~(stage[b[1]] < stage[d[1]])
  <2>0. stage[d[1]] # stage[u[1]] /\ stage[d[1]] <= stage[b[1]]
    BY <1>s, <1>4, <1>6
  <2>1. u # Apply(u[1])
    <3> SUFFICES ASSUME u = Apply(u[1]) PROVE FALSE
      OBVIOUS
    <3>1. d = Own(u[1])
      BY <1>t, <1>4, DependsOnIs
    <3>2. d[1] = u[1]
      BY <1>s, <3>1, UnitParts
    <3> QED
      BY <2>0, <3>2
  <2>2. ~scoped
    BY <1>t, <1>4, <2>1, DependsOnIs
  <2>3. PICK m \in stageDependencies(u[1]) : d = remap(m, action)
    BY <1>t, <1>4, <2>1, <2>2, DependsOnIs
  <2>4. /\ m \in Components /\ d[1] = m /\ Own(m)[1] = m
        /\ d = Own(m) \/ d = Apply(m)
        /\ Own(m) # Apply(m)
    BY <2>3, UnitParts DEF remap, stageDependencies
  <2>5. stage[b[1]] = stage[m]
    <3>1. ~(stage[m] < stage[b[1]])
      BY <1>s, <2>3 DEF stageDependencies
    <3> QED
      BY <1>s, <1>n, <2>0, <2>4, <3>1
  <2>6. stageDependencies(b[1]) = stageDependencies(m)
    BY <2>5 DEF stageDependencies
  <2> SUFFICES ASSUME ~Accounted(b) PROVE FALSE
    OBVIOUS
  <2>7. \A w \in InRun : stage[w[1]] = stage[m] => state[w] # "failed"
    BY <2>5 DEF Accounted
  <2>8. state[d] = "skipped"
    BY <1>3, <1>4, <2>4, <2>7 DEF Hinders
  <2>9. Own(m) \in InRun /\ state[Own(m)] = "skipped"
    <3>1. Own(m) \in InRun
      BY <1>t, <1>4, <2>4, UnitFacts
    <3>2. CASE d = Apply(m)
      <4>1. DependsOn(d) = {Own(m)}
        BY <1>t, <1>4, <2>4, <3>2, DependsOnIs
      <4>2. Hinders(Own(m))
        BY <1>1, <1>4, <2>8, <4>1 DEF BoardInv, SkippedBecause
      <4> QED
        BY <2>4, <2>7, <3>1, <4>2 DEF Hinders
    <3> QED
      BY <2>4, <2>8, <3>1, <3>2
  <2>10. PICK e \in DependsOn(Own(m)) : Hinders(e)
    BY <1>1, <2>9 DEF BoardInv, SkippedBecause
  <2>11. DependsOn(Own(m)) = {remap(x, action) : x \in stageDependencies(m)}
    BY <1>t, <1>4, <2>2, <2>4, <2>9, DependsOnIs
  <2> DEFINE o == Own(b[1])
  <2>12. /\ o \in InRun /\ o # Apply(b[1]) /\ o[1] = b[1]
         /\ b = o \/ b = Apply(b[1])
    BY <1>t, <1>s, UnitFacts, UnitParts
  <2>13. DependsOn(o) = DependsOn(Own(m))
    BY <1>t, <1>4, <2>2, <2>6, <2>11, <2>12, DependsOnIs
  <2>14. state[o] = "skipped"
    <3>1. e \in DependsOn(o)
      BY <2>13
    <3>2. state[o] \in {"pending", "skipped"}
      BY <1>t, <2>10, <2>12, <3>1, HinderedWaits
    <3>3. state[o] # "pending"
      BY <1>t, <1>2, <2>10, <2>12, <3>1, BlockedBy
    <3> QED
      BY <3>2, <3>3
  <2>15. b = Apply(b[1])
    BY <2>12, <2>14 DEF Accounted, Terminal
  <2>16. DependsOn(b) = {o} /\ Hinders(o)
    BY <1>t, <1>4, <2>14, <2>15, DependsOnIs DEF Hinders
  <2>17. state[b] \in {"pending", "skipped"}
    BY <1>t, <2>16, HinderedWaits
  <2>18. state[b] # "pending"
    BY <1>t, <1>2, <2>16, BlockedBy
  <2> QED
    BY <2>17, <2>18 DEF Accounted, Terminal
<1> QED
  BY <1>5, <1>6

\* At first the board is empty.
LEMMA BoardInit == Init => BoardInv
<1> SUFFICES ASSUME Init PROVE BoardInv
  OBVIOUS
<1>1. InRun = {}
  BY DEF Init, InRun
<1> QED
  BY <1>1, FlowInit DEF BoardInv, SkippedBecause, EarlierAccounted

\* Every step keeps the board explained.
LEMMA BoardNext == BoardInv /\ [Next]_vars => BoardInv'
<1>0. ASSUME BoardInv, Fresh PROVE BoardInv'
  <2>1. \A u \in InRun' : state'[u] = "pending"
    BY <1>0, BeginsGraph DEF Fresh, BoardInv, FlowInv
  <2> QED
    BY <1>0, <2>1, FlowFresh DEF BoardInv, FlowInv, SkippedBecause, EarlierAccounted
<1> SUFFICES ASSUME BoardInv, [Next]_vars, ~Fresh PROVE BoardInv'
  BY <1>0
<1>t. FlowInv /\ GraphInv
  BY DEF BoardInv, FlowInv
<1>1. FlowInv' /\ Steady
  BY <1>t, FlowNext, TerminalStays
<1>i. InRun' = InRun /\ stage' = stage /\ \A u : DependsOn(u)' = DependsOn(u)
  BY <1>t, <1>1, SteadyFacts DEF Steady
<1>h. \A u \in InRun : Hinders(u) => Hinders(u)'
  BY <1>t, <1>1, SteadyFacts
<1>a. ASSUME NEW b \in InRun, Accounted(b) PROVE Accounted(b)'
  <2>1. CASE state[b] \in Terminal
    BY <1>1, <2>1 DEF Accounted, Steady
  <2>2. ASSUME NEW w \in InRun, stage[w[1]] = stage[b[1]], state[w] = "failed" PROVE Accounted(b)'
    BY <1>1, <1>i, <2>2 DEF Accounted, Steady, Terminal
  <2> QED
    BY <1>a, <2>1, <2>2 DEF Accounted
<1>c. ASSUME Settle, NEW u \in InRun, state[u] \in InFlight, state'[u] = "skipped"
      PROVE  status' \in {"failed", "partial"}
  <2>1. u \in Units /\ state[u] # "skipped"
    BY <1>t, <1>c, UnitFacts DEF InFlight
  <2> QED
    BY <1>t, <1>c, <2>1, SettleIs
<1>2. SkippedBecause'
  <2> SUFFICES ASSUME status' \notin {"failed", "partial"}, NEW u \in InRun, state'[u] = "skipped"
               PROVE  \E d \in DependsOn(u) : Hinders(d)
    <3>1. \A v \in InRun : DependsOn(v) \subseteq InRun
      BY <1>t, DependsOnIs
    <3> QED
      BY <1>i, <1>h, <3>1 DEF SkippedBecause
  <2>1. CASE state[u] = "skipped"
    <3>1. status \notin {"failed", "partial"}
      <4>1. ASSUME NEW v \in InRun, NEW s \in UnitStates, Moves(v, s) \/ Decides(v, s)
            PROVE  status \notin {"failed", "partial"}
        BY <4>1 DEF Moves, Decides
      <4>2. Rests => status \notin {"failed", "partial"}
        BY DEF Rests
      <4>3. Settle => status \notin {"failed", "partial"}
        BY <1>t, SettleIs
      <4> QED
        BY <1>t, <4>1, <4>2, <4>3, NextCases DEF Fresh
    <3> QED
      BY <2>1, <3>1 DEF BoardInv, SkippedBecause
  <2>2. ASSUME NEW s \in UnitStates, Moves(u, s), state'[u] = s PROVE \E d \in DependsOn(u) : Hinders(d)
    BY <2>2 DEF Moves
  <2>3. ASSUME NEW s \in UnitStates, Decides(u, s), state'[u] = s PROVE FALSE
    BY <2>3 DEF Decides
  <2>4. ASSUME Settle, state[u] \in InFlight PROVE FALSE
    BY <1>c, <2>4
  <2> QED
    BY <1>t, <2>1, <2>2, <2>3, <2>4, UnitChanges
<1>3. EarlierAccounted'
  <2> SUFFICES ASSUME NEW u \in InRun, NEW b \in InRun, state'[u] = "skipped", stage[b[1]] < stage[u[1]]
               PROVE  Accounted(b)'
    BY <1>i DEF EarlierAccounted
  <2>1. CASE state[u] = "skipped"
    BY <1>a, <2>1 DEF BoardInv, EarlierAccounted
  <2>2. ASSUME NEW s \in UnitStates, Moves(u, s), state'[u] = s PROVE Accounted(b)'
    <3>1. Accounted(b)
      BY <2>2, SkipInOrder
    <3> QED
      BY <1>a, <3>1
  <2>3. ASSUME NEW s \in UnitStates, Decides(u, s), state'[u] = s PROVE FALSE
    BY <2>3 DEF Decides
  <2>4. CASE Settle /\ state[u] \in InFlight
    <3>1. status' \in {"failed", "partial"}
      BY <1>c, <2>4
    <3>2. b \in Units /\ state[b] \in InFlight \cup Terminal
      BY <1>t, UnitFacts DEF UnitStates
    <3>3. state'[b] = IF state[b] \in InFlight THEN "skipped" ELSE state[b]
      BY <1>t, <2>4, <3>1, <3>2, SettleIs
    <3> QED
      BY <3>2, <3>3 DEF Accounted, Terminal
  <2> QED
    BY <1>t, <2>1, <2>2, <2>3, <2>4, UnitChanges
<1> QED
  BY <1>1, <1>2, <1>3 DEF BoardInv

\* What the board shows comes from the statuses of units.
LEMMA BoardStatuses ==
  ASSUME GraphInv
  PROVE  /\ \A c : {state[u] : u \in {v \in InRun : v[1] = c}} \in SUBSET UnitStates
         /\ \A s : {ComponentStatus(c) : c \in {d \in Jobs : StageOf(d) = s}} \in SUBSET UnitStates
         /\ \A u \in InRun : u[1] \in Jobs /\ StageOf(u[1]) = stage[u[1]]
<1>1. ASSUME NEW c PROVE {state[u] : u \in {v \in InRun : v[1] = c}} \in SUBSET UnitStates
  BY UnitFacts
<1>2. \A c : ComponentStatus(c) \in UnitStates
  BY <1>1, CombinedStatus DEF ComponentStatus
<1>3. \A u \in InRun : u[1] \in Jobs /\ StageOf(u[1]) = stage[u[1]]
  BY UnitFacts DEF Jobs
<1> QED
  BY <1>1, <1>2, <1>3

\* A stage shown succeeded has succeeded.
LEMMA SucceededShown ==
  ASSUME GraphInv, NEW c \in Jobs, StageStatus(StageOf(c)) = "succeeded",
         NEW u \in InRun, u[1] = c
  PROVE  state[u] = "succeeded"
<1> DEFINE S == {ComponentStatus(d) : d \in {e \in Jobs : StageOf(e) = StageOf(c)}}
           R == {state[v] : v \in {w \in InRun : w[1] = c}}
<1>1. S \in SUBSET UnitStates /\ R \in SUBSET UnitStates
  BY BoardStatuses
<1>2. combineStatus(S) = "succeeded" /\ combineStatus(R) = ComponentStatus(c)
  BY DEF StageStatus, ComponentStatus
<1>3. ComponentStatus(c) \in S /\ state[u] \in R
  OBVIOUS
<1> HIDE DEF S, R
<1>4. S \subseteq {"succeeded"}
  BY <1>1, <1>2, CombinedStatus
<1>5. R \subseteq {"succeeded"}
  BY <1>1, <1>2, <1>3, <1>4, CombinedStatus
<1> QED
  BY <1>3, <1>5

\* A stage with nothing but waiting units is shown pending.
LEMMA PendingShown ==
  ASSUME GraphInv, NEW c \in Jobs,
         \A u \in InRun : StageOf(u[1]) = StageOf(c) => state[u] = "pending"
  PROVE  StageStatus(StageOf(c)) = "pending"
<1> DEFINE S == {ComponentStatus(d) : d \in {e \in Jobs : StageOf(e) = StageOf(c)}}
<1>1. ASSUME NEW d \in Jobs, StageOf(d) = StageOf(c) PROVE ComponentStatus(d) = "pending"
  <2> DEFINE R == {state[v] : v \in {w \in InRun : w[1] = d}}
  <2>1. R = {"pending"}
    <3>1. PICK v \in InRun : v[1] = d
      BY DEF Jobs
    <3>2. state[v] \in R
      BY <3>1
    <3>3. R \subseteq {"pending"}
      BY <1>1
    <3> QED
      BY <3>2, <3>3
  <2>2. R \in SUBSET UnitStates
    BY BoardStatuses
  <2>3. ComponentStatus(d) = combineStatus(R)
    BY DEF ComponentStatus
  <2> HIDE DEF R
  <2> QED
    BY <2>1, <2>2, <2>3, CombinedStatus
<1>2. S = {"pending"}
  BY <1>1
<1>3. S \in SUBSET UnitStates
  BY BoardStatuses
<1>4. StageStatus(StageOf(c)) = combineStatus(S)
  BY DEF StageStatus
<1> HIDE DEF S
<1> QED
  BY <1>2, <1>3, <1>4, CombinedStatus

\* A stage with a failed unit is shown failed.
LEMMA FailedShown ==
  ASSUME GraphInv, NEW w \in InRun, state[w] = "failed"
  PROVE  StageStatus(StageOf(w[1])) = "failed"
<1> DEFINE R == {state[v] : v \in {x \in InRun : x[1] = w[1]}}
           S == {ComponentStatus(d) : d \in {e \in Jobs : StageOf(e) = StageOf(w[1])}}
<1>1. R \in SUBSET UnitStates /\ S \in SUBSET UnitStates /\ w[1] \in Jobs
  BY BoardStatuses
<1>2. "failed" \in R
  OBVIOUS
<1>3. ComponentStatus(w[1]) = combineStatus(R) /\ StageStatus(StageOf(w[1])) = combineStatus(S)
  BY DEF ComponentStatus, StageStatus
<1>4. ComponentStatus(w[1]) \in S
  BY <1>1
<1> HIDE DEF R, S
<1>5. ComponentStatus(w[1]) = "failed"
  BY <1>1, <1>2, <1>3, CombinedStatus
<1> QED
  BY <1>1, <1>3, <1>4, <1>5, CombinedStatus

\* A stage whose units are done is shown done.
LEMMA DoneShown ==
  ASSUME GraphInv, NEW b \in Jobs,
         \A u \in InRun : StageOf(u[1]) = StageOf(b) => state[u] \in Terminal
  PROVE  StageStatus(StageOf(b)) \in Terminal
<1> DEFINE S == {ComponentStatus(d) : d \in {e \in Jobs : StageOf(e) = StageOf(b)}}
<1>1. ASSUME NEW d \in Jobs, StageOf(d) = StageOf(b) PROVE ComponentStatus(d) \in Terminal
  <2> DEFINE R == {state[v] : v \in {w \in InRun : w[1] = d}}
  <2>1. R \subseteq Terminal
    BY <1>1
  <2>2. R \in SUBSET UnitStates
    BY BoardStatuses
  <2>3. ComponentStatus(d) = combineStatus(R)
    BY DEF ComponentStatus
  <2> HIDE DEF R
  <2> QED
    BY <2>1, <2>2, <2>3, CombinedStatus
<1>2. S \subseteq Terminal
  BY <1>1
<1>3. S \in SUBSET UnitStates
  BY BoardStatuses
<1>4. StageStatus(StageOf(b)) = combineStatus(S)
  BY DEF StageStatus
<1> HIDE DEF S
<1> QED
  BY <1>2, <1>3, <1>4, CombinedStatus

\* The board tells the truth: a stage is shown succeeded only when every step
\* of its components succeeded, and it is not shown at work, or done, while an
\* earlier one is pending, at work or parked (runstages.go: RunStages,
\* combineStatus).  The order in which sweep() skips is what the second half
\* rests on.
THEOREM BoardIsTruthful == Spec => []BoardTellsTheTruth
<1>1. ASSUME BoardInv, ~ReadOnly(action), NEW b \in Jobs, NEW c \in Jobs,
             StageOf(b) < StageOf(c), StageStatus(StageOf(c)) # "pending"
      PROVE  StageStatus(StageOf(b)) \in Terminal
  <2>t. GraphInv /\ DepsRespected
    BY <1>1 DEF BoardInv, FlowInv
  <2>s. \A v \in InRun : v[1] \in Jobs /\ StageOf(v[1]) = stage[v[1]]
    BY <2>t, BoardStatuses
  <2>1. PICK u \in InRun : StageOf(u[1]) = StageOf(c) /\ state[u] # "pending"
    BY <1>1, <2>t, PendingShown
  <2>2. ASSUME NEW v \in InRun, StageOf(v[1]) = StageOf(b) PROVE Accounted(v)
    <3>1. stage[v[1]] < stage[u[1]]
      BY <1>1, <2>s, <2>1, <2>2
    <3>2. CASE state[u] = "skipped"
      BY <1>1, <3>1, <3>2 DEF BoardInv, EarlierAccounted
    <3>3. CASE state[u] # "skipped"
      <4>1. Started(u[1])
        BY <2>1, <3>3 DEF Started
      <4>2. Through(v[1])
        BY <1>1, <2>t, <2>s, <3>1, <4>1, StagesFollow
      <4> QED
        BY <4>2 DEF Through, Accounted, Terminal
    <3> QED
      BY <3>2, <3>3
  <2>3. CASE \E w \in InRun : StageOf(w[1]) = StageOf(b) /\ state[w] = "failed"
    <3>1. StageStatus(StageOf(b)) = "failed"
      BY <2>t, <2>3, FailedShown
    <3> QED
      BY <3>1 DEF Terminal
  <2>4. CASE ~ \E w \in InRun : StageOf(w[1]) = StageOf(b) /\ state[w] = "failed"
    <3>1. ASSUME NEW v \in InRun, StageOf(v[1]) = StageOf(b) PROVE state[v] \in Terminal
      BY <2>s, <2>2, <2>4, <3>1 DEF Accounted
    <3> QED
      BY <2>t, <3>1, DoneShown
  <2> QED
    BY <2>3, <2>4
<1>2. ASSUME BoardInv PROVE BoardTellsTheTruth
  BY <1>1, <1>2, SucceededShown DEF BoardTellsTheTruth, Terminal, BoardInv, FlowInv
<1> QED
  BY <1>2, BoardInit, BoardNext, PTL DEF Spec

-----------------------------------------------------------------------------
(* Stages that are derived from the dependencies *)

\* The distinct stages of the run before a stage, and how many there are.
StagesBefore(s) == {t \in 1 .. Stages : t < s /\ \E x \in Jobs : stage[x] = t}
Rank == [c \in Jobs |-> Cardinality(StagesBefore(stage[c]))]

\* There are finitely many of them.
LEMMA StagesBeforeFinite ==
  ASSUME NEW s
  PROVE  IsFiniteSet(StagesBefore(s)) /\ Cardinality(StagesBefore(s)) \in Nat
<1>1. Stages \in Nat
  BY GraphAssumption
<1>2. StagesBefore(s) \in SUBSET Nat /\ \A t \in StagesBefore(s) : t <= Stages
  BY <1>1 DEF StagesBefore
<1> QED
  BY <1>1, <1>2, FS_BoundedSetOfNaturals, FS_CardinalityType

\* Counting earlier stages orders components as their stages do.
LEMMA RankOrders ==
  ASSUME GraphInv, NEW b \in Jobs, NEW c \in Jobs
  PROVE  /\ Rank[c] \in Nat
         /\ Rank[b] <= Rank[c] <=> stage[b] <= stage[c]
<1>1. \A s : IsFiniteSet(StagesBefore(s)) /\ Cardinality(StagesBefore(s)) \in Nat
  BY StagesBeforeFinite
<1>2. \A x \in Jobs : stage[x] \in 1 .. Stages /\ stage[x] \in Nat
  BY UnitFacts, GraphAssumption DEF Jobs, GraphInv, WorkflowOK
<1>3. ASSUME NEW x \in Jobs, NEW y \in Jobs, stage[x] <= stage[y]
      PROVE  Rank[x] <= Rank[y]
  <2>1. StagesBefore(stage[x]) \in SUBSET StagesBefore(stage[y])
    BY <1>2, <1>3, GraphAssumption DEF StagesBefore
  <2> QED
    BY <1>1, <1>2, <2>1, FS_Subset DEF Rank
<1>4. ASSUME NEW x \in Jobs, NEW y \in Jobs, stage[x] < stage[y]
      PROVE  Rank[x] < Rank[y]
  <2>1. StagesBefore(stage[x]) \in SUBSET StagesBefore(stage[y])
    BY <1>2, <1>4, GraphAssumption DEF StagesBefore
  <2>2. stage[x] \in StagesBefore(stage[y]) /\ stage[x] \notin StagesBefore(stage[x])
    BY <1>2, <1>4 DEF StagesBefore
  <2>3. Cardinality(StagesBefore(stage[x])) # Cardinality(StagesBefore(stage[y]))
    BY <1>1, <1>2, <2>1, <2>2, FS_Subset
  <2>4. Rank[x] <= Rank[y]
    BY <1>2, <1>3, <1>4
  <2> QED
    BY <1>1, <1>2, <2>3, <2>4 DEF Rank
<1> QED
  BY <1>1, <1>2, <1>3, <1>4 DEF Rank

\* The edges of the board: a component's are those of the nearest earlier stage.
LEMMA JobDepsAre ==
  ASSUME GraphInv, action # "drift", NEW c \in Jobs
  PROVE  JobDeps(c) =
           {b \in Jobs : /\ stage[b] < stage[c]
                         /\ \A m \in Jobs : ~(stage[b] < stage[m] /\ stage[m] < stage[c])}
<1>1. UnitsOK(snap, action, scoped) /\ EdgesOK(snap, action, scoped) /\ WorkflowOK /\ StateOK
  BY DEF GraphInv, GraphOK
<1>2. Jobs \subseteq Components /\ \A x \in Jobs : Own(x) \in InRun /\ stage[x] \in Nat
  BY UnitFacts DEF Jobs
<1>3. ASSUME NEW u \in InRun, u = Apply(u[1]), NEW v \in snap[u].dependsOn
      PROVE  v[1] = u[1]
  <2>1. v = Own(u[1]) /\ u[1] \in Components
    BY <1>1, <1>3, UnitFacts DEF EdgesOK, InRun
  <2> QED
    BY <2>1, UnitParts
<1>4. CASE scoped
  <2>1. \A x \in Jobs : x = c
    BY <1>1, <1>4 DEF UnitsOK, InRun, Jobs
  <2>2. JobDeps(c) = {}
    BY <2>1 DEF JobDeps
  <2> QED
    BY <1>2, <2>1, <2>2
<1>5. CASE ~scoped
  <2>1. action # "none" /\ action # "state_op"
    BY <1>1, <1>2, <1>5 DEF StateOK, UnitsOK
  <2>2. \A x \in Components : Own(x) \in InRun
    BY <1>1, <1>5, <2>1 DEF UnitsOK, InRun
  <2>3. Jobs = Components
    BY <1>2, <2>2, UnitParts DEF Jobs
  <2>4. \A x \in Components : remap(x, action) \in InRun /\ remap(x, action)[1] = x
    <3> TAKE x \in Components
    <3>1. Own(x)[1] = x /\ Apply(x)[1] = x
      BY UnitParts
    <3> QED
      BY <2>1, <2>2, <3>1, UnitFacts DEF remap
  <2>5. c \in Components /\ Own(c) # Apply(c) /\ Own(c)[1] = c /\ Own(c) \in InRun
    BY <1>2, UnitParts
  <2>6. snap[Own(c)].dependsOn = {remap(d, action) : d \in stageDependencies(c)}
    BY <1>1, <1>5, <2>5 DEF EdgesOK, InRun
  <2>7. stageDependencies(c) \subseteq Components /\ c \notin stageDependencies(c)
    BY <1>2, <2>5 DEF stageDependencies
  <2>8. ASSUME NEW d \in stageDependencies(c) PROVE d \in JobDeps(c)
    BY <2>3, <2>4, <2>5, <2>6, <2>7 DEF JobDeps
  <2>9. ASSUME NEW d \in JobDeps(c) PROVE d \in stageDependencies(c)
    <3>1. PICK u \in InRun, v \in InRun : u[1] = c /\ v[1] = d /\ v \in snap[u].dependsOn
      BY DEF JobDeps
    <3>2. d # c
      BY DEF JobDeps
    <3>3. u = Own(c)
      BY <1>3, <3>1, <3>2, UnitFacts
    <3>4. PICK e \in stageDependencies(c) : v = remap(e, action)
      BY <2>6, <3>1, <3>3
    <3> QED
      BY <2>4, <2>7, <3>1, <3>4
  <2>10. JobDeps(c) = stageDependencies(c)
    BY <2>7, <2>8, <2>9 DEF JobDeps
  <2> QED
    BY <2>3, <2>10 DEF stageDependencies
<1> QED
  BY <1>4, <1>5

\* One step of the longest-path computation.
Deeper(f) ==
  [c \in Jobs |-> IF JobDeps(c) = {} THEN 0 ELSE 1 + Max({f[d] : d \in JobDeps(c)})]

\* The greatest element of a set with one element.
LEMMA MaxOfOne ==
  ASSUME NEW n \in Nat
  PROVE  Max({n}) = n
  BY DEF Max

\* The step takes the ranks to themselves, and does so at a component as soon
\* as its dependencies have their ranks.
LEMMA RankStep ==
  ASSUME GraphInv, action # "drift", NEW f, NEW c \in Jobs,
         \A d \in JobDeps(c) : f[d] = Rank[d]
  PROVE  Deeper(f)[c] = Rank[c]
<1> DEFINE s == stage[c]
<1>1. \A x \in Jobs : stage[x] \in 1 .. Stages /\ stage[x] \in Nat
  BY UnitFacts, GraphAssumption DEF Jobs, GraphInv, WorkflowOK
<1>2. \A x \in Jobs : Rank[x] \in Nat
  BY RankOrders
<1>3. JobDeps(c) =
           {b \in Jobs : /\ stage[b] < stage[c]
                         /\ \A m \in Jobs : ~(stage[b] < stage[m] /\ stage[m] < stage[c])}
  BY JobDepsAre
<1>4. CASE JobDeps(c) = {}
  <2>1. ASSUME NEW b \in Jobs, stage[b] < stage[c] PROVE FALSE
    <3> DEFINE T == {Stages - stage[x] : x \in {y \in Jobs : stage[y] < stage[c]}}
    <3>0. Stages \in Nat
      BY GraphAssumption
    <3>1. T \in SUBSET Nat /\ Stages - stage[b] \in T
      BY <1>1, <2>1, <3>0
    <3>2. PICK t \in T : \A e \in T : t <= e
      BY <3>1, LeastOf
    <3>3. PICK m \in Jobs : stage[m] < stage[c] /\ t = Stages - stage[m]
      OBVIOUS
    <3>4. ASSUME NEW x \in Jobs, stage[x] < stage[c] PROVE ~(stage[m] < stage[x])
      <4>1. Stages - stage[x] \in T
        BY <3>4
      <4>2. Stages - stage[m] <= Stages - stage[x]
        BY <3>2, <3>3, <4>1
      <4> QED
        BY <1>1, <3>0, <4>2
    <3> QED
      BY <1>3, <1>4, <3>3, <3>4
  <2>2. StagesBefore(s) = {}
    BY <1>1, <2>1 DEF StagesBefore
  <2> QED
    BY <1>4, <2>2, FS_EmptySet DEF Rank, Deeper
<1>5. CASE JobDeps(c) # {}
  <2>1. PICK d \in JobDeps(c) : TRUE
    BY <1>5
  <2>2. d \in Jobs /\ stage[d] < stage[c]
    BY <1>3
  <2>3. ASSUME NEW e \in JobDeps(c) PROVE stage[e] = stage[d]
    BY <1>1, <1>3, <2>2
  <2>4. {f[e] : e \in JobDeps(c)} = {Rank[d]}
    BY <1>3, <2>1, <2>3 DEF Rank
  <2>5. Deeper(f)[c] = 1 + Rank[d]
    BY <1>2, <1>5, <2>2, <2>4, MaxOfOne DEF Deeper
  <2>6. StagesBefore(stage[c]) = StagesBefore(stage[d]) \cup {stage[d]}
    BY <1>1, <1>3, <2>2, GraphAssumption DEF StagesBefore
  <2>7. stage[d] \notin StagesBefore(stage[d])
    BY <1>1, <2>2 DEF StagesBefore
  <2>8. IsFiniteSet(StagesBefore(stage[d]))
    BY StagesBeforeFinite
  <2>9. Cardinality(StagesBefore(stage[c])) = Cardinality(StagesBefore(stage[d])) + 1
    BY <2>6, <2>7, <2>8, FS_AddElement
  <2> QED
    BY <1>2, <2>2, <2>5, <2>9 DEF Rank
<1> QED
  BY <1>4, <1>5

\* longestPathDepths is the solution of its equation, because there is one.
LEMMA DepthsSolve ==
  ASSUME GraphInv, action # "drift"
  PROVE  longestPathDepths = Deeper(longestPathDepths)
<1>1. longestPathDepths = CHOOSE f : f = Deeper(f)
  BY DEF longestPathDepths, Deeper
<1>2. Rank = Deeper(Rank)
  <2>1. \A c \in Jobs : Deeper(Rank)[c] = Rank[c]
    BY RankStep
  <2> QED
    BY <2>1 DEF Rank, Deeper
<1>3. \E f : f = Deeper(f)
  BY <1>2
<1> QED
  BY <1>1, <1>3

\* The depth of a component is the number of stages of the run before its own:
\* a component of the earliest stage where they differ would have dependencies
\* where they do not.
LEMMA DepthIsRank ==
  ASSUME GraphInv, action # "drift", NEW c \in Jobs
  PROVE  longestPathDepths[c] = Rank[c]
<1> DEFINE Wrong == {x \in Jobs : longestPathDepths[x] # Rank[x]}
           T == {stage[x] : x \in Wrong}
<1> SUFFICES ASSUME c \in Wrong PROVE FALSE
  OBVIOUS
<1>1. \A x \in Jobs : stage[x] \in Nat
  BY UnitFacts DEF Jobs
<1>2. T \in SUBSET Nat /\ stage[c] \in T
  BY <1>1
<1>3. PICK s \in T : \A t \in T : s <= t
  BY <1>2, LeastOf
<1>4. PICK x \in Wrong : s = stage[x]
  OBVIOUS
<1>5. ASSUME NEW d \in JobDeps(x) PROVE longestPathDepths[d] = Rank[d]
  <2>1. d \in Jobs /\ stage[d] < stage[x]
    BY JobDepsAre
  <2>2. stage[d] \notin T
    BY <1>1, <1>3, <1>4, <2>1
  <2> QED
    BY <2>1, <2>2
<1>6. Deeper(longestPathDepths)[x] = Rank[x]
  BY <1>5, RankStep
<1> QED
  BY <1>4, <1>6, DepthsSolve

\* The board of a run whose snapshot records no stages is the board of the
\* stages it was started with: longestPathDepths orders components as their
\* recorded stages do.
THEOREM StagesAreDerivable == Spec => []DerivedStagesAgree
<1>1. GraphInv => DerivedStagesAgree
  <2> SUFFICES ASSUME GraphInv, action # "drift", NEW b \in Jobs, NEW c \in Jobs
               PROVE  longestPathDepths[b] <= longestPathDepths[c] <=> StageOf(b) <= StageOf(c)
    BY DEF DerivedStagesAgree
  <2>1. longestPathDepths[b] = Rank[b] /\ longestPathDepths[c] = Rank[c]
    BY DepthIsRank
  <2>2. StageOf(b) = stage[b] /\ StageOf(c) = stage[c]
    BY UnitFacts DEF Jobs
  <2> QED
    BY <2>1, <2>2, RankOrders
<1> QED
  BY <1>1, GraphInit, GraphNext, PTL DEF Spec
=============================================================================
