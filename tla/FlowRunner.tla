----------------------------- MODULE FlowRunner -----------------------------
(***************************************************************************)
(* Workflows (crates/actant-flow/src/lib.rs): topological_order, one round *)
(* of its loop per step, and the Runner.  The driver carries out the       *)
(* actions next_action hands out and answers them; answers may be late or  *)
(* repeated, and the Runner takes an answer for a step in any status.      *)
(***************************************************************************)
EXTENDS Naturals, Sequences, FiniteSets

CONSTANTS
    Nodes,        \* node keys, numbered in their sort order
    EdgeSets,     \* edge lists explored, as sets of <<from, to>>
    Gates,        \* nodes of type approval_gate
    NoOps,        \* nodes of a type action_for completes at once
    MaxAnswers    \* bound on the driver's answers

VARIABLES
    edges,        \* the workflow's edges
    indeg,        \* in-degree left, per key
    ready,        \* keys without open predecessors, a stack
    order,        \* keys put out so far
    verdict,      \* of topological_order: "busy", "ok" or "cycle"
    step,         \* status per node
    flowStatus,   \* status of the run
    handed,       \* nodes whose action the driver has been given
    flowRow,      \* status in the workflow_run row, or "none"
    answers

vars == <<edges, indeg, ready, order, verdict, step, flowStatus, handed, flowRow, answers>>

Keys(E) == Nodes \cup {e[1] : e \in E} \cup {e[2] : e \in E}
Degree(E, k) == Cardinality({e \in E : e[2] = k})

\* Every order the members of S can stand in.
Orders(S) == {s \in [1..Cardinality(S) -> S] : \A k \in S : \E i \in DOMAIN s : s[i] = k}
Sorted(S) == {s \in Orders(S) : \A i, j \in DOMAIN s : i < j => s[i] < s[j]}

\* indeg has the nodes and every edge's target, not an unknown source.
Init ==
    /\ edges \in EdgeSets
    /\ indeg = [k \in Nodes \cup {e[2] : e \in edges} |-> Degree(edges, k)]
    /\ ready \in Sorted({k \in DOMAIN indeg : indeg[k] = 0})
    /\ order = <<>>
    /\ verdict = "busy"
    /\ step = [n \in Nodes |-> "pending"]
    /\ flowStatus = "pending"
    /\ handed = {}
    /\ flowRow = "none"
    /\ answers = 0

-----------------------------------------------------------------------------
(* topological_order.                                                      *)

Successors(n) == {e[2] : e \in {f \in edges : f[1] = n}}

\* Fault: a successor is ready as soon as one predecessor is out.
ReadyAtOnce(n) == Successors(n)

\* Counted down by one for each edge out of n.
Lowered(n, k) == IF k \in Successors(n) /\ indeg[k] > 0 THEN indeg[k] - 1 ELSE indeg[k]

\* The successors of n whose last open predecessor n was.
NewlyReady(n) == {m \in Successors(n) : Lowered(n, m) = 0}

Visited == {order[i] : i \in DOMAIN order}

\* The edge list may have its edges in any order, and they are pushed in that.
Visit ==
    LET n == ready[Len(ready)]
        rest == SubSeq(ready, 1, Len(ready) - 1)
    IN  /\ verdict = "busy" /\ ready # <<>>
        /\ IF n \in Visited THEN ready' = rest /\ UNCHANGED <<order, indeg>>
           ELSE /\ order' = Append(order, n)
                /\ indeg' = [k \in DOMAIN indeg |-> Lowered(n, k)]
                /\ \E pushed \in Orders(NewlyReady(n)) : ready' = rest \o pushed
        /\ UNCHANGED <<edges, verdict, step, flowStatus, handed, flowRow, answers>>

Conclude ==
    /\ verdict = "busy" /\ ready = <<>>
    /\ verdict' = IF Len(order) # Cardinality(Nodes) THEN "cycle" ELSE "ok"
    /\ UNCHANGED <<edges, indeg, ready, order, step, flowStatus, handed, flowRow, answers>>

-----------------------------------------------------------------------------
(* The Runner.                                                             *)

Halted == {"awaitingapproval", "running"}
Open == {i \in DOMAIN order :
            order[i] \in Nodes => step[order[i]] \in Halted \cup {"pending"}}

\* next_action: the first open step, started if need be, with its action.  A key
\* that is no node's panics ("step exists"), and no action follows.
NextAction ==
    /\ verdict = "ok" /\ flowStatus # "failed"
    /\ \E first \in Open :
        LET n == order[first] IN
           /\ n \in Nodes /\ \A i \in Open : first <= i
           /\ step' = [step EXCEPT ![n] = IF n \in NoOps THEN "succeeded"
                                          ELSE IF n \in Gates THEN "awaitingapproval" ELSE "running"]
           /\ handed' = handed \cup {n}
    /\ UNCHANGED <<edges, indeg, ready, order, verdict, flowStatus, flowRow, answers>>

\* next_action once every step is closed.
Finish ==
    /\ verdict = "ok" /\ flowStatus # "failed" /\ Open = {}
    /\ flowStatus' = "succeeded"
    /\ UNCHANGED <<edges, indeg, ready, order, verdict, step, handed, flowRow, answers>>

CompleteStep(n) ==
    /\ n \in handed /\ answers < MaxAnswers
    /\ step' = [step EXCEPT ![n] = "succeeded"]
    /\ answers' = answers + 1
    /\ UNCHANGED <<edges, indeg, ready, order, verdict, flowStatus, handed, flowRow>>

\* A node key the workflow does not have still fails the run.
FailStep(n) ==
    /\ verdict = "ok" /\ (n \in handed \/ n \notin Nodes)
    /\ answers < MaxAnswers
    /\ step' = [m \in Nodes |-> IF m = n THEN "failed" ELSE step[m]]
    /\ flowStatus' = "failed"
    /\ answers' = answers + 1
    /\ UNCHANGED <<edges, indeg, ready, order, verdict, handed, flowRow>>

\* Fault: a denial marks the step and leaves the run to the next action.
DeniesStepOnly(n, approved) ==
    /\ n \in handed \cap Gates /\ answers < MaxAnswers
    /\ step' = [step EXCEPT ![n] = IF approved THEN "succeeded" ELSE "failed"]
    /\ answers' = answers + 1
    /\ UNCHANGED <<edges, indeg, ready, order, verdict, flowStatus, handed, flowRow>>

ResolveApproval(n, approved) ==
    /\ n \in handed \cap Gates /\ answers < MaxAnswers
    /\ step' = [step EXCEPT ![n] = IF approved THEN "succeeded" ELSE "failed"]
    /\ flowStatus' = IF approved THEN flowStatus ELSE "failed"
    /\ answers' = answers + 1
    /\ UNCHANGED <<edges, indeg, ready, order, verdict, handed, flowRow>>

\* persist_run inserts once; a second call meets the primary key.
PersistRun ==
    /\ verdict = "ok" /\ flowRow = "none"
    /\ flowRow' = flowStatus
    /\ UNCHANGED <<edges, indeg, ready, order, verdict, step, flowStatus, handed, answers>>

Unknown == 1 + CHOOSE n \in Nodes : \A m \in Nodes : m <= n

Next ==
    \/ Visit \/ Conclude \/ NextAction \/ Finish \/ PersistRun
    \/ \E n \in Nodes : CompleteStep(n) \/ (\E approved \in BOOLEAN : ResolveApproval(n, approved))
    \/ \E n \in Nodes \cup {Unknown} : FailStep(n)

Spec == Init /\ [][Next]_vars

-----------------------------------------------------------------------------
TypeOK ==
    /\ verdict \in {"busy", "ok", "cycle"}
    /\ Visited \subseteq Keys(edges)
    /\ flowStatus \in {"pending", "succeeded", "failed"}
    /\ \A n \in Nodes : step[n] \in {"pending", "running", "succeeded", "failed", "awaitingapproval"}

\* Reference: no set of nodes is closed under predecessors.
NoCycle == \A S \in (SUBSET Nodes) \ {{}} : \E n \in S : \A e \in edges : e[2] = n => e[1] \notin S
Acyclic == Keys(edges) = Nodes /\ NoCycle

\* No edge goes to a key that no node has.
TargetsAreNodes == \A e \in edges : e[2] \in Nodes

(* topological_order refuses no acyclic workflow over its own nodes, and if
   every edge goes to a node it answers "ok" for these only, with every node
   once and every edge forward.  An edge to an unknown key puts that key out
   too, which can make up for the nodes of a cycle in the comparison of
   lengths.                                                                *)
OrderIsTopological ==
    /\ verdict = "cycle" => ~Acyclic
    /\ verdict = "ok" /\ TargetsAreNodes =>
          /\ Acyclic /\ Visited = Nodes /\ Len(order) = Cardinality(Nodes)
          /\ \A e \in edges : \E i, j \in DOMAIN order : i < j /\ order[i] = e[1] /\ order[j] = e[2]

(* No action is handed out before every predecessor of its node was: a late
   or repeated answer cannot open a step whose inputs are missing.         *)
HandedInOrder == \A e \in edges : verdict = "ok" /\ e[2] \in handed => e[1] \in handed

(* A run that reports success has every step succeeded, and its workflow no
   cycle: one that a denial or a failed step touched stays failed, whatever
   answers come after, and one let through with a cycle never ends.        *)
SuccessIsWhole ==
    flowStatus = "succeeded" => NoCycle /\ \A n \in Nodes : step[n] = "succeeded"

(* A workflow keeps to its graph whatever late, repeated or refusing answers
   come.                                                                   *)
FlowIsOrdered == TypeOK /\ OrderIsTopological /\ HandedInOrder /\ SuccessIsWhole
=============================================================================
