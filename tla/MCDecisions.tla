----------------------------- MODULE MCDecisions -----------------------------
(* Tool calls with their decisions, and the other components that wait for *)
(* decisions, the workflow runner and memory review, for TLC. A behaviour  *)
(* exercises one of them, chosen in its initial state; the others stay at  *)
(* rest.                                                                   *)
EXTENDS ToolCalls, ServiceProofs

CONSTANTS r1, r2, d1, d2, allowed, asked, blocked

MCRequests == {r1, r2}
MCOneRequest == {r1}
MCDecisions == {d1, d2}
MCTools == {allowed, asked, blocked}
MCAsked == {asked}
MCGuard == [t \in MCTools |-> CASE t = allowed -> "allow"
                                [] t = asked -> "require_approval"
                                [] OTHER -> "block"]
MCAskedGuard == [t \in MCAsked |-> "require_approval"]

VARIABLE focus

\* The workflow runner and memory review, instantiated in ServiceProofs: three
\* nodes (a gate, a no-op and an effect) with edges that join, branch, form
\* cycles and name unknown nodes; two candidates that contradict each other.
MCEdgeSets == {{}, {<<1, 2>>, <<2, 3>>}, {<<3, 2>>, <<2, 1>>}, {<<1, 2>>, <<1, 3>>, <<2, 3>>}, {<<1, 2>>, <<2, 1>>},
    {<<1, 3>>, <<2, 3>>}, {<<1, 4>>}, {<<4, 1>>}, {<<2, 2>>}, {<<1, 4>>, <<2, 2>>}, {<<1, 4>>, <<5, 4>>}}

flowVars == <<edges, indeg, ready, order, verdict, step, flowStatus, handed, flowRow, answers>>
reviewVars == <<candidate, memory, conflict, review, announced, scan, listing>>

\* Only the component in focus moves.
Rests(f) ==
    /\ UNCHANGED focus
    /\ IF f = "calls" THEN TRUE ELSE UNCHANGED vars
    /\ IF f = "flow" THEN TRUE ELSE UNCHANGED flowVars
    /\ IF f = "review" THEN TRUE ELSE UNCHANGED reviewVars

DecisionsInit ==
    /\ focus \in {"calls", "flow", "review"}
    /\ Init /\ (focus # "calls" => want = [r \in Requests |-> asked])
    /\ Flow!Init /\ (focus # "flow" => edges = {})
    /\ Review!Init /\ (focus # "review" => candidate = [c \in {"c1", "c2"} |-> "none"])

DecisionsNext ==
    \/ focus = "calls" /\ Next /\ Rests("calls")
    \/ focus = "flow" /\ Flow!Next /\ Rests("flow")
    \/ focus = "review" /\ Review!Next /\ Rests("review")

everything == <<focus, vars, flowVars, reviewVars>>

\* The fairness of each component, as its own module states it.
DecisionsSpec ==
    /\ DecisionsInit /\ [][DecisionsNext]_everything
    /\ \A r \in Requests : WF_vars(focus = "calls" /\ RequestStep(r))
    /\ \A d \in Decisions : WF_vars(focus = "calls" /\ DecisionStep(d))

\* Tool calls alone.
ToolCallsSpec ==
    /\ DecisionsInit /\ focus = "calls"
    /\ [][DecisionsNext]_everything
=============================================================================
