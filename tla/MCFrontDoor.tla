----------------------------- MODULE MCFrontDoor -----------------------------
(* Command dispatch, and what stands in front of it, for TLC: ownership,   *)
(* the gate of the routes, the registry, the generated routes, the inbox   *)
(* and the policy. A behaviour exercises one of them, chosen in its        *)
(* initial state; the others stay at rest.                                 *)
EXTENDS DispatchProofs, TLC

CONSTANTS r1, r2, r3, k1, a1, a2, s1

MCRequests == {r1, r2, r3}

Job(t, k, a, g, s) == [type |-> t, key |-> k, actor |-> a, agent |-> g, session |-> s]

\* Keyed creations of one session by two actors, with and without an agent,
\* keyed and unkeyed messages into it, and a malformed command.
MCJobs == {Job("create_session", k1, a1, NoActor, s1),
           Job("create_session", NoKey, a2, a1, s1),
           Job("append_message", k1, a2, NoActor, s1),
           Job("append_message", NoKey, a1, NoActor, s1),
           Job("invalid", k1, a1, NoActor, s1)}

\* One client sending the same keyed message again.
MCRetry == {Job("create_session", NoKey, a1, NoActor, s1),
            Job("append_message", k1, a1, NoActor, s1)}

Sym == Permutations(MCRequests)

VARIABLE focus

\* The components are instantiated in DispatchProofs. At the gate, trusting a
\* proxy matters only where local mode is on and no secret is set; the routers
\* differ in the order of the checks only, so that each is given the
\* deployments that tell the order.
MCSessionOf == [s |-> "v"]
MCConfigs == {c \in [pg : BOOLEAN, local : BOOLEAN, trustProxy : BOOLEAN, secret : BOOLEAN] :
                /\ c.trustProxy => c.local /\ ~c.secret
                /\ c.trustProxy => c.pg
                /\ c.secret => c.local
                /\ c.pg => c.local}

MCEntityTypes == <<"person", "place">>

Table(name, appendOnly, scoped) == [name |-> name, appendOnly |-> appendOnly, scoped |-> scoped]
MCTables == {Table("agent_event", TRUE, TRUE), Table("memory", FALSE, TRUE), Table("workspace", FALSE, FALSE)}

Rule(tool, path, compiles) == [tool |-> tool, matches |-> {path}, compiles |-> compiles]
MCRules == {Rule("shell.run", "dist", TRUE), Rule("*", "src", TRUE), Rule("*", "dist", FALSE)}

ingressVars == <<delivery, ingressRow, errors>>
linkVars == <<owner, code, staleCodes, token, opened, everSet, boot, browser, lastMint>>
registryVars == <<workspaceRow, actorRow, catalogBoot, crashed, scope, entities, relation, answer>>
restVars == <<row, walk, restLost, reached, writes>>
policyVars == <<policy, input, offered>>
gateVars == <<config, tokens, ended, request, seen, counted, spent, refused, served>>

\* Only the component in focus moves.
Rests(f) ==
    /\ UNCHANGED focus
    /\ IF f = "dispatch" THEN TRUE ELSE UNCHANGED vars
    /\ IF f = "ingress" THEN TRUE ELSE UNCHANGED ingressVars
    /\ IF f = "link" THEN TRUE ELSE UNCHANGED linkVars
    /\ IF f = "registry" THEN TRUE ELSE UNCHANGED registryVars
    /\ IF f = "rest" THEN TRUE ELSE UNCHANGED restVars
    /\ IF f = "policy" THEN TRUE ELSE UNCHANGED policyVars
    /\ IF f = "gate" THEN TRUE ELSE UNCHANGED gateVars

FrontDoorInit ==
    /\ focus \in {"dispatch", "ingress", "link", "registry", "rest", "policy", "gate"}
    /\ Init /\ (focus # "dispatch" => job = [r \in Requests |-> Job("invalid", k1, a1, NoActor, s1)])
    /\ Inbox!Init
    /\ Owner!Init
    /\ Catalog!Init
    /\ Rest!Init
    /\ Guarded!PolicyInit /\ (focus # "policy" => input = [tool |-> "shell.run", tokens |-> <<"src">>, sensitivity |-> 0, critical |-> FALSE])
    /\ Door!Init /\ (focus # "gate" => config = [pg |-> TRUE, local |-> TRUE, trustProxy |-> FALSE, secret |-> TRUE])

\* A bound on the registry: a file some boot died over gets no relations.
CrashesStaySmall == crashed' # {} => relation' = <<>>

FrontDoorNext ==
    \/ focus = "dispatch" /\ Next /\ Rests("dispatch")
    \/ focus = "ingress" /\ Inbox!Next /\ Rests("ingress")
    \/ focus = "link" /\ Owner!Next /\ Rests("link")
    \/ focus = "registry" /\ Catalog!Next /\ CrashesStaySmall /\ Rests("registry")
    \/ focus = "rest" /\ Rest!Next /\ Rests("rest")
    \/ focus = "policy" /\ Guarded!PolicyNext /\ Rests("policy")
    \/ focus = "gate" /\ Door!Next /\ Rests("gate")

everything == <<focus, vars, ingressVars, linkVars, registryVars, restVars, policyVars, gateVars>>

FrontDoorSpec == FrontDoorInit /\ [][FrontDoorNext]_everything

\* Dispatch alone.
DispatchSpec ==
    /\ FrontDoorInit /\ focus = "dispatch"
    /\ [][FrontDoorNext]_everything
==============================================================================
