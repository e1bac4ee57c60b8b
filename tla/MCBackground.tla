---------------------------- MODULE MCBackground -----------------------------
(* The effect queue settling, and the browser driver of a worker, for TLC. *)
(* A behaviour exercises one of them, chosen in its initial state; the     *)
(* other stays at rest.                                                    *)
EXTENDS EffectQueueProofs

CONSTANTS e1, e2, w1, w2, r1

MCTypes == {"file.read", "file.write"}
MCTypeOf == [e \in Effects |-> IF e = e1 THEN "file.read" ELSE "file.write"]

\* actant-worker-file: both types advertised, one handler that lists both.
MCCaps == [w \in Workers |-> MCTypes]
MCPrimary == [w \in Workers |-> {"file.read"}]

\* A worker binary with one handler per advertised type.
MCPrimaryAll == [w \in Workers |-> MCTypes]

VARIABLE focus

browserVars == <<driver, child, dir, sink, pump, nextId, pending, wire, inbox, call, dropped>>

\* Only the component in focus moves.
Rests(f) ==
    /\ UNCHANGED focus
    /\ IF f = "effects" THEN TRUE ELSE UNCHANGED vars
    /\ IF f = "browser" THEN TRUE ELSE UNCHANGED browserVars

BackgroundInit ==
    /\ focus \in {"effects", "browser"}
    /\ Init
    /\ Browser!Init

BackgroundNext ==
    \/ focus = "effects" /\ Next /\ Rests("effects")
    \/ focus = "browser" /\ Browser!Next /\ Rests("browser")
    \/ focus # "effects" /\ UNCHANGED <<focus, vars, browserVars>>   \* all its calls are made

everything == <<focus, vars, browserVars>>

\* The fairness of each component, as its own module states it.
BackgroundSpec ==
    /\ BackgroundInit /\ [][BackgroundNext]_everything
    /\ \A w \in Workers : WF_vars(focus = "effects" /\ WorkerStep(w))
    /\ \A c \in Browser!Tasks : WF_browserVars(focus = "browser" /\ Browser!TaskStep(c))

\* The queue alone under the fairness of ReapedSpec: leases run out, the reaper runs.
ReapedQueueSpec ==
    /\ BackgroundInit /\ focus = "effects"
    /\ [][BackgroundNext]_everything
    /\ \A w \in Workers : WF_vars(focus = "effects" /\ WorkerStep(w))
    /\ \A r \in Reapers : WF_vars(focus = "effects" /\ ReaperStep(r))
    /\ WF_vars(focus = "effects" /\ \E c \in claims : LeaseExpires(c))

(* Every operation comes to an end, though the browser may have died, never
   answer, or never finish loading: requests time out and polling has a
   deadline. (Module CdpDriver.)                                           *)
CallsEnd == focus = "browser" => Browser!CallsEnd
=============================================================================
