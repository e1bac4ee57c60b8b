----------------------------- MODULE MCLedger -----------------------------
(* The chronicle and what is built on recorded events, for TLC: retention, *)
(* replay and reports, the broker and the hub.  A behaviour exercises one  *)
(* of them, chosen in its initial state; the others stay at rest.          *)
EXTENDS ChronicleProofs

CONSTANTS w1, w2, s1

VARIABLE focus

\* One session and the workspace scope are the two shapes of the query.
MCWriters == {w1, w2}
MCSessions == {s1}

\* Retention, instantiated in ChronicleProofs: three events, one protected.
MCEventTypes == <<"model_call", "tool_call_requested", "tool_call_finished">>

keptVars == <<recorded, written, expired, purge, purged, artifact, report, pin, run, catalog>>
pubsubVars == <<lastId, pubsubRow, fanned, publisher, client, overtaken>>
hubVars == <<published, socket, unread, joined, wire, reader, items, failed>>

Rests(f) ==
    /\ UNCHANGED focus
    /\ IF f = "chronicle" THEN TRUE ELSE UNCHANGED vars
    /\ IF f = "retention" THEN TRUE ELSE UNCHANGED keptVars
    /\ IF f = "broker" THEN TRUE ELSE UNCHANGED pubsubVars
    /\ IF f = "hub" THEN TRUE ELSE UNCHANGED hubVars

LedgerInit ==
    /\ focus \in {"chronicle", "retention", "broker", "hub"}
    /\ Init /\ Kept!Init /\ Pubsub!Init /\ Socket!Init

LedgerNext ==
    \/ focus = "chronicle" /\ Next /\ Rests("chronicle")
    \/ focus = "retention" /\ Kept!Next /\ Rests("retention")
    \/ focus = "broker" /\ Pubsub!Next /\ Rests("broker")
    \/ focus = "hub" /\ Socket!Next /\ Rests("hub")

everything == <<focus, vars, keptVars, pubsubVars, hubVars>>

\* purge_by_policy is run periodically.
LedgerSpec ==
    /\ LedgerInit /\ [][LedgerNext]_everything
    /\ WF_keptVars(focus = "retention" /\ Kept!PurgePass)

\* The chronicle alone.
ChronicleSpec ==
    /\ LedgerInit /\ focus = "chronicle"
    /\ [][LedgerNext]_everything

(* An expired event is deleted in the end, unless a checkpoint pins it or
   an expired event before it: a constraint error ends every pass there.
   (Module Retention.)                                                     *)
DueIsPurged == Kept!DueIsPurged
=============================================================================
