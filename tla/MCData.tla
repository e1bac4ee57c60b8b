------------------------------- MODULE MCData --------------------------------
(* The effect queue under faults, and the components that copy, move or    *)
(* keep data, for TLC. A behaviour exercises one of them, chosen in its    *)
(* initial state; the others stay at rest.                                 *)
EXTENDS EffectQueue, CopyProofs

CONSTANTS e1, e2, w1, w2, r1

MCTypes == {"file.read", "file.write"}
MCTypeOf == [e \in Effects |-> IF e = e1 THEN "file.read" ELSE "file.write"]

\* actant-worker-file: both types advertised, one handler that lists both.
MCCaps == [w \in Workers |-> MCTypes]
MCPrimary == [w \in Workers |-> {"file.read"}]

VARIABLE focus

\* Replication: two devices of one agent, and a third. Content hashes are in no
\* relation to the order of the stamps.
MCActorOf == <<1, 2, 1>>
HashRank(ev) == ((ev.text * 4 + ev.stamp * 3) % 11) + 1

\* Export: a chain, a child exported before its parent, an event without session.
Event(id, session, parent, secret) == [id |-> id, session |-> session, parent |-> parent, secret |-> secret]
MCEvents == {Event(1, "s", 0, FALSE), Event(2, "s", 1, TRUE), Event(3, "t", 4, FALSE),
             Event(4, "t", 0, FALSE), Event(5, "none", 0, TRUE)}

replicationVars == <<store, clock, intake, batches, winner, unobserved, reader>>
backupVars == <<main, wal, committed, files, manifest, run, lost, promised, overlap, target>>
blobsVars == <<boot, default, whole, tmp, path, objects, rows, proc, overlapped, removed>>
transferVars == <<file, known, carryTarget, imp, live, mixed, raced>>
compatVars == <<first, baseline, releases>>

\* Only the component in focus moves.
Rests(f) ==
    /\ UNCHANGED focus
    /\ IF f = "effects" THEN TRUE ELSE UNCHANGED vars
    /\ IF f = "replication" THEN TRUE ELSE UNCHANGED replicationVars
    /\ IF f = "backup" THEN TRUE ELSE UNCHANGED backupVars
    /\ IF f = "blobs" THEN TRUE ELSE UNCHANGED blobsVars
    /\ IF f = "transfer" THEN TRUE ELSE UNCHANGED transferVars
    /\ IF f = "compat" THEN TRUE ELSE UNCHANGED compatVars

DataInit ==
    /\ focus \in {"effects", "replication", "backup", "blobs", "transfer", "compat"}
    /\ Init
    /\ Peers!Init
    /\ Vault!Init
    /\ Blobs!Init /\ (focus # "blobs" => default = "file")
    /\ Carry!Init /\ (focus # "transfer" => known = {})
    /\ Contract!SchemaInit /\ (focus # "compat" => first = CHOOSE s \in Contract!Schemas : TRUE)

DataNext ==
    \/ focus = "effects" /\ Next /\ Rests("effects")
    \/ focus = "replication" /\ Peers!Next /\ Rests("replication")
    \/ focus = "backup" /\ Vault!Next /\ Rests("backup")
    \/ focus = "blobs" /\ Blobs!Next /\ Rests("blobs")
    \/ focus = "transfer" /\ Carry!Next /\ Rests("transfer")
    \/ focus = "compat" /\ Contract!SchemaNext /\ Rests("compat")
    \/ focus # "effects" /\ UNCHANGED <<focus, vars, replicationVars, backupVars, blobsVars, transferVars, compatVars>>   \* all its calls are made

everything == <<focus, vars, replicationVars, backupVars, blobsVars, transferVars, compatVars>>

DataSpec == DataInit /\ [][DataNext]_everything
=============================================================================
