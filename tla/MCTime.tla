------------------------------- MODULE MCTime --------------------------------
(* The hybrid clock, and the components that count on time, polls and      *)
(* retries, for TLC. A behaviour exercises one of them, chosen in its      *)
(* initial state; the others stay at rest.                                 *)
EXTENDS LimitProofs

CONSTANTS t1, t2

\* Two threads; the word holds times 0..3 and counters 0..2, so that the
\* counter fills up and the wall clock steps back inside one behaviour.
MCThreads == {t1, t2}
MCInitial == [physical_ms |-> 1, logical |-> 0]
MCRemotes == {[physical_ms |-> 1, logical |-> 1], [physical_ms |-> 2, logical |-> 1]}

VARIABLES
    focus,
    query, predicate, events, cursor, printed, queryOvertaken

\* The components with a limit in time, instantiated in LimitProofs: locks on
\* two resources in half seconds, two callers of a breaker, a bucket that
\* refills by fractions, two triggers of which one does not parse, two tasks
\* that verify tokens of one issuer.
MCSchedule == [t \in {"t1", "t2"} |-> IF t = "t1" THEN {2, 4} ELSE {3}]

\* The components that read on from a cursor, instantiated there too: two
\* processes that open a database of three scripts with one repeatable
\* statement, two runners that export to a bucket or to IPFS.
MCScripts == <<2, 2, 1>>
MCRepeatable == {<<2, 1>>}
Destination(name, durable) == [name |-> name, durable |-> durable]
MCBackends == {Destination("filesystem", TRUE), Destination("ipfs", FALSE)}

Json(kind, of) == [kind |-> kind, of |-> of]
Query == INSTANCE Watch WITH
    Leaves <- [p |-> [op |-> "==", lit |-> Json("str", 1)], q |-> [op |-> ">=", lit |-> Json("int", 2)],
    r |-> [op |-> "exists", lit |-> Json("null", 0)]],
    Payloads <- {Json("missing", 0), Json("str", 1), Json("int", 2), Json("float", 1)},
    Depth <- 2, Ids <- {1, 2}, PageSize <- 1,
    overtaken <- queryOvertaken

locksVars == <<now, lockRow, actor, leases>>
breakerVars == <<instant, breaker, inFlight, trip, healed, admitted>>
bucketVars == <<tick, bucketState, spent, promise>>
triggersVars == <<wall, reg, since, covered, lowest, firing, spawn, spawnEvent, spawnRow, registrations>>
oidcVars == <<time, published, replacedAt, cache, task>>
mcpVars == <<call, stdin, stdout, written, server>>
tailVars == <<table, tail, before, overtaken>>
watchVars == <<query, predicate, events, cursor, printed, queryOvertaken>>
migrationsVars == <<applied, recorded, proc, stops, broken>>
syncVars == <<backend, ledger, bucket, cursorObject, runner, late, faults>>

\* Only the component in focus moves.
Rests(f) ==
    /\ UNCHANGED focus
    /\ IF f = "clock" THEN TRUE ELSE UNCHANGED vars
    /\ IF f = "locks" THEN TRUE ELSE UNCHANGED locksVars
    /\ IF f = "breaker" THEN TRUE ELSE UNCHANGED breakerVars
    /\ IF f = "bucket" THEN TRUE ELSE UNCHANGED bucketVars
    /\ IF f = "triggers" THEN TRUE ELSE UNCHANGED triggersVars
    /\ IF f = "oidc" THEN TRUE ELSE UNCHANGED oidcVars
    /\ IF f = "mcp" THEN TRUE ELSE UNCHANGED mcpVars
    /\ IF f = "tail" THEN TRUE ELSE UNCHANGED tailVars
    /\ IF f = "watch" THEN TRUE ELSE UNCHANGED watchVars
    /\ IF f = "migrations" THEN TRUE ELSE UNCHANGED migrationsVars
    /\ IF f = "sync" THEN TRUE ELSE UNCHANGED syncVars

TimeInit ==
    /\ focus \in {"clock", "locks", "breaker", "bucket", "triggers", "oidc", "mcp", "tail", "watch",
                "migrations", "sync"}
    /\ Init
    /\ Locks!Init
    /\ Breaker!Init
    /\ Bucket!Init
    /\ Cron!Init
    /\ Oidc!Init
    /\ Mcp!Init
    /\ Follow!TailInit
    /\ Query!Init /\ (focus # "watch" => query = Query!Leaf("p"))
    /\ Schema!Init
    /\ Export!Init /\ (focus # "sync" => backend = Destination("ipfs", FALSE))

TimeNext ==
    \/ focus = "clock" /\ Next /\ Rests("clock")
    \/ focus = "locks" /\ Locks!Next /\ Rests("locks")
    \/ focus = "breaker" /\ Breaker!Next /\ Rests("breaker")
    \/ focus = "bucket" /\ Bucket!Next /\ Rests("bucket")
    \/ focus = "triggers" /\ Cron!Next /\ Rests("triggers")
    \/ focus = "oidc" /\ Oidc!Next /\ Rests("oidc")
    \/ focus = "mcp" /\ Mcp!Next /\ Rests("mcp")
    \/ focus = "tail" /\ Follow!TailNext /\ Rests("tail")
    \/ focus = "watch" /\ Query!Next /\ Rests("watch")
    \/ focus = "migrations" /\ Schema!Next /\ Rests("migrations")
    \/ focus = "sync" /\ Export!Next /\ Rests("sync")

everything == <<focus, vars, locksVars, breakerVars, bucketVars, triggersVars, oidcVars, mcpVars,
    tailVars, watchVars, migrationsVars, syncVars>>

\* The fairness of each component, as its own module states it.
TimeSpec ==
    /\ TimeInit /\ [][TimeNext]_everything
    /\ \A t \in Threads : WF_vars(focus = "clock" /\ Step(t))
    /\ WF_mcpVars(focus = "mcp" /\ Mcp!CallStep)
    /\ WF_tailVars(focus = "tail" /\ Follow!FetchRecent)
    /\ WF_tailVars(focus = "tail" /\ Follow!FetchSince)
    /\ WF_watchVars(focus = "watch" /\ Query!Poll)
    /\ \A p \in {"a", "b"} : WF_migrationsVars(focus = "migrations" /\ Schema!Open(p))
    /\ \A p \in {"a", "b"} : WF_migrationsVars(focus = "migrations" /\ Schema!Step(p))
    /\ \A r \in {"a", "b"} : WF_syncVars(focus = "sync" /\ Export!RunTail(r))

(* Every loop of these components arrives. A clock call that lost its swap
   returns. A trigger that fired is due again only for another scheduled
   time. The MCP handler comes back from a server that answers and does not
   exit. tail and watch print what is above their cursor, though more comes
   in than a page holds or nothing before it matches, and watch has printed
   exactly the events its author's query means. Every process gets
   the database open unless one was stopped inside a script. Every event
   that did not appear out of order is exported or purged.                 *)
RoundsArrive ==
    /\ CallsReturn
    /\ Cron!FireOncePerTime
    /\ focus = "mcp" => Mcp!CallReturns
    /\ focus = "tail" => Follow!TailCatchesUp
    /\ focus = "watch" => Query!MatchIsPrinted
    /\ [](focus = "watch" => Query!ParsesAsMeant /\ Query!ComparatorsAgree /\ Query!PrintsMatches)
    /\ focus = "migrations" => Schema!EveryoneOpens
    /\ focus = "sync" => Export!ExportCatchesUp
=============================================================================
