-------------------------------- MODULE Gate --------------------------------
(***************************************************************************)
(* The chokepoint of the HTTP routes (crates/actant-server/src/lib.rs):    *)
(* the rate limiter, the cascade of enforce_auth and the command handlers  *)
(* of the SQLite and the Postgres router, and their checked reads.  The    *)
(* two routers take the two checks of a command in opposite orders.  A     *)
(* request is served a check at a time while sessions end and buckets      *)
(* refill around it.                                                       *)
(***************************************************************************)
EXTENDS Naturals, FiniteSets

CONSTANTS
    Configs,       \* deployments: [pg, local, trustProxy, secret] of BOOLEAN
    Workspaces,
    Sessions,      \* session_token rows
    SessionOf,     \* [Sessions -> Workspaces]
    Limit,         \* tokens of a full bucket
    MaxRequests    \* bound on requests served

VARIABLES
    config,        \* backend, local_mode, trust_proxy and whether a secret is set
    tokens,        \* the bucket of each workspace
    ended,         \* sessions revoked or past expires_at
    request,       \* the request being served
    seen,          \* history: sessions ended when enforce_auth read the row
    counted,       \* actant_commands_dispatched_total, per workspace
    spent,         \* history: tokens taken, per workspace
    refused,       \* history: commands refused by enforce_auth, per workspace
    served         \* history: requests served

vars == <<config, tokens, ended, request, seen, counted, spent, refused, served>>

None == "none"
Headers == [proxied : BOOLEAN, bearer : {None, "garbled"} \cup Workspaces,
            cookie : {None, "unknown"} \cup Sessions, csrf : {None} \cup Sessions]
Routes == {"command", "read"}
Idle == [pc |-> "idle"]
Zero == [w \in Workspaces |-> 0]

Init ==
    /\ config \in Configs
    /\ tokens = [w \in Workspaces |-> Limit]
    /\ ended = {}
    /\ request = Idle
    /\ seen = {}
    /\ counted = Zero /\ spent = Zero /\ refused = Zero
    /\ served = 0

-----------------------------------------------------------------------------
(* The checks of the cascade; each answers "pass", "refuse" or "next".     *)

LocalBypass(h) ==
    IF ~config.local \/ config.secret THEN "next"
    ELSE IF h.proxied /\ ~config.trustProxy THEN "refuse" ELSE "pass"

\* Fault: a bearer token no secret can verify is ignored.
IgnoresUnconfigured(h, w) ==
    IF h.bearer = None \/ ~config.secret THEN "next"
    ELSE IF h.bearer = w THEN "pass" ELSE "refuse"

BearerAuth(h, w) ==
    IF h.bearer = None THEN "next"
    ELSE IF config.secret /\ h.bearer = w THEN "pass" ELSE "refuse"

CsrfHeader(h, s) == h.csrf = s

SessionAuth(s, h, route, w) ==
    IF /\ s \notin ended
       /\ SessionOf[s] = w
       /\ route = "read" \/ CsrfHeader(h, s)
    THEN "pass" ELSE "refuse"

MissingAuth == IF config.secret THEN "refuse" ELSE "pass"

\* fetch_sqlite_session_auth, and an unknown token.
FetchSession(h) == {s \in Sessions : h.cookie = s}

Cascade(h, route, w) ==
    LET local == LocalBypass(h)
        bearer == BearerAuth(h, w)
    IN IF local # "next" THEN local
       ELSE IF bearer # "next" THEN bearer
       ELSE IF h.cookie = None THEN MissingAuth
       ELSE IF FetchSession(h) = {} THEN "refuse"
       ELSE SessionAuth(h.cookie, h, route, w)

-----------------------------------------------------------------------------
Goto(pc) == request' = [request EXCEPT !.pc = pc]

Arrive(h, route, w) ==
    /\ request.pc \in {"idle", "refused", "admitted"}
    /\ served < MaxRequests
    /\ served' = served + 1
    /\ request' = [pc |-> IF route = "command" /\ ~config.pg THEN "limit" ELSE "auth",
                   h |-> h, route |-> route, ws |-> w]
    /\ UNCHANGED <<config, tokens, ended, seen, counted, spent, refused>>

\* enforce_auth and enforce_pg_auth: one query, judged as it is read.
EnforceAuth ==
    /\ request.pc = "auth"
    /\ seen' = ended
    /\ IF Cascade(request.h, request.route, request.ws) = "refuse"
       THEN /\ Goto("refused")
            /\ refused' = IF request.route = "command"
                          THEN [refused EXCEPT ![request.ws] = @ + 1] ELSE refused
       ELSE /\ Goto(IF request.route = "read" THEN "admitted"
                    ELSE IF config.pg THEN "limit" ELSE "dispatch")
            /\ UNCHANGED refused
    /\ UNCHANGED <<config, tokens, ended, counted, spent, served>>

\* Fault: the token is taken before the bucket is looked at.
TakesFirst ==
    /\ request.pc = "limit"
    /\ tokens' = [tokens EXCEPT ![request.ws] = @ - 1]
    /\ spent' = [spent EXCEPT ![request.ws] = @ + 1]
    /\ Goto(IF tokens[request.ws] < 1 THEN "refused" ELSE IF config.pg THEN "dispatch" ELSE "auth")
    /\ UNCHANGED <<config, ended, seen, counted, refused, served>>

EnforceRateLimit ==
    /\ request.pc = "limit"
    /\ IF tokens[request.ws] >= 1
       THEN /\ tokens' = [tokens EXCEPT ![request.ws] = @ - 1]
            /\ spent' = [spent EXCEPT ![request.ws] = @ + 1]
            /\ Goto(IF config.pg THEN "dispatch" ELSE "auth")
       ELSE /\ Goto("refused")
            /\ UNCHANGED <<tokens, spent>>
    /\ UNCHANGED <<config, ended, seen, counted, refused, served>>

\* Fault: the attempt is counted again when the engine fails.
CountsFailures ==
    /\ request.pc = "dispatch"
    /\ \E n \in {1, 2} : counted' = [counted EXCEPT ![request.ws] = @ + n]
    /\ Goto("admitted")
    /\ UNCHANGED <<config, tokens, ended, seen, spent, refused, served>>

\* record_command, then the engine: Dispatch models what it does.
DispatchCommand ==
    /\ request.pc = "dispatch"
    /\ counted' = [counted EXCEPT ![request.ws] = @ + 1]
    /\ Goto("admitted")
    /\ UNCHANGED <<config, tokens, ended, seen, spent, refused, served>>

EndSession(s) ==
    /\ s \notin ended
    /\ ended' = ended \cup {s}
    /\ UNCHANGED <<config, tokens, request, seen, counted, spent, refused, served>>

RefillBucket(w) ==
    /\ tokens[w] < Limit
    /\ tokens' = [tokens EXCEPT ![w] = @ + 1]
    /\ UNCHANGED <<config, ended, request, seen, counted, spent, refused, served>>

Next ==
    \/ \E h \in Headers, route \in Routes, w \in Workspaces : Arrive(h, route, w)
    \/ EnforceAuth \/ EnforceRateLimit \/ DispatchCommand
    \/ \E s \in Sessions : EndSession(s)
    \/ \E w \in Workspaces : RefillBucket(w)

Spec == Init /\ [][Next]_vars

-----------------------------------------------------------------------------
TypeOK ==
    /\ tokens \in [Workspaces -> 0..Limit]
    /\ ended \subseteq Sessions /\ seen \subseteq Sessions
    /\ request.pc \in {"idle", "limit", "auth", "dispatch", "refused", "admitted"}

\* Who may be served when the sessions in gone have ended, said without an
\* order of checks.
HasGrounds(r, gone) ==
    LET open == config.local /\ ~config.secret
        byLocal == open /\ (r.h.proxied => config.trustProxy)
        byToken == ~open /\ config.secret /\ r.h.bearer = r.ws
        bySession == /\ ~open
                     /\ r.h.bearer = None
                     /\ r.h.cookie \in {s \in Sessions \ gone : SessionOf[s] = r.ws}
                     /\ r.route = "command" => r.h.csrf = r.h.cookie
        byNobody == ~open /\ ~config.secret /\ r.h.bearer = None /\ r.h.cookie = None
    IN byLocal \/ byToken \/ bySession \/ byNobody

(* A request is served exactly on the grounds above, judged at the moment  *)
(* its session row was read: enforce_auth's order of checks and early      *)
(* returns lets through nobody else and turns nobody else away.            *)
AdmissionIsExact ==
    /\ request.pc \in {"dispatch", "admitted"} => HasGrounds(request, seen)
    /\ request.pc = "refused" =>
          \/ ~HasGrounds(request, seen)
          \/ request.route = "command" /\ spent[request.ws] >= Limit

(* Every token taken is a counted command, one about to be counted, or, on *)
(* SQLite where the limiter comes first, one that enforce_auth then        *)
(* refused: on Postgres refused requests never use up a workspace's        *)
(* budget, and the Prometheus counter is not inflated by either check.     *)
BudgetIsAccounted ==
    \A w \in Workspaces :
        spent[w] = counted[w]
                   + (IF request.pc \in {"auth", "dispatch"} /\ request.ws = w /\ request.route = "command"
                         /\ (config.pg => request.pc = "dispatch") THEN 1 ELSE 0)
                   + (IF config.pg THEN 0 ELSE refused[w])

(* The chokepoint lets in exactly who has grounds and accounts for every
   token it takes: the three above.                                        *)
AdmissionIsAccounted == TypeOK /\ AdmissionIsExact /\ BudgetIsAccounted
=============================================================================
