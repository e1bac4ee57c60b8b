------------------------------ MODULE AutoRest ------------------------------
(***************************************************************************)
(* The REST and GraphQL views of the tables                                *)
(* (crates/actant-server/src/auto_rest.rs, graphql_api.rs and              *)
(* schema_introspect.rs): one exposed table under POST, PATCH and DELETE   *)
(* while a client walks through it page by page.  Every request is one     *)
(* SQL statement; the walk is as many requests as it takes.  A row is its  *)
(* key, its workspace and one column; a request's checks are Gate's.       *)
(***************************************************************************)
EXTENDS Naturals, FiniteSets

CONSTANTS
    Tables,        \* records [name, appendOnly, scoped]
    Workspaces,
    Keys,          \* values of the primary key, numbered in order
    Values,        \* numbers >= 1 standing for the column's texts, in order
    Args,          \* the values filters compare with
    MaxPage,       \* the largest page GraphQL returns
    MaxWrites      \* bound on write requests

VARIABLES
    row,           \* [Keys -> [ws, val] or Absent]
    walk,          \* the client walking over pages
    lost,          \* history: a row was deleted since the walk began
    reached,       \* history: workspaces the last write was for
    writes         \* history: write requests so far

vars == <<row, walk, lost, reached, writes>>

Absent == [ws |-> "absent", val |-> 0]

\* SchemaCache::introspect: what is exposed.
Exposed == {t \in Tables : ~t.appendOnly /\ (t.scoped \/ t.name = "workspace")}

\* workspace itself is exposed without the column every statement names.
Answers == {t \in Exposed : t.scoped}

\* value_to_sql_string: JSON null is stored as the empty text, 0.
Null == 0
ToSqlString(v) == IF v = Null THEN 0 ELSE v

Present == {k \in Keys : row[k] # Absent}

\* Filter::append_to.  A pattern is the set of texts it matches.
Holds(f, k) ==
    LET v == IF f.col = "id" THEN k ELSE row[k].val
    IN CASE f.op = "eq" -> v = f.arg
         [] f.op = "neq" -> v # f.arg
         [] f.op = "lt" -> v < f.arg
         [] f.op = "lte" -> v <= f.arg
         [] f.op = "gt" -> v > f.arg
         [] f.op = "gte" -> v >= f.arg
         [] f.op \in {"like", "in"} -> v \in f.set
         [] f.op = "is.null" -> FALSE
         [] f.op = "is.not.null" -> TRUE

\* parse_op and Filter::parse: in.() needs a value.
Filters ==
    [col : {"id", "val"}, op : {"eq", "neq", "lt", "lte", "gt", "gte"}, arg : Args]
      \cup [col : {"val"}, op : {"like", "in"}, set : (SUBSET Args) \ {{}}]
      \cup [col : {"val"}, op : {"is.null", "is.not.null"}]

\* Fault: the first filter is joined with OR.
AnyOf(w, filters) ==
    {k \in Present : row[k].ws = w \/ (filters # {} /\ \E f \in filters : Holds(f, k))}

\* WHERE workspace_id = ? AND every filter.
Where(w, filters) == {k \in Present : row[k].ws = w /\ \A f \in filters : Holds(f, k)}

\* At most two filters are tried at once.
FilterSets == {{}} \cup {{f} : f \in Filters}
Narrow == {{f, g} : f \in [col : {"id"}, op : {"eq"}, arg : Args],
                    g \in [col : {"val"}, op : {"neq", "gte"}, arg : Args]}

\* A client's walk, before its first page.
Walk(place, w, order, limit, api, keys) ==
    [pc |-> place, ws |-> w, order |-> order, limit |-> limit, api |-> api,
     begun |-> keys, got |-> {}, offset |-> 0]

-----------------------------------------------------------------------------
Init ==
    /\ row = [k \in Keys |-> Absent]
    /\ walk = Walk("idle", "none", "asc", 1, "rest", {})
    /\ lost = FALSE
    /\ reached = {}
    /\ writes = 0

Write(ws) == Answers # {} /\ writes < MaxWrites /\ writes' = writes + 1 /\ reached' = ws

\* workspace_id_from: the parameter, else the body; the body's value is what
\* is stored when it has one.
WorkspaceIdFrom(param, body) == IF param # "none" THEN param ELSE body

HandlePost(k, param, body, v) ==
    LET w == WorkspaceIdFrom(param, body)
        stored == IF body # "none" THEN body ELSE w
    IN /\ w # "none"
       /\ Write({stored})
       /\ row' = IF row[k] = Absent
                 THEN [row EXCEPT ![k] = [ws |-> stored, val |-> ToSqlString(v)]] ELSE row
       /\ UNCHANGED <<walk, lost>>

HandlePatch(w, filters, v) ==
    /\ Write({w})
    /\ row' = [k \in Keys |-> IF k \in Where(w, filters) THEN [row[k] EXCEPT !.val = ToSqlString(v)]
                              ELSE row[k]]
    /\ UNCHANGED <<walk, lost>>

HandleDelete(w, filters) ==
    /\ filters # {}
    /\ Write({w})
    /\ row' = [k \in Keys |-> IF k \in Where(w, filters) THEN Absent ELSE row[k]]
    /\ lost' = (lost \/ row' # row)
    /\ UNCHANGED walk

-----------------------------------------------------------------------------
(* Reads.  parse_order, then LIMIT and OFFSET.                             *)

\* How many rows come before one in the order asked for.
Rank(k, rows, order) == Cardinality({r \in rows : IF order = "asc" THEN r < k ELSE r > k})

\* Fault: the two bounds are swapped.
SwapsBounds(rows, order, limit, offset) ==
    {k \in rows : Rank(k, rows, order) \in limit..(limit + offset - 1)}

Page(rows, order, limit, offset) ==
    {k \in rows : Rank(k, rows, order) \in offset..(offset + limit - 1)}

\* run_query clamps the limit; handle_get sends it as it is.
Clamp(limit) == IF limit < 1 THEN 1 ELSE IF limit > MaxPage THEN MaxPage ELSE limit

HandleGet(w, order, limit, offset) == Page(Where(w, {}), order, limit, offset)
RunQuery(w, order, limit, offset) == Page(Where(w, {}), order, Clamp(limit), offset)

StartWalk(w, order, limit, api) ==
    /\ Answers # {}
    /\ walk.pc = "idle"
    /\ walk' = Walk("walking", w, order, limit, api, Where(w, {}))
    /\ lost' = FALSE
    /\ UNCHANGED <<row, reached, writes>>

\* The client advances by what it received and stops at an empty page.
ReadPage ==
    /\ walk.pc = "walking"
    /\ LET page == IF walk.api = "rest" THEN HandleGet(walk.ws, walk.order, walk.limit, walk.offset)
                   ELSE RunQuery(walk.ws, walk.order, walk.limit, walk.offset)
       IN walk' = [walk EXCEPT !.got = @ \cup page, !.offset = @ + Cardinality(page),
                               !.pc = IF page = {} THEN "ended" ELSE "walking"]
    /\ UNCHANGED <<row, lost, reached, writes>>

Next ==
    \/ \E k \in Keys, param \in {"none"} \cup Workspaces, body \in {"none"} \cup Workspaces,
          v \in {Null} \cup Values : HandlePost(k, param, body, v)
    \/ \E w \in Workspaces, fs \in FilterSets \cup Narrow, v \in {Null} \cup Values : HandlePatch(w, fs, v)
    \/ \E w \in Workspaces, fs \in FilterSets \cup Narrow : HandleDelete(w, fs)
    \/ \E w \in Workspaces, order \in {"asc", "desc"}, limit \in 1..(MaxPage + 1), api \in {"rest", "graphql"} :
          StartWalk(w, order, limit, api)
    \/ ReadPage

Spec == Init /\ [][Next]_vars

-----------------------------------------------------------------------------
TypeOK ==
    /\ row \in [Keys -> {Absent} \cup [ws : Workspaces, val : {0} \cup Values]]
    /\ walk.pc \in {"idle", "walking", "ended"}

(* A PATCH or DELETE changes rows of the workspace it names only, whatever *)
(* its filters select: the workspace predicate is ANDed with all of them.  *)
WritesStayInWorkspace ==
    [][\A k \in Keys : row'[k] # row[k] /\ row[k] # Absent => row[k].ws \in reached']_row

(* A walk over the pages of GET or GraphQL, in either order, while rows    *)
(* are posted and patched, returns every row that was there when it began  *)
(* and still is, unless a row was deleted under it: pages neither skip nor *)
(* end early, also when the page asked for is larger than GraphQL's limit. *)
WalkMissesNothing ==
    walk.pc = "ended" /\ ~lost => walk.begun \cap Where(walk.ws, {}) \subseteq walk.got
=============================================================================
