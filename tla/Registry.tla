------------------------------ MODULE Registry ------------------------------
(***************************************************************************)
(* The rows a SQLite server keeps beside the chronicle                     *)
(* (crates/actant-server/src/lib.rs): seed_if_empty at boot, permissions,  *)
(* entities and entity relations.  Each route is one statement after the   *)
(* checks Gate models; seeding is three, a boot may die between them, and  *)
(* two processes may boot over one file.  Foreign keys are on.             *)
(***************************************************************************)
EXTENDS Naturals, Sequences, FiniteSets

CONSTANTS
    Processes,     \* server processes over the file
    Scopes,        \* ids create_permission may generate
    EntityTypes,   \* type of entity 1, 2, ...: the order they are created in
    RelationTypes,
    Cap,           \* the LIMIT of the listings
    MaxRelations   \* bound on relations

VARIABLES
    workspaceRow,  \* ws_default is there
    actorRow,      \* act_system is there
    boot,          \* per process: next statement of seed_if_empty
    crashed,       \* history: processes that died while seeding
    scope,         \* authority_scope: "absent", "granted" or "revoked"
    entities,      \* number of entity rows
    relation,      \* entity_relation rows in id order
    answer         \* the query just served and what it returned

vars == <<workspaceRow, actorRow, boot, crashed, scope, entities, relation, answer>>

AnyType == "any"
Entity == 1..Len(EntityTypes)
NoAnswer == [of |-> "nothing"]

Init ==
    /\ workspaceRow = FALSE /\ actorRow = FALSE
    /\ boot = [p \in Processes |-> "off"]
    /\ crashed = {}
    /\ scope = [a \in Scopes |-> "absent"]
    /\ entities = 0
    /\ relation = <<>>
    /\ answer = NoAnswer

Serving == \E p \in Processes : boot[p] = "serving"

-----------------------------------------------------------------------------
(* seed_if_empty: COUNT, INSERT workspace, INSERT actor.                   *)

SeedCounts(p) ==
    /\ boot[p] = "off"
    /\ boot' = [boot EXCEPT ![p] = IF workspaceRow THEN "serving" ELSE "workspace"]
    /\ answer' = NoAnswer
    /\ UNCHANGED <<workspaceRow, actorRow, crashed, scope, entities, relation>>

\* Fault: the workspace is the last thing seeded.
SeedsWorkspaceOnly(p) ==
    /\ boot[p] = "workspace"
    /\ workspaceRow' = TRUE
    /\ boot' = [boot EXCEPT ![p] = IF workspaceRow THEN "failed" ELSE "serving"]
    /\ answer' = NoAnswer
    /\ UNCHANGED <<actorRow, crashed, scope, entities, relation>>

\* The second process to insert the primary key fails its bootstrap.
SeedWorkspace(p) ==
    /\ boot[p] = "workspace"
    /\ workspaceRow' = TRUE
    /\ boot' = [boot EXCEPT ![p] = IF workspaceRow THEN "failed" ELSE "actor"]
    /\ answer' = NoAnswer
    /\ UNCHANGED <<actorRow, crashed, scope, entities, relation>>

SeedActor(p) ==
    /\ boot[p] = "actor"
    /\ actorRow' = TRUE
    /\ boot' = [boot EXCEPT ![p] = "serving"]
    /\ answer' = NoAnswer
    /\ UNCHANGED <<workspaceRow, crashed, scope, entities, relation>>

Crash(p) ==
    /\ boot[p] \in {"workspace", "actor"}
    /\ boot' = [boot EXCEPT ![p] = "off"]
    /\ crashed' = crashed \cup {p}
    /\ answer' = NoAnswer
    /\ UNCHANGED <<workspaceRow, actorRow, scope, entities, relation>>

-----------------------------------------------------------------------------
(* /v1/permissions                                                         *)

CreatePermission(a) ==
    /\ Serving /\ actorRow
    /\ scope[a] = "absent"
    /\ scope' = [scope EXCEPT ![a] = "granted"]
    /\ answer' = NoAnswer
    /\ UNCHANGED <<workspaceRow, actorRow, boot, crashed, entities, relation>>

\* Fault: the update flips the row, so that a second revocation restores it.
Toggles(a) ==
    /\ Serving
    /\ scope[a] # "absent"
    /\ scope' = [scope EXCEPT ![a] = IF @ = "granted" THEN "revoked" ELSE "granted"]
    /\ answer' = NoAnswer
    /\ UNCHANGED <<workspaceRow, actorRow, boot, crashed, entities, relation>>

\* A second revocation only moves revoked_at.
RevokePermission(a) ==
    /\ Serving
    /\ scope[a] # "absent"
    /\ scope' = [scope EXCEPT ![a] = "revoked"]
    /\ answer' = NoAnswer
    /\ UNCHANGED <<workspaceRow, actorRow, boot, crashed, entities, relation>>

ListPermissions == {a \in Scopes : scope[a] = "granted"}

-----------------------------------------------------------------------------
(* /v1/entities and /v1/entities/relations                                 *)

CreateEntity ==
    /\ Serving
    /\ entities < Len(EntityTypes)
    /\ entities' = entities + 1
    /\ answer' = NoAnswer
    /\ UNCHANGED <<workspaceRow, actorRow, boot, crashed, scope, relation>>

CreateEntityRelation(from, type, to) ==
    /\ Serving
    /\ from <= entities /\ to <= entities
    /\ Len(relation) < MaxRelations
    /\ relation' = Append(relation, [from |-> from, type |-> type, to |-> to])
    /\ answer' = NoAnswer
    /\ UNCHANGED <<workspaceRow, actorRow, boot, crashed, scope, entities>>

\* ORDER BY id (or created_at) DESC LIMIT: the n-th row shown has all but n of the
\* rows below it.
Newest(ids) ==
    LET all == Cardinality(ids)
    IN  [n \in 1..(IF all < Cap THEN all ELSE Cap) |->
            CHOOSE i \in ids : Cardinality({j \in ids : j < i}) = all - n]

\* Fault: the limit is taken before the type is looked at.
CapsFirst(type) ==
    {e \in 1..entities : /\ type \in {AnyType, EntityTypes[e]}
                         /\ \E n \in DOMAIN Newest(1..entities) : Newest(1..entities)[n] = e}

EntityQuery(type) == {e \in 1..entities : type \in {AnyType, EntityTypes[e]}}

ListEntities(type) ==
    /\ Serving
    /\ answer' = [of |-> "entities", entity |-> 0, type |-> type, rows |-> Newest(EntityQuery(type))]
    /\ UNCHANGED <<workspaceRow, actorRow, boot, crashed, scope, entities, relation>>

Touches(i, e) == relation[i].from = e \/ relation[i].to = e

\* Fault: the query on an entity looks at the source only.
FromOnly(e, type) ==
    {i \in DOMAIN relation :
        CASE e # 0 /\ type # AnyType -> relation[i].type = type /\ relation[i].from = e
          [] e # 0 /\ type = AnyType -> relation[i].from = e
          [] e = 0 /\ type # AnyType -> relation[i].type = type
          [] OTHER -> TRUE}

\* The four queries of list_entity_relations.
RelationQuery(e, type) ==
    {i \in DOMAIN relation :
        CASE e # 0 /\ type # AnyType -> relation[i].type = type /\ Touches(i, e)
          [] e # 0 /\ type = AnyType -> Touches(i, e)
          [] e = 0 /\ type # AnyType -> relation[i].type = type
          [] OTHER -> TRUE}

ListEntityRelations(e, type) ==
    /\ Serving
    /\ answer' = [of |-> "relations", entity |-> e, type |-> type, rows |-> Newest(RelationQuery(e, type))]
    /\ UNCHANGED <<workspaceRow, actorRow, boot, crashed, scope, entities, relation>>

Next ==
    \/ \E p \in Processes : SeedCounts(p) \/ SeedWorkspace(p) \/ SeedActor(p) \/ Crash(p)
    \/ \E a \in Scopes : CreatePermission(a) \/ RevokePermission(a)
    \/ CreateEntity
    \/ \E type \in {AnyType} \cup {EntityTypes[e] : e \in Entity} : ListEntities(type)
    \/ \E from, to \in Entity, type \in RelationTypes : CreateEntityRelation(from, type, to)
    \/ \E e \in {0} \cup Entity, type \in {AnyType} \cup RelationTypes :
          ListEntityRelations(e, type)

Spec == Init /\ [][Next]_vars

-----------------------------------------------------------------------------
TypeOK ==
    /\ workspaceRow \in BOOLEAN /\ actorRow \in BOOLEAN
    /\ boot \in [Processes -> {"off", "workspace", "actor", "serving", "failed"}]
    /\ scope \in [Scopes -> {"absent", "granted", "revoked"}]
    /\ entities \in 0..Len(EntityTypes)

(* seed_if_empty gives the workspace its system actor unless a process     *)
(* died between the two inserts: once nobody is seeding, ws_default is     *)
(* never without act_system, however two boots over one file interleave.   *)
SeedingIsWhole ==
    /\ crashed = {}
    /\ \A p \in Processes : boot[p] \notin {"workspace", "actor"}
    /\ workspaceRow
    => actorRow

(* A revoked permission is not granted again by any later request.         *)
RevocationIsFinal ==
    [][\A a \in Scopes : scope[a] = "revoked" => a \notin ListPermissions']_scope

\* What is wanted is shown newest first, and left out only behind a full page
\* of newer rows.
ShowsNewest(rows, wanted) ==
    /\ \A n \in DOMAIN rows : rows[n] \in wanted
    /\ \A m, n \in DOMAIN rows : m < n => rows[m] > rows[n]
    /\ \A i \in wanted :
          \/ \E n \in DOMAIN rows : rows[n] = i
          \/ Len(rows) = Cap /\ \A n \in DOMAIN rows : rows[n] > i

(* A type filter narrows what list_entities may show and not the limit:    *)
(* it hides an entity of the type only behind a full page of newer ones.   *)
EntityListingIsFull ==
    answer.of = "entities" =>
        ShowsNewest(answer.rows, {e \in 1..entities : answer.type \in {AnyType, EntityTypes[e]}})

(* The four queries behind list_entity_relations answer one question: the  *)
(* newest rows, up to the limit, that touch the entity if one is named and *)
(* have the type if one is named.                                          *)
RelationListingIsExact ==
    answer.of = "relations" =>
        ShowsNewest(answer.rows,
            {i \in DOMAIN relation :
                /\ answer.entity # 0 => answer.entity \in {relation[i].from, relation[i].to}
                /\ answer.type # AnyType => answer.type = relation[i].type})
=============================================================================
