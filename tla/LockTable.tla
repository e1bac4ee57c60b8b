----------------------------- MODULE LockTable ------------------------------
(***************************************************************************)
(* Leases on rows of the lock table (crates/actant-reliability/src/lock.rs)*)
(* acquire reads the clock, deletes expired rows of the workspace, then    *)
(* inserts its own; UNIQUE (workspace_id, resource_key) decides.           *)
(*                                                                         *)
(* Expiry is compared as RFC 3339 text, and the formatter prints no        *)
(* fraction for a whole second: "…05Z" sorts after "…05.5Z".  Time is      *)
(* counted in half seconds here, the coarsest grain that shows it.         *)
(***************************************************************************)
EXTENDS Naturals, FiniteSets

CONSTANTS
    Resources,    \* resource_key values of one workspace
    Actors,       \* processes that acquire; each holds at most one lease
    LeaseTicks,   \* lease_seconds, in half seconds
    MaxLeases,    \* bound on leases given out before the last acquire
    MaxTime       \* bound on time

VARIABLES
    now,          \* the common clock
    lockRow,      \* per resource: owner, lease number and expires_at, or NoRow
    actor,        \* per actor: statement, resource, clock reading, lease held
    leases        \* leases given out so far, the source of ids

vars == <<now, lockRow, actor, leases>>

NoRow == [owner |-> "nobody", id |-> 0, until |-> 0]
Halves == 2
Resting == [pc |-> "idle", key |-> "none", read |-> 0, id |-> 0, until |-> 0]

Init ==
    /\ now = 0
    /\ lockRow = [k \in Resources |-> NoRow]
    /\ actor = [a \in Actors |-> Resting]
    /\ leases = 0

\* Order of the texts of two times.
TextBefore(s, t) ==
    \/ s \div Halves < t \div Halves
    \/ s \div Halves = t \div Halves /\ s % Halves > t % Halves

Tick ==
    /\ now < MaxTime
    /\ now' = now + 1
    /\ UNCHANGED <<lockRow, actor, leases>>

\* acquire up to the first statement: the clock is read once, before it.
Acquire(a, k) ==
    /\ actor[a].pc = "idle" /\ leases < MaxLeases
    /\ actor' = [actor EXCEPT ![a] = [Resting EXCEPT !.pc = "delete", !.key = k, !.read = now]]
    /\ UNCHANGED <<now, lockRow, leases>>

\* Fault: rows are deleted a whole second early.
DeletesEarly(a) ==
    /\ actor[a].pc = "delete"
    /\ lockRow' = [k \in Resources |->
          IF lockRow[k] # NoRow /\ lockRow[k].until <= actor[a].read + Halves THEN NoRow ELSE lockRow[k]]
    /\ actor' = [actor EXCEPT ![a].pc = "insert"]
    /\ UNCHANGED <<now, leases>>

\* DELETE ... WHERE expires_at < now, for every resource of the workspace.
DeleteExpired(a) ==
    /\ actor[a].pc = "delete"
    /\ lockRow' = [k \in Resources |->
          IF lockRow[k] # NoRow /\ TextBefore(lockRow[k].until, actor[a].read) THEN NoRow ELSE lockRow[k]]
    /\ actor' = [actor EXCEPT ![a].pc = "insert"]
    /\ UNCHANGED <<now, leases>>

\* Any error of the INSERT is None; the unique key is the usual one.
Insert(a) ==
    /\ actor[a].pc = "insert"
    /\ LET k == actor[a].key
           until == actor[a].read + LeaseTicks
       IN  \/ /\ lockRow[k] = NoRow
              /\ lockRow' = [lockRow EXCEPT ![k] = [owner |-> a, id |-> leases + 1, until |-> until]]
              /\ actor' = [actor EXCEPT ![a].pc = "held", ![a].id = leases + 1, ![a].until = until]
              /\ leases' = leases + 1
           \/ /\ lockRow[k] # NoRow
              /\ actor' = [actor EXCEPT ![a] = Resting]
              /\ UNCHANGED <<lockRow, leases>>
    /\ UNCHANGED now

\* Fault: release deletes by resource.
ReleasesByKey(a) ==
    /\ actor[a].pc = "held"
    /\ lockRow' = [lockRow EXCEPT ![actor[a].key] = NoRow]
    /\ actor' = [actor EXCEPT ![a] = Resting]
    /\ UNCHANGED <<now, leases>>

\* release deletes by lease id, so a late one removes nothing.
Release(a) ==
    /\ actor[a].pc = "held"
    /\ lockRow' = [k \in Resources |-> IF lockRow[k].id = actor[a].id THEN NoRow ELSE lockRow[k]]
    /\ actor' = [actor EXCEPT ![a] = Resting]
    /\ UNCHANGED <<now, leases>>

\* The process ends: the row stays until it expires.
Crash(a) ==
    /\ actor[a].pc # "idle"
    /\ actor' = [actor EXCEPT ![a] = Resting]
    /\ UNCHANGED <<now, lockRow, leases>>

Next ==
    \/ Tick
    \/ \E a \in Actors, k \in Resources : Acquire(a, k)
    \/ \E a \in Actors : DeleteExpired(a) \/ Insert(a) \/ Release(a) \/ Crash(a)

Spec == Init /\ [][Next]_vars

-----------------------------------------------------------------------------
TypeOK ==
    /\ now \in 0..MaxTime
    /\ leases \in Nat
    /\ \A k \in Resources : lockRow[k] = NoRow \/ lockRow[k].owner \in Actors
    /\ \A a \in Actors : actor[a].pc \in {"idle", "delete", "insert", "held"}

Valid(a) == actor[a].pc = "held" /\ now <= actor[a].until

(* Two actors hold valid leases on a resource only within the second in
   which the older one ends: a holder keeps the lock for its lease, through
   other actors' deletes, failed inserts, crashes and late releases, except
   for the part of a second the text order gives away.                     *)
OneHolder ==
    \A a, b \in Actors :
        (a # b /\ Valid(a) /\ Valid(b) /\ actor[a].key = actor[b].key /\ actor[a].id < actor[b].id)
            => actor[a].until \div Halves <= now \div Halves

\* A row is a grant of the abstract lease, and a held Lease its ticket.
Grants == [k \in Resources |->
    [user |-> lockRow[k].owner, number |-> lockRow[k].id, until |-> lockRow[k].until]]
Tickets == [a \in Actors |->
    IF actor[a].pc = "held" THEN [thing |-> actor[a].key, number |-> actor[a].id]
    ELSE [thing |-> "none", number |-> 0]]

Granted == INSTANCE Lease WITH
    Things <- Resources, Users <- Actors, TicksPerSecond <- Halves,
    MaxTicket <- MaxLeases + Cardinality(Actors), MaxTime <- MaxTime + LeaseTicks, time <- now,
    grant <- Grants, ticket <- Tickets

(* The table implements the abstract lease: every INSERT gives a free
   resource, DELETE of expired rows takes only what has lapsed, and a release
   by id takes away no grant but its own.                                  *)
ImplementsLease == Granted!Spec
=============================================================================
