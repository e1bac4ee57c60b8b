----------------------------- MODULE Chronicle -----------------------------
(***************************************************************************)
(* The hash-chained event ledger (table agent_event) and the three code    *)
(* paths that append to it:                                                *)
(*                                                                         *)
(*   engine   Engine::append_chronicle (actant-command), session-scoped    *)
(*            or workspace-scoped;                                         *)
(*   server   append_chronicle_event (actant-server), workspace-scoped;    *)
(*   trigger  spawn_workflow_run (actant-trigger), workspace-scoped.       *)
(*                                                                         *)
(* Each reads the hash of the last event of its scope, builds the event    *)
(* and inserts it in a later statement, outside any transaction.  The      *)
(* first two stamp created_at after the read, the trigger before it.       *)
(* "Last" means last by ORDER BY created_at DESC, id DESC.  In SQLite      *)
(* created_at is RFC 3339 text, and the formatter drops trailing zeros of  *)
(* the fraction, so ".5Z" sorts after ".50001Z": SortKey.                  *)
(***************************************************************************)
EXTENDS Integers, Sequences, FiniteSets

CONSTANTS
    Writers,        \* tasks that append events
    Sessions,       \* the sessions of the one workspace modelled
    NoSession,      \* session_id IS NULL: a workspace-scoped event
    Kinds,          \* which of "engine", "server", "trigger" run
    FractionSteps,  \* clock steps per digit that trimming can drop; 0: no text
    MaxTime,        \* bound: the wall clock runs over 0..MaxTime
    ClockBack,      \* TRUE when the wall clock may be stepped back
    FineClock,      \* TRUE when no two stamps are equal
    MaxEvents       \* bound: events appended in one behaviour

ASSUME ScopeAssumption == NoSession \notin Sessions
ASSUME BoundsAssumption ==
    /\ FractionSteps \in Nat /\ MaxTime \in Nat /\ MaxEvents \in Nat
    /\ ClockBack \in BOOLEAN /\ FineClock \in BOOLEAN
    /\ Kinds \subseteq {"engine", "server", "trigger"}

VARIABLES
    events,     \* agent_event rows, in insertion order
    now,        \* the wall clock
    pc,         \* per writer: the statement it is about to run
    kind,       \* per writer: the code path
    session,    \* per writer: session_id of the event it appends
    prev,       \* per writer: the hash it read
    readAt,     \* per writer: how many rows were there when it read
    created_at  \* per writer: the timestamp of its event

writer == <<pc, kind, session, prev, readAt, created_at>>
vars == <<events, now, writer>>

Ids == 1..MaxEvents

\* Fault: the first event follows the hash of a row 0 that no table holds.
HashOfRowZero == <<0>>

\* "0".repeat(64), the hash before the first event.
ZeroHash == <<>>

\* chain_hash(prev, payload_hash): distinct for distinct chains of payloads.
\* The payload names the row the event is about, so the event's own id
\* stands for it.
chain_hash(p, id) == Append(p, id)

\* How created_at compares in ORDER BY: as time, except that in SQLite a
\* stamp whose last digit is zero loses it and then sorts after every longer
\* text with the same prefix ("Z" is greater than any digit).
SortKey(t) ==
    IF FractionSteps > 0 /\ t % FractionSteps = 0
    THEN 2 * (t + FractionSteps) - 1
    ELSE 2 * t

\* Row i comes before row j in ORDER BY created_at DESC, id DESC.
SortsAfter(i, j) ==
    LET a == events[i]
        b == events[j]
    IN  \/ SortKey(a.created_at) > SortKey(b.created_at)
        \/ SortKey(a.created_at) = SortKey(b.created_at) /\ a.id > b.id

\* Fault: the session filter is missing from the query.
WholeWorkspace(s) == 1..Len(events)

\* The rows last_event_hash(workspace, s) looks at: with a session only that
\* session's, without one every row of the workspace.
Scope(s) == {i \in 1..Len(events) : s = NoSession \/ events[i].session = s}

\* Fault: ORDER BY created_at ASC.
IsFirst(s, i) == i \in Scope(s) /\ \A k \in Scope(s) : k # i => SortsAfter(k, i)

\* Row i is the one LIMIT 1 returns.
IsLast(s, i) == i \in Scope(s) /\ \A k \in Scope(s) : k # i => SortsAfter(i, k)

-----------------------------------------------------------------------------

Init ==
    /\ events = <<>>
    /\ now = 0
    /\ pc = [w \in Writers |-> "idle"]
    /\ kind = [w \in Writers |-> "engine"]
    /\ session = [w \in Writers |-> NoSession]
    /\ prev = [w \in Writers |-> ZeroHash]
    /\ readAt = [w \in Writers |-> 0]
    /\ created_at = [w \in Writers |-> 0]

\* The clock has moved since the last stamp, when it is fine enough to.
ClockReads == FineClock => \A i \in 1..Len(events) : events[i].created_at # now

Begin(w, k, s) ==
    /\ pc[w] = "idle"
    /\ Len(events) + Cardinality({v \in Writers : pc[v] # "idle"}) < MaxEvents
    /\ kind' = [kind EXCEPT ![w] = k]
    /\ session' = [session EXCEPT ![w] = s]
    /\ UNCHANGED <<events, now, prev, readAt>>

\* append_chronicle is called for an event of a session or of the workspace.
BeginEngine(w, s) ==
    /\ Begin(w, "engine", s)
    /\ pc' = [pc EXCEPT ![w] = "read"]
    /\ UNCHANGED created_at

\* append_chronicle_event.
BeginServer(w) ==
    /\ Begin(w, "server", NoSession)
    /\ pc' = [pc EXCEPT ![w] = "read"]
    /\ UNCHANGED created_at

\* spawn_workflow_run takes its timestamp before it reads the chain.
BeginTrigger(w) ==
    /\ Begin(w, "trigger", NoSession)
    /\ ClockReads
    /\ created_at' = [created_at EXCEPT ![w] = now]
    /\ pc' = [pc EXCEPT ![w] = "read"]

\* What last_event_hash returns to writer w.
last_event_hash(s, h) ==
    \/ Scope(s) = {} /\ h = ZeroHash
    \/ \E i \in Scope(s) : IsLast(s, i) /\ h = events[i].hash

\* SELECT event_hash ... LIMIT 1, or the zero hash.
ReadPrev(w) ==
    /\ pc[w] = "read"
    /\ \E h \in {ZeroHash} \cup {events[i].hash : i \in 1..Len(events)} :
          /\ last_event_hash(session[w], h)
          /\ prev' = [prev EXCEPT ![w] = h]
    /\ readAt' = [readAt EXCEPT ![w] = Len(events)]
    /\ pc' = [pc EXCEPT ![w] = IF kind[w] = "trigger" THEN "insert" ELSE "stamp"]
    /\ UNCHANGED <<events, now, kind, session, created_at>>

\* created_at: now_rfc3339() while the event is built.
Stamp(w) ==
    /\ pc[w] = "stamp"
    /\ ClockReads
    /\ created_at' = [created_at EXCEPT ![w] = now]
    /\ pc' = [pc EXCEPT ![w] = "insert"]
    /\ UNCHANGED <<events, now, kind, session, prev, readAt>>

\* The call returns; its locals are gone.
Return(w) ==
    /\ pc' = [pc EXCEPT ![w] = "idle"]
    /\ kind' = [kind EXCEPT ![w] = "engine"]
    /\ session' = [session EXCEPT ![w] = NoSession]
    /\ prev' = [prev EXCEPT ![w] = ZeroHash]
    /\ readAt' = [readAt EXCEPT ![w] = 0]
    /\ created_at' = [created_at EXCEPT ![w] = 0]

UsedIds == {events[i].id : i \in 1..Len(events)}

\* append_event.  The id is a fresh ULID: among events of one millisecond its
\* order is random, so any unused id may be drawn.
Insert(w, id) ==
    /\ pc[w] = "insert"
    /\ id \notin UsedIds
    /\ events' = Append(events,
                        [id |-> id, session |-> session[w], prev |-> prev[w],
                         hash |-> chain_hash(prev[w], id),
                         created_at |-> created_at[w], seen |-> readAt[w]])
    /\ Return(w)
    /\ UNCHANGED now

\* A statement fails, or the call is dropped before the insert: no row.
Abandon(w) ==
    /\ pc[w] # "idle"
    /\ Return(w)
    /\ UNCHANGED <<events, now>>

Tick ==
    /\ now < MaxTime
    /\ now' = now + 1
    /\ UNCHANGED <<events, writer>>

\* The system clock is set back.
StepBack ==
    /\ ClockBack
    /\ now > 0
    /\ now' = now - 1
    /\ UNCHANGED <<events, writer>>

Next ==
    \/ \E w \in Writers :
          \/ "engine" \in Kinds /\ \E s \in Sessions \cup {NoSession} : BeginEngine(w, s)
          \/ "server" \in Kinds /\ BeginServer(w)
          \/ "trigger" \in Kinds /\ BeginTrigger(w)
          \/ ReadPrev(w)
          \/ Stamp(w)
          \/ \E id \in Ids : Insert(w, id)
          \/ Abandon(w)
    \/ Tick
    \/ StepBack

Spec == Init /\ [][Next]_vars

-----------------------------------------------------------------------------
(* Properties                                                              *)

Hash == Seq(Ids)

Event == [id : Ids, session : Sessions \cup {NoSession}, prev : Hash, hash : Hash,
          created_at : Nat, seen : Nat]

TypeOK ==
    /\ events \in Seq(Event)
    /\ now \in Nat
    /\ pc \in [Writers -> {"idle", "read", "stamp", "insert"}]
    /\ kind \in [Writers -> {"engine", "server", "trigger"}]
    /\ session \in [Writers -> Sessions \cup {NoSession}]
    /\ prev \in [Writers -> Hash]
    /\ readAt \in [Writers -> Nat]
    /\ created_at \in [Writers -> Nat]

\* Every event hashes onto a row that was already in the ledger, in its own
\* scope, when the writer looked; only a writer that found its scope empty
\* starts a chain.  Interleaved writers never link to an event that is not
\* there or is in another session.
LinksExist ==
    \A i \in 1..Len(events) :
        LET e == events[i]
            found == {j \in 1..e.seen : e.session = NoSession \/ events[j].session = e.session}
        IN  /\ e.seen < i
            /\ IF e.prev = ZeroHash
               THEN found = {}
               ELSE \E j \in found : e.prev = events[j].hash

\* Two rows of session s whose order in the query is not their insertion order.
Misordered(s) ==
    \E i, j \in 1..Len(events) :
        /\ i < j
        /\ events[i].session = s /\ events[j].session = s
        /\ SortsAfter(i, j)

\* The chain of a session forks only for one of two reasons: the later writer
\* read before the earlier one inserted, or the timestamps of the session do
\* not sort in insertion order.  Nothing else (other sessions, workspace
\* events, triggers with old timestamps) can fork it.
ForksNeedARace ==
    \A i, j \in 1..Len(events) :
        (/\ i < j
         /\ events[i].session # NoSession
         /\ events[i].session = events[j].session
         /\ events[i].prev = events[j].prev)
        => events[j].seen < i \/ Misordered(events[i].session)

\* The chain of each session is a single line.
SessionChainsAreLines ==
    \A i, j \in 1..Len(events) :
        (i # j /\ events[i].session # NoSession /\ events[i].session = events[j].session)
        => events[i].prev # events[j].prev
=============================================================================
