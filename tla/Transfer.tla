------------------------------ MODULE Transfer ------------------------------
(***************************************************************************)
(* actantdb export and import (crates/actant-cli/src/cmd/export_import.rs):*)
(* export reads one session or all of agent_event in id order and writes   *)
(* one line per event, secrets redacted; import reads the whole file,      *)
(* refuses it if the target has events of one of its sessions, and then    *)
(* inserts line by line, each its own transaction.  Foreign keys are on:   *)
(* the session and the parent of an event have to be in the target.        *)
(***************************************************************************)
EXTENDS Naturals

CONSTANTS
    Events,      \* events of the source database: id, session, parent, secret
    Sessions,    \* sessions; an event may have none
    Importers,   \* processes that import into the target
    MaxLive,     \* bound on events the target's own agents append
    MaxId        \* greatest id of the source; the target's own are above it

VARIABLES
    file,        \* the export: events as written, a line each in order of id; or empty
    known,       \* sessions the target has rows for
    target,      \* events of the target database, with the origin of each
    imp,         \* per importer: place, records, sessions to check, lines left
    live,        \* events appended by the target's own agents
    mixed,       \* history: sessions with own events that an import added to
    raced        \* history: sessions appended to while they were imported

vars == <<file, known, target, imp, live, mixed, raced>>

NoSession == "none"
Idle == [pc |-> "idle", records |-> {}, sessions |-> {}, left |-> {}]

Init ==
    /\ file = {}
    /\ known \in SUBSET Sessions
    /\ target = {}
    /\ imp = [i \in Importers |-> Idle]
    /\ live = 0 /\ mixed = {} /\ raced = {}

-----------------------------------------------------------------------------
(* run_export.                                                             *)

\* Fault: the hash of a redacted payload is that of the marker.
Rehashed(e) == [id |-> e.id, session |-> e.session, parent |-> e.parent, secret |-> e.secret,
                payload |-> IF e.secret THEN 0 ELSE e.id, hash |-> IF e.secret THEN 0 ELSE e.id]

\* The payload goes, its hash stays.
RowToJson(e) == [id |-> e.id, session |-> e.session, parent |-> e.parent, secret |-> e.secret,
                 payload |-> IF e.secret THEN 0 ELSE e.id, hash |-> e.id]

RunExport(sessions) ==
    /\ file' = {RowToJson(e) : e \in {f \in Events : f.session \in sessions}}
    /\ UNCHANGED <<known, target, imp, live, mixed, raced>>

-----------------------------------------------------------------------------
(* run_import.                                                             *)

ReadRecords(i) ==
    /\ imp[i].pc \in {"idle", "refused", "failed"} /\ file # {}
    /\ imp' = [imp EXCEPT ![i] = [pc |-> "check", records |-> file, left |-> file,
          sessions |-> {r.session : r \in file} \ {NoSession}]]
    /\ UNCHANGED <<file, known, target, live, mixed, raced>>

OwnEvents(s) == \E e \in target : e.session = s /\ e.id > MaxId
HasEvents(s) == \E e \in target : e.session = s

\* Fault: one session of the file stands for all.
ChecksOne(i) ==
    /\ imp[i].pc = "check"
    /\ IF \A s \in imp[i].sessions : HasEvents(s) /\ imp[i].sessions # {}
       THEN \E s \in Sessions : HasEvents(s) /\ imp' = [imp EXCEPT ![i] = [Idle EXCEPT !.pc = "refused"]]
       ELSE imp' = [imp EXCEPT ![i].pc = "insert", ![i].sessions = {}]
    /\ UNCHANGED <<file, known, target, live, mixed, raced>>

CheckSession(i) ==
    /\ imp[i].pc = "check"
    /\ \/ /\ imp[i].sessions = {}
          /\ imp' = [imp EXCEPT ![i].pc = "insert"]
       \/ \E s \in imp[i].sessions :
          imp' = IF HasEvents(s) THEN [imp EXCEPT ![i] = [Idle EXCEPT !.pc = "refused"]]
                 ELSE [imp EXCEPT ![i].sessions = @ \ {s}]
    /\ UNCHANGED <<file, known, target, live, mixed, raced>>

Present(id) == \E e \in target : e.id = id
Admits(r) ==
    /\ r.session \in known \cup {NoSession}
    /\ r.parent # 0 => Present(r.parent)

\* The line that comes next.
IsNext(i, r) == r \in imp[i].left /\ \A q \in imp[i].left : r.id <= q.id

\* Fault: OR IGNORE taken to cover the foreign keys.
IgnoresAll(i) ==
    /\ imp[i].pc = "insert"
    /\ \/ /\ imp[i].left = {}
          /\ imp' = [imp EXCEPT ![i].pc = "done"]
          /\ UNCHANGED <<target, mixed>>
       \/ \E r \in imp[i].left :
          /\ IsNext(i, r)
          /\ target' = IF Present(r.id) \/ ~Admits(r) THEN target ELSE target \cup {r}
          /\ imp' = [imp EXCEPT ![i].left = @ \ {r}]
          /\ mixed' = IF Present(r.id) \/ ~OwnEvents(r.session) THEN mixed ELSE mixed \cup {r.session}
    /\ UNCHANGED <<file, known, live, raced>>

\* A line whose id is there is ignored; a missing reference ends the import.
InsertRecord(i) ==
    /\ imp[i].pc = "insert"
    /\ \/ /\ imp[i].left = {}
          /\ imp' = [imp EXCEPT ![i].pc = "done"]
          /\ UNCHANGED <<target, mixed>>
       \/ \E r \in imp[i].left :
          /\ IsNext(i, r)
          /\ IF Present(r.id) \/ Admits(r)
             THEN /\ target' = IF Present(r.id) THEN target ELSE target \cup {r}
                  /\ imp' = [imp EXCEPT ![i].left = @ \ {r}]
                  /\ mixed' = IF Present(r.id) \/ ~OwnEvents(r.session) THEN mixed
                              ELSE mixed \cup {r.session}
             ELSE /\ imp' = [imp EXCEPT ![i] = [Idle EXCEPT !.pc = "failed"]]
                  /\ UNCHANGED <<target, mixed>>
    /\ UNCHANGED <<file, known, live, raced>>

Kill(i) ==
    /\ imp[i].pc \in {"check", "insert"}
    /\ imp' = [imp EXCEPT ![i] = Idle]
    /\ UNCHANGED <<file, known, target, live, mixed, raced>>

-----------------------------------------------------------------------------
(* The target's own agents: ids and payloads of their own.                 *)

OpenSession(s) ==
    /\ s \notin known
    /\ known' = known \cup {s}
    /\ UNCHANGED <<file, target, imp, live, mixed, raced>>

Importing(s) == \E i \in Importers : imp[i].pc \in {"check", "insert"}
                    /\ \E r \in imp[i].records : r.session = s

LiveAppend(s) ==
    /\ s \in known /\ live < MaxLive
    /\ live' = live + 1
    /\ target' = target \cup {[id |-> MaxId + live', session |-> s, parent |-> 0, secret |-> FALSE,
                               payload |-> MaxId + live', hash |-> MaxId + live']}
    /\ raced' = IF Importing(s) THEN raced \cup {s} ELSE raced
    /\ UNCHANGED <<file, known, imp, mixed>>

-----------------------------------------------------------------------------
Next ==
    \/ RunExport(Sessions \cup {NoSession})
    \/ \E s \in Sessions : RunExport({s}) \/ OpenSession(s) \/ LiveAppend(s)
    \/ \E i \in Importers : ReadRecords(i) \/ CheckSession(i) \/ InsertRecord(i) \/ Kill(i)

Spec == Init /\ [][Next]_vars

-----------------------------------------------------------------------------
TypeOK ==
    /\ known \subseteq Sessions /\ live \in 0..MaxLive
    /\ \A i \in Importers : imp[i].left \subseteq imp[i].records

(* "imported n rows" is printed only when every line of the file is in the
   target, its session and parent too.                                     *)
DoneIsComplete ==
    \A i \in Importers : imp[i].pc = "done" =>
        \A r \in imp[i].records :
            Present(r.id) /\ r.session \in known \cup {NoSession} /\ (r.parent # 0 => Present(r.parent))

(* What went through export and import still shows where it was changed: a
   payload that does not fit its hash belongs to an event marked secret, and
   every secret one fails that test.                                       *)
RedactionShows ==
    \A e \in target : e.secret <=> e.payload # e.hash

(* Imported events are not added to a session the target's own agents have
   written to: only one they write to between the check and the insert.    *)
SessionsAreNotMixed ==
    mixed \subseteq raced
=============================================================================
