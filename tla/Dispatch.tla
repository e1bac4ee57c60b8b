------------------------------ MODULE Dispatch ------------------------------
(***************************************************************************)
(* Engine::dispatch (crates/actant-command/src/lib.rs) and the commands    *)
(* that write one row: create_session and the two append_*_message.        *)
(*                                                                         *)
(* A request runs one SQL statement per step, with no transaction around   *)
(* them; requests of one workspace interleave between any two statements.  *)
(* Where Faults is TRUE, any statement may fail (`?` returns the error)    *)
(* and the server may drop a request between two statements.               *)
(***************************************************************************)
EXTENDS Naturals, FiniteSets

CONSTANTS
    Requests,   \* calls of dispatch; a retry is another request
    Jobs,       \* what a request may ask for
    Keys,       \* idempotency keys
    NoKey,      \* the caller gave no key
    Actors,     \* actor ids
    NoActor,    \* create_session without agent_actor_id
    Sessions,   \* session ids named by the callers
    NoCommand,  \* no command id
    Faults      \* TRUE when statements may fail and requests be dropped

CommandTypes == {"create_session", "append_message", "invalid"}

ASSUME JobsAssumption ==
    Jobs \subseteq [type : CommandTypes, key : Keys \cup {NoKey}, actor : Actors,
                    agent : Actors \cup {NoActor}, session : Sessions]
ASSUME DistinctAssumption ==
    NoKey \notin Keys /\ NoActor \notin Actors /\ NoCommand \notin Requests
    /\ Faults \in BOOLEAN

VARIABLES
    workspace,          \* the workspace row exists
    actor,              \* actor rows
    session,            \* session rows
    message,            \* requests whose message row was inserted
    command_record,     \* requests whose command_record row was inserted
    agent_event,        \* requests whose event was appended
    idempotency_record, \* per key: result_ref, or NoCommand
    pc,                 \* per request: the statement it is about to run
    job,                \* per request: its arguments
    reply,              \* per request: "none", "ok", "replay" or "error"
    replied,            \* per request: the command id it was answered with
    lost,               \* history: requests whose idempotency insert failed
    peers               \* history: per request, the requests under way when
                        \* it found no idempotency record

tables == <<workspace, actor, session, message, command_record, agent_event,
            idempotency_record>>
vars == <<tables, pc, job, reply, replied, lost, peers>>

\* Everything but the program counter, for steps that only read.
OnlyReads == UNCHANGED <<tables, job, reply, replied, lost, peers>>

Goto(r, next) == pc' = [pc EXCEPT ![r] = next]

\* The call returns.
Answer(r, status, command) ==
    /\ Goto(r, "done")
    /\ reply' = [reply EXCEPT ![r] = status]
    /\ replied' = [replied EXCEPT ![r] = command]
    /\ UNCHANGED job

-----------------------------------------------------------------------------

Init ==
    /\ workspace = FALSE
    /\ actor = {}
    /\ session = {}
    /\ message = {}
    /\ command_record = {}
    /\ agent_event = {}
    /\ idempotency_record = [k \in Keys |-> NoCommand]
    /\ pc = [r \in Requests |-> "idle"]
    /\ job \in [Requests -> Jobs]
    /\ reply = [r \in Requests |-> "none"]
    /\ replied = [r \in Requests |-> NoCommand]
    /\ lost = {}
    /\ peers = [r \in Requests |-> {}]

\* A request arrives.
Arrive(r) == pc[r] = "idle" /\ Goto(r, "get_workspace") /\ OnlyReads

GetWorkspace(r) ==
    /\ pc[r] = "get_workspace"
    /\ Goto(r, IF workspace THEN "get_actor" ELSE "insert_workspace")
    /\ OnlyReads

\* A second insert of the same id fails on the primary key.
InsertWorkspace(r) ==
    /\ pc[r] = "insert_workspace"
    /\ IF workspace
       THEN Answer(r, "error", NoCommand) /\ UNCHANGED workspace
       ELSE Goto(r, "get_actor") /\ workspace' = TRUE /\ UNCHANGED <<job, reply, replied>>
    /\ UNCHANGED <<actor, session, message, command_record, agent_event,
                   idempotency_record, lost, peers>>

GetActor(r) ==
    /\ pc[r] = "get_actor"
    /\ Goto(r, IF job[r].actor \in actor THEN "lookup" ELSE "insert_actor")
    /\ OnlyReads

\* Inserting actor row a, or failing on its primary key.
AddActor(r, a, next) ==
    /\ IF a \in actor
       THEN Answer(r, "error", NoCommand) /\ UNCHANGED actor
       ELSE Goto(r, next) /\ actor' = actor \cup {a} /\ UNCHANGED <<job, reply, replied>>
    /\ UNCHANGED <<workspace, session, message, command_record, agent_event,
                   idempotency_record, lost, peers>>

InsertActor(r) == pc[r] = "insert_actor" /\ AddActor(r, job[r].actor, "lookup")

\* Requests between their idempotency lookup and their answer.
UnderWay == {r \in Requests : pc[r] \in {"insert_command", "get_agent", "insert_agent",
                "session_exists", "insert_session", "insert_message", "append_event",
                "record", "fail"}}

\* Fault: the lookup also compares the actor.
LooksUpOwn(r) ==
    /\ pc[r] = "lookup"
    /\ LET prior == IF job[r].key = NoKey THEN NoCommand ELSE idempotency_record[job[r].key]
       IN  IF prior # NoCommand /\ job[prior].actor = job[r].actor
           THEN Answer(r, "replay", prior) /\ UNCHANGED peers
           ELSE /\ Goto(r, "insert_command")
                /\ peers' = [peers EXCEPT ![r] = UnderWay]
                /\ UNCHANGED <<job, reply, replied>>
    /\ UNCHANGED <<tables, lost>>

\* idempotency_lookup: a recorded key ends the call with the recorded command
\* id, whatever command and input it was recorded for.
Lookup(r) ==
    /\ pc[r] = "lookup"
    /\ LET prior == IF job[r].key = NoKey THEN NoCommand ELSE idempotency_record[job[r].key]
       IN  IF prior # NoCommand
           THEN Answer(r, "replay", prior) /\ UNCHANGED peers
           ELSE /\ Goto(r, "insert_command")
                /\ peers' = [peers EXCEPT ![r] = UnderWay]
                /\ UNCHANGED <<job, reply, replied>>
    /\ UNCHANGED <<tables, lost>>

\* Fault: a session without agent_actor_id still looks its agent up.
AgentByDefault(j) ==
    CASE j.type = "create_session" -> "get_agent"
      [] j.type = "append_message" -> "insert_message"
      [] OTHER -> "fail"

\* Where the match on command_type goes.  An unknown type and an input
\* without a required field both fail after the command row is in.
BodyOf(j) ==
    CASE j.type = "create_session" ->
            IF j.agent = NoActor THEN "session_exists" ELSE "get_agent"
      [] j.type = "append_message" -> "insert_message"
      [] OTHER -> "fail"

\* Fault: the key is recorded together with the command.
RecordsEarly(r) ==
    /\ pc[r] = "insert_command"
    /\ Goto(r, BodyOf(job[r]))
    /\ command_record' = command_record \cup {r}
    /\ idempotency_record' = [k \in Keys |->
          IF k = job[r].key /\ idempotency_record[k] = NoCommand
          THEN r ELSE idempotency_record[k]]
    /\ UNCHANGED <<workspace, actor, session, message, agent_event,
                   job, reply, replied, lost, peers>>

\* insert_command with status received, then the match.
InsertCommand(r) ==
    /\ pc[r] = "insert_command"
    /\ Goto(r, BodyOf(job[r]))
    /\ command_record' = command_record \cup {r}
    /\ UNCHANGED <<workspace, actor, session, message, agent_event,
                   idempotency_record, job, reply, replied, lost, peers>>

Reject(r) ==
    /\ pc[r] = "fail"
    /\ Answer(r, "error", NoCommand)
    /\ UNCHANGED <<tables, lost, peers>>

\* create_session: the agent's actor row.
GetAgent(r) ==
    /\ pc[r] = "get_agent"
    /\ Goto(r, IF job[r].agent \in actor THEN "session_exists" ELSE "insert_agent")
    /\ OnlyReads

InsertAgent(r) == pc[r] = "insert_agent" /\ AddActor(r, job[r].agent, "session_exists")

\* create_session returns without an event when the session is there.
SessionExists(r) ==
    /\ pc[r] = "session_exists"
    /\ Goto(r, IF job[r].session \in session THEN "record" ELSE "insert_session")
    /\ OnlyReads

\* Fault: INSERT OR IGNORE INTO session.
InsertSessionOrIgnore(r) ==
    /\ pc[r] = "insert_session"
    /\ Goto(r, "append_event")
    /\ session' = session \cup {job[r].session}
    /\ UNCHANGED <<workspace, actor, message, command_record, agent_event,
                   idempotency_record, job, reply, replied, lost, peers>>

InsertSession(r) ==
    /\ pc[r] = "insert_session"
    /\ IF job[r].session \in session
       THEN Answer(r, "error", NoCommand) /\ UNCHANGED session
       ELSE /\ Goto(r, "append_event")
            /\ session' = session \cup {job[r].session}
            /\ UNCHANGED <<job, reply, replied>>
    /\ UNCHANGED <<workspace, actor, message, command_record, agent_event,
                   idempotency_record, lost, peers>>

\* append_message: the foreign key refuses a session that is not there.
InsertMessage(r) ==
    /\ pc[r] = "insert_message"
    /\ IF job[r].session \notin session
       THEN Answer(r, "error", NoCommand) /\ UNCHANGED message
       ELSE /\ Goto(r, "append_event")
            /\ message' = message \cup {r}
            /\ UNCHANGED <<job, reply, replied>>
    /\ UNCHANGED <<workspace, actor, session, command_record, agent_event,
                   idempotency_record, lost, peers>>

\* append_chronicle; module Chronicle opens this step up.
AppendEvent(r) ==
    /\ pc[r] = "append_event"
    /\ Goto(r, "record")
    /\ agent_event' = agent_event \cup {r}
    /\ UNCHANGED <<workspace, actor, session, message, command_record,
                   idempotency_record, job, reply, replied, lost, peers>>

\* Fault: INSERT OR REPLACE INTO idempotency_record.
ReplacesRecord(r) ==
    /\ pc[r] = "record"
    /\ Answer(r, "ok", r)
    /\ idempotency_record' = [k \in Keys |->
          IF k = job[r].key THEN r ELSE idempotency_record[k]]
    /\ UNCHANGED <<workspace, actor, session, message, command_record, agent_event,
                   lost, peers>>

\* idempotency_record: INSERT OR IGNORE, when there is a key; then Ok.
Record(r) ==
    /\ pc[r] = "record"
    /\ Answer(r, "ok", r)
    /\ idempotency_record' = [k \in Keys |->
          IF k = job[r].key /\ idempotency_record[k] = NoCommand
          THEN r ELSE idempotency_record[k]]
    /\ UNCHANGED <<workspace, actor, session, message, command_record, agent_event,
                   lost, peers>>

\* The insert fails and `let _ =` drops the error: the caller still gets Ok.
RecordLost(r) ==
    /\ Faults
    /\ pc[r] = "record"
    /\ Answer(r, "ok", r)
    /\ lost' = lost \cup {r}
    /\ UNCHANGED <<tables, peers>>

\* A statement fails, or the server drops the request between two statements.
Abort(r) ==
    /\ Faults
    /\ pc[r] \notin {"idle", "done"}
    /\ Answer(r, "error", NoCommand)
    /\ UNCHANGED <<tables, lost, peers>>

Step(r) ==
    \/ GetWorkspace(r) \/ InsertWorkspace(r) \/ GetActor(r) \/ InsertActor(r)
    \/ Lookup(r) \/ InsertCommand(r) \/ Reject(r)
    \/ GetAgent(r) \/ InsertAgent(r) \/ SessionExists(r) \/ InsertSession(r)
    \/ InsertMessage(r) \/ AppendEvent(r) \/ Record(r) \/ RecordLost(r)

Next == \E r \in Requests : Arrive(r) \/ Step(r) \/ Abort(r)

Spec == Init /\ [][Next]_vars

-----------------------------------------------------------------------------
(* Properties                                                              *)

Pcs == {"idle", "get_workspace", "insert_workspace", "get_actor", "insert_actor",
        "lookup", "insert_command", "fail", "get_agent", "insert_agent",
        "session_exists", "insert_session", "insert_message", "append_event",
        "record", "done"}

TypeOK ==
    /\ workspace \in BOOLEAN
    /\ actor \subseteq Actors
    /\ session \subseteq Sessions
    /\ message \subseteq Requests
    /\ command_record \subseteq Requests
    /\ agent_event \subseteq Requests
    /\ idempotency_record \in [Keys -> Requests \cup {NoCommand}]
    /\ pc \in [Requests -> Pcs]
    /\ job \in [Requests -> Jobs]
    /\ reply \in [Requests -> {"none", "ok", "replay", "error"}]
    /\ replied \in [Requests -> Requests \cup {NoCommand}]
    /\ lost \subseteq Requests
    /\ peers \in [Requests -> SUBSET Requests]

\* The rows a finished command leaves behind.
Done(r) ==
    /\ r \in command_record
    /\ job[r].type = "create_session" => job[r].session \in session
    /\ job[r].type = "append_message" => r \in message /\ r \in agent_event
    /\ job[r].type # "invalid"

\* A key is recorded only for a command that did all its work, so a replay
\* never vouches for a command that failed or was dropped half way.
RecordedIsDone ==
    \A k \in Keys : LET r == idempotency_record[k] IN
        r # NoCommand => Done(r) /\ job[r].key = k /\ reply[r] = "ok"

\* Every replay of a key answers with the same command, the one the record
\* holds now: a late insert of a racing twin never replaces it.
ReplaysAgree ==
    \A r \in Requests :
        reply[r] = "replay" => replied[r] = idempotency_record[job[r].key]

\* Two requests with one key both run only if one found the other under way,
\* or one of them failed or lost its record.  Requests that follow one
\* another without a fault run once.
KeyedRunsOverlap ==
    \A r, q \in command_record :
        (r # q /\ job[r].key = job[q].key /\ job[r].key # NoKey) =>
            \/ r \in peers[q]
            \/ q \in peers[r]
            \/ {r, q} \cap lost # {}
            \/ \E x \in {r, q} : reply[x] = "error"

\* Racing creations of one session append one session_created event.
SessionCreatedOnce ==
    \A r, q \in agent_event :
        (/\ job[r].type = "create_session" /\ job[q].type = "create_session"
         /\ job[r].session = job[q].session)
        => r = q

\* specs/12-glossary.md:81: the key "pairs with `workspace_id` to deduplicate
\* commands": a key posts one message.
KeyRunsOnce ==
    \A r, q \in message :
        (job[r].key = job[q].key /\ job[r].key # NoKey) => r = q
=============================================================================
