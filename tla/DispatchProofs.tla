--------------------------- MODULE DispatchProofs ---------------------------
(***************************************************************************)
(* Theorems about Dispatch, for any number of requests, keys, actors and   *)
(* sessions, with and without faults, and about what stands in front of    *)
(* it: the inbox, the ownership of a workspace, the gate of the routes,    *)
(* the generated routes, the registry and the policy.                      *)
(***************************************************************************)
EXTENDS Dispatch, FiniteSetTheorems, FunctionTheorems, SequenceTheorems, TLAPS

\* The agent statements only run for a create_session that names an agent.
AgentsAreNamed ==
    \A r \in Requests : pc[r] \in {"get_agent", "insert_agent"} => job[r].agent # NoActor

TypeInv == TypeOK /\ AgentsAreNamed

\* How far a request's rows are at each statement.
RowsKeepUp ==
    \A r \in Requests :
        /\ pc[r] \in {"get_agent", "insert_agent", "session_exists", "insert_session"} =>
              r \in command_record /\ job[r].type = "create_session"
        /\ pc[r] = "insert_message" =>
              r \in command_record /\ job[r].type = "append_message"
        /\ pc[r] = "append_event" =>
              /\ r \in command_record
              /\ job[r].type # "invalid"
              /\ job[r].type = "create_session" => job[r].session \in session
              /\ job[r].type = "append_message" => r \in message
        /\ pc[r] = "record" => Done(r)

\* A request is answered exactly when it is done; its command row is there
\* from the insert on, and never for a replay.
AnswersFit ==
    \A r \in Requests :
        /\ reply[r] # "none" <=> pc[r] = "done"
        /\ r \in command_record =>
              \/ r \in UnderWay /\ pc[r] # "insert_command"
              \/ reply[r] \in {"ok", "error"}
        /\ reply[r] = "ok" => r \in command_record

\* A keyed request that was answered Ok left its key recorded, or lost it.
OkIsRecorded ==
    \A r \in Requests :
        (reply[r] = "ok" /\ job[r].key # NoKey) =>
            r \in lost \/ idempotency_record[job[r].key] # NoCommand

\* Only a keyed request is answered with a replay, and it names a command.
ReplaysAreKeyed ==
    \A r \in Requests : reply[r] = "replay" => job[r].key # NoKey /\ replied[r] # NoCommand

\* Two requests under one key that both passed the lookup overlapped.
PassedOverlap ==
    \A r, q \in UnderWay \cup command_record :
        (r # q /\ job[r].key = job[q].key /\ job[r].key # NoKey) =>
            \/ r \in peers[q]
            \/ q \in peers[r]
            \/ {r, q} \cap lost # {}
            \/ \E x \in {r, q} : reply[x] = "error"

\* Requests that inserted their session row.
Creators ==
    {r \in Requests : job[r].type = "create_session"
                      /\ (pc[r] = "append_event" \/ r \in agent_event)}

\* A session row was inserted by at most one request.
OneCreator ==
    /\ \A r \in Creators : job[r].session \in session
    /\ \A r, q \in Creators : job[r].session = job[q].session => r = q

DispatchInv ==
    /\ TypeInv
    /\ RowsKeepUp
    /\ AnswersFit
    /\ OkIsRecorded
    /\ RecordedIsDone
    /\ ReplaysAreKeyed
    /\ ReplaysAgree
    /\ PassedOverlap
    /\ OneCreator

-----------------------------------------------------------------------------

\* The fields of a request's job are what the statements need.
LEMMA JobFields ==
    ASSUME TypeOK
    PROVE  \A r \in Requests :
              /\ job[r].type \in CommandTypes
              /\ job[r].key \in Keys \cup {NoKey}
              /\ job[r].actor \in Actors
              /\ job[r].agent \in Actors \cup {NoActor}
              /\ job[r].session \in Sessions
BY JobsAssumption DEF TypeOK

\* What a lookup finds is a request or nothing.
LEMMA LookupFinds ==
    ASSUME TypeOK, NEW r \in Requests, job[r].key # NoKey
    PROVE  idempotency_record[job[r].key] \in Requests \cup {NoCommand}
BY JobFields DEF TypeOK

\* Every step preserves the types.
LEMMA TypeStep ==
    ASSUME TypeInv, [Next]_vars
    PROVE  TypeInv'
<1> USE DistinctAssumption
<1>F. TypeOK /\ AgentsAreNamed
  BY DEF TypeInv
<1>1. ASSUME NEW r \in Requests, Arrive(r) PROVE TypeInv'
  BY <1>1, <1>F DEF Arrive, Goto, OnlyReads, tables, TypeInv, TypeOK, Pcs, AgentsAreNamed
<1>2. ASSUME NEW r \in Requests, GetWorkspace(r) PROVE TypeInv'
  BY <1>2, <1>F DEF GetWorkspace, Goto, OnlyReads, tables, TypeInv, TypeOK, Pcs,
    AgentsAreNamed
<1>3. ASSUME NEW r \in Requests, InsertWorkspace(r) PROVE TypeInv'
  BY <1>3, <1>F DEF InsertWorkspace, Goto, Answer, tables, TypeInv, TypeOK, Pcs,
    AgentsAreNamed
<1>4. ASSUME NEW r \in Requests, GetActor(r) PROVE TypeInv'
  BY <1>4, <1>F DEF GetActor, Goto, OnlyReads, tables, TypeInv, TypeOK, Pcs, AgentsAreNamed
<1>5. ASSUME NEW r \in Requests, InsertActor(r) PROVE TypeInv'
  <2>1. job[r].actor \in Actors
    BY <1>F, JobFields
  <2>2. QED
    BY <1>5, <1>F, <2>1 DEF InsertActor, AddActor, Answer, Goto, TypeInv, TypeOK, Pcs,
      AgentsAreNamed
<1>6. ASSUME NEW r \in Requests, Lookup(r) PROVE TypeInv'
  <2> DEFINE prior == IF job[r].key = NoKey THEN NoCommand ELSE idempotency_record[job[r].key]
  <2>1. prior \in Requests \cup {NoCommand}
    BY <1>F, LookupFinds
  <2>2. UnderWay \subseteq Requests
    BY DEF UnderWay
  <2>3. CASE prior # NoCommand
    BY <1>6, <1>F, <2>1, <2>3 DEF Lookup, Answer, Goto, tables, TypeInv, TypeOK, Pcs,
      AgentsAreNamed
  <2>4. CASE prior = NoCommand
    BY <1>6, <1>F, <2>2, <2>4 DEF Lookup, Goto, tables, TypeInv, TypeOK, Pcs, AgentsAreNamed
  <2>5. QED
    BY <2>3, <2>4
<1>7. ASSUME NEW r \in Requests, InsertCommand(r) PROVE TypeInv'
  BY <1>7, <1>F DEF InsertCommand, Goto, BodyOf, tables, TypeInv, TypeOK, Pcs,
    AgentsAreNamed
<1>8. ASSUME NEW r \in Requests, Reject(r) PROVE TypeInv'
  BY <1>8, <1>F DEF Reject, Goto, Answer, tables, TypeInv, TypeOK, Pcs, AgentsAreNamed
<1>9. ASSUME NEW r \in Requests, GetAgent(r) PROVE TypeInv'
  BY <1>9, <1>F DEF GetAgent, Goto, OnlyReads, tables, TypeInv, TypeOK, Pcs, AgentsAreNamed
<1>10. ASSUME NEW r \in Requests, InsertAgent(r) PROVE TypeInv'
  <2>1. job[r].agent \in Actors
    BY <1>10, <1>F, JobFields DEF InsertAgent, AgentsAreNamed
  <2>2. QED
    BY <1>10, <1>F, <2>1 DEF InsertAgent, AddActor, Answer, Goto, TypeInv, TypeOK, Pcs,
      AgentsAreNamed
<1>11. ASSUME NEW r \in Requests, SessionExists(r) PROVE TypeInv'
  BY <1>11, <1>F DEF SessionExists, Goto, OnlyReads, tables, TypeInv, TypeOK, Pcs,
    AgentsAreNamed
<1>12. ASSUME NEW r \in Requests, InsertSession(r) PROVE TypeInv'
  <2>1. job[r].session \in Sessions
    BY <1>F, JobFields
  <2>2. QED
    BY <1>12, <1>F, <2>1 DEF InsertSession, Answer, Goto, TypeInv, TypeOK, Pcs,
      AgentsAreNamed
<1>13. ASSUME NEW r \in Requests, InsertMessage(r) PROVE TypeInv'
  BY <1>13, <1>F DEF InsertMessage, Goto, Answer, tables, TypeInv, TypeOK, Pcs,
    AgentsAreNamed
<1>14. ASSUME NEW r \in Requests, AppendEvent(r) PROVE TypeInv'
  BY <1>14, <1>F DEF AppendEvent, Goto, tables, TypeInv, TypeOK, Pcs, AgentsAreNamed
<1>15. ASSUME NEW r \in Requests, Record(r) PROVE TypeInv'
  BY <1>15, <1>F DEF Record, Goto, Answer, tables, TypeInv, TypeOK, Pcs, AgentsAreNamed
<1>16. ASSUME NEW r \in Requests, RecordLost(r) PROVE TypeInv'
  BY <1>16, <1>F DEF RecordLost, Goto, Answer, tables, TypeInv, TypeOK, Pcs, AgentsAreNamed
<1>17. ASSUME NEW r \in Requests, Abort(r) PROVE TypeInv'
  BY <1>17, <1>F DEF Abort, Goto, Answer, tables, TypeInv, TypeOK, Pcs, AgentsAreNamed
<1>18. CASE UNCHANGED vars
  BY <1>18, <1>F DEF vars, tables, TypeInv, TypeOK, Pcs, AgentsAreNamed
<1>19. QED
  BY <1>1, <1>2, <1>3, <1>4, <1>5, <1>6, <1>7, <1>8, <1>9, <1>10, <1>11, <1>12, <1>13,
    <1>14, <1>15, <1>16, <1>17, <1>18 DEF Next, Step

\* The empty tables are well typed.
LEMMA TypeInit == Init => TypeInv
BY DEF Init, TypeInv, TypeOK, Pcs, AgentsAreNamed

\* Type correctness of the tables and of the requests' local state.
THEOREM TypeCorrect == Spec => []TypeOK
<1>1. TypeInv /\ [Next]_vars => TypeInv'
  BY TypeStep
<1>2. TypeInv => TypeOK
  BY DEF TypeInv
<1>3. QED
  BY <1>1, <1>2, TypeInit, PTL DEF Spec

\* The rows of a request are in when its next statement runs.
LEMMA RowsKeepUpStep ==
    ASSUME DispatchInv, [Next]_vars
    PROVE  RowsKeepUp'
<1> USE DistinctAssumption
<1>F. TypeOK /\ RowsKeepUp
  BY DEF DispatchInv, TypeInv
<1>1. ASSUME NEW r \in Requests, Arrive(r) PROVE RowsKeepUp'
  BY <1>1, <1>F DEF Arrive, Goto, OnlyReads, tables, TypeOK, RowsKeepUp, Done
<1>2. ASSUME NEW r \in Requests, GetWorkspace(r) PROVE RowsKeepUp'
  BY <1>2, <1>F DEF GetWorkspace, Goto, OnlyReads, tables, TypeOK, RowsKeepUp, Done
<1>3. ASSUME NEW r \in Requests, InsertWorkspace(r) PROVE RowsKeepUp'
  BY <1>3, <1>F DEF InsertWorkspace, Goto, Answer, tables, TypeOK, RowsKeepUp, Done
<1>4. ASSUME NEW r \in Requests, GetActor(r) PROVE RowsKeepUp'
  BY <1>4, <1>F DEF GetActor, Goto, OnlyReads, tables, TypeOK, RowsKeepUp, Done
<1>5. ASSUME NEW r \in Requests, InsertActor(r) PROVE RowsKeepUp'
  BY <1>5, <1>F DEF InsertActor, Goto, AddActor, Answer, tables, TypeOK, RowsKeepUp, Done
<1>6. ASSUME NEW r \in Requests, Lookup(r) PROVE RowsKeepUp'
  BY <1>6, <1>F DEF Lookup, Goto, Answer, tables, TypeOK, RowsKeepUp, Done
<1>7. ASSUME NEW r \in Requests, InsertCommand(r) PROVE RowsKeepUp'
  BY <1>7, <1>F DEF InsertCommand, Goto, BodyOf, tables, TypeOK, RowsKeepUp, Done
<1>8. ASSUME NEW r \in Requests, Reject(r) PROVE RowsKeepUp'
  BY <1>8, <1>F DEF Reject, Goto, Answer, tables, TypeOK, RowsKeepUp, Done
<1>9. ASSUME NEW r \in Requests, GetAgent(r) PROVE RowsKeepUp'
  BY <1>9, <1>F DEF GetAgent, Goto, OnlyReads, tables, TypeOK, RowsKeepUp, Done
<1>10. ASSUME NEW r \in Requests, InsertAgent(r) PROVE RowsKeepUp'
  BY <1>10, <1>F DEF InsertAgent, Goto, AddActor, Answer, tables, TypeOK, RowsKeepUp, Done
<1>11. ASSUME NEW r \in Requests, SessionExists(r) PROVE RowsKeepUp'
  BY <1>11, <1>F DEF SessionExists, Goto, OnlyReads, tables, TypeOK, RowsKeepUp, Done
<1>12. ASSUME NEW r \in Requests, InsertSession(r) PROVE RowsKeepUp'
  BY <1>12, <1>F DEF InsertSession, Goto, Answer, tables, TypeOK, RowsKeepUp, Done
<1>13. ASSUME NEW r \in Requests, InsertMessage(r) PROVE RowsKeepUp'
  BY <1>13, <1>F DEF InsertMessage, Goto, Answer, tables, TypeOK, RowsKeepUp, Done
<1>14. ASSUME NEW r \in Requests, AppendEvent(r) PROVE RowsKeepUp'
  BY <1>14, <1>F DEF AppendEvent, Goto, tables, TypeOK, RowsKeepUp, Done
<1>15. ASSUME NEW r \in Requests, Record(r) PROVE RowsKeepUp'
  BY <1>15, <1>F DEF Record, Goto, Answer, tables, TypeOK, RowsKeepUp, Done
<1>16. ASSUME NEW r \in Requests, RecordLost(r) PROVE RowsKeepUp'
  BY <1>16, <1>F DEF RecordLost, Goto, Answer, tables, TypeOK, RowsKeepUp, Done
<1>17. ASSUME NEW r \in Requests, Abort(r) PROVE RowsKeepUp'
  BY <1>17, <1>F DEF Abort, Goto, Answer, tables, TypeOK, RowsKeepUp, Done
<1>18. CASE UNCHANGED vars
  BY <1>18, <1>F DEF vars, tables, TypeOK, RowsKeepUp, Done
<1>19. QED
  BY <1>1, <1>2, <1>3, <1>4, <1>5, <1>6, <1>7, <1>8, <1>9, <1>10, <1>11, <1>12, <1>13,
    <1>14, <1>15, <1>16, <1>17, <1>18 DEF Next, Step

\* A command row belongs to a request under way or answered itself.
LEMMA AnswersFitStep ==
    ASSUME DispatchInv, [Next]_vars
    PROVE  AnswersFit'
<1> USE DistinctAssumption
<1>F. TypeOK /\ AnswersFit /\ RowsKeepUp
  BY DEF DispatchInv, TypeInv
<1>1. ASSUME NEW r \in Requests, Arrive(r) PROVE AnswersFit'
  BY <1>1, <1>F DEF Arrive, Goto, OnlyReads, tables, TypeOK, AnswersFit, RowsKeepUp, Done,
    UnderWay
<1>2. ASSUME NEW r \in Requests, GetWorkspace(r) PROVE AnswersFit'
  BY <1>2, <1>F DEF GetWorkspace, Goto, OnlyReads, tables, TypeOK, AnswersFit, RowsKeepUp,
    Done, UnderWay
<1>3. ASSUME NEW r \in Requests, InsertWorkspace(r) PROVE AnswersFit'
  BY <1>3, <1>F DEF InsertWorkspace, Goto, Answer, tables, TypeOK, AnswersFit, RowsKeepUp,
    Done, UnderWay
<1>4. ASSUME NEW r \in Requests, GetActor(r) PROVE AnswersFit'
  BY <1>4, <1>F DEF GetActor, Goto, OnlyReads, tables, TypeOK, AnswersFit, RowsKeepUp,
    Done, UnderWay
<1>5. ASSUME NEW r \in Requests, InsertActor(r) PROVE AnswersFit'
  BY <1>5, <1>F DEF InsertActor, Goto, AddActor, Answer, tables, TypeOK, AnswersFit,
    RowsKeepUp, Done, UnderWay
<1>6. ASSUME NEW r \in Requests, Lookup(r) PROVE AnswersFit'
  BY <1>6, <1>F DEF Lookup, Goto, Answer, tables, TypeOK, AnswersFit, RowsKeepUp, Done,
    UnderWay
<1>7. ASSUME NEW r \in Requests, InsertCommand(r) PROVE AnswersFit'
  BY <1>7, <1>F DEF InsertCommand, Goto, BodyOf, tables, TypeOK, AnswersFit, RowsKeepUp,
    Done, UnderWay
<1>8. ASSUME NEW r \in Requests, Reject(r) PROVE AnswersFit'
  BY <1>8, <1>F DEF Reject, Goto, Answer, tables, TypeOK, AnswersFit, RowsKeepUp, Done,
    UnderWay
<1>9. ASSUME NEW r \in Requests, GetAgent(r) PROVE AnswersFit'
  BY <1>9, <1>F DEF GetAgent, Goto, OnlyReads, tables, TypeOK, AnswersFit, RowsKeepUp,
    Done, UnderWay
<1>10. ASSUME NEW r \in Requests, InsertAgent(r) PROVE AnswersFit'
  BY <1>10, <1>F DEF InsertAgent, Goto, AddActor, Answer, tables, TypeOK, AnswersFit,
    RowsKeepUp, Done, UnderWay
<1>11. ASSUME NEW r \in Requests, SessionExists(r) PROVE AnswersFit'
  BY <1>11, <1>F DEF SessionExists, Goto, OnlyReads, tables, TypeOK, AnswersFit,
    RowsKeepUp, Done, UnderWay
<1>12. ASSUME NEW r \in Requests, InsertSession(r) PROVE AnswersFit'
  BY <1>12, <1>F DEF InsertSession, Goto, Answer, tables, TypeOK, AnswersFit, RowsKeepUp,
    Done, UnderWay
<1>13. ASSUME NEW r \in Requests, InsertMessage(r) PROVE AnswersFit'
  BY <1>13, <1>F DEF InsertMessage, Goto, Answer, tables, TypeOK, AnswersFit, RowsKeepUp,
    Done, UnderWay
<1>14. ASSUME NEW r \in Requests, AppendEvent(r) PROVE AnswersFit'
  BY <1>14, <1>F DEF AppendEvent, Goto, tables, TypeOK, AnswersFit, RowsKeepUp, Done,
    UnderWay
<1>15. ASSUME NEW r \in Requests, Record(r) PROVE AnswersFit'
  BY <1>15, <1>F DEF Record, Goto, Answer, tables, TypeOK, AnswersFit, RowsKeepUp, Done,
    UnderWay
<1>16. ASSUME NEW r \in Requests, RecordLost(r) PROVE AnswersFit'
  BY <1>16, <1>F DEF RecordLost, Goto, Answer, tables, TypeOK, AnswersFit, RowsKeepUp,
    Done, UnderWay
<1>17. ASSUME NEW r \in Requests, Abort(r) PROVE AnswersFit'
  BY <1>17, <1>F DEF Abort, Goto, Answer, tables, TypeOK, AnswersFit, RowsKeepUp, Done,
    UnderWay
<1>18. CASE UNCHANGED vars
  BY <1>18, <1>F DEF vars, tables, TypeOK, AnswersFit, RowsKeepUp, Done, UnderWay
<1>19. QED
  BY <1>1, <1>2, <1>3, <1>4, <1>5, <1>6, <1>7, <1>8, <1>9, <1>10, <1>11, <1>12, <1>13,
    <1>14, <1>15, <1>16, <1>17, <1>18 DEF Next, Step

\* INSERT OR IGNORE never clears a key that was recorded.
LEMMA OkIsRecordedStep ==
    ASSUME DispatchInv, [Next]_vars
    PROVE  OkIsRecorded'
<1> USE DistinctAssumption
<1>F. TypeOK /\ OkIsRecorded /\ AnswersFit
  BY DEF DispatchInv, TypeInv
<1>1. ASSUME NEW r \in Requests, Arrive(r) PROVE OkIsRecorded'
  BY <1>1, <1>F DEF Arrive, Goto, OnlyReads, tables, TypeOK, OkIsRecorded, AnswersFit,
    UnderWay
<1>2. ASSUME NEW r \in Requests, GetWorkspace(r) PROVE OkIsRecorded'
  BY <1>2, <1>F DEF GetWorkspace, Goto, OnlyReads, tables, TypeOK, OkIsRecorded,
    AnswersFit, UnderWay
<1>3. ASSUME NEW r \in Requests, InsertWorkspace(r) PROVE OkIsRecorded'
  BY <1>3, <1>F DEF InsertWorkspace, Goto, Answer, tables, TypeOK, OkIsRecorded,
    AnswersFit, UnderWay
<1>4. ASSUME NEW r \in Requests, GetActor(r) PROVE OkIsRecorded'
  BY <1>4, <1>F DEF GetActor, Goto, OnlyReads, tables, TypeOK, OkIsRecorded, AnswersFit,
    UnderWay
<1>5. ASSUME NEW r \in Requests, InsertActor(r) PROVE OkIsRecorded'
  BY <1>5, <1>F DEF InsertActor, Goto, AddActor, Answer, tables, TypeOK, OkIsRecorded,
    AnswersFit, UnderWay
<1>6. ASSUME NEW r \in Requests, Lookup(r) PROVE OkIsRecorded'
  BY <1>6, <1>F DEF Lookup, Goto, Answer, tables, TypeOK, OkIsRecorded, AnswersFit, UnderWay
<1>7. ASSUME NEW r \in Requests, InsertCommand(r) PROVE OkIsRecorded'
  BY <1>7, <1>F DEF InsertCommand, Goto, BodyOf, tables, TypeOK, OkIsRecorded, AnswersFit,
    UnderWay
<1>8. ASSUME NEW r \in Requests, Reject(r) PROVE OkIsRecorded'
  BY <1>8, <1>F DEF Reject, Goto, Answer, tables, TypeOK, OkIsRecorded, AnswersFit, UnderWay
<1>9. ASSUME NEW r \in Requests, GetAgent(r) PROVE OkIsRecorded'
  BY <1>9, <1>F DEF GetAgent, Goto, OnlyReads, tables, TypeOK, OkIsRecorded, AnswersFit,
    UnderWay
<1>10. ASSUME NEW r \in Requests, InsertAgent(r) PROVE OkIsRecorded'
  BY <1>10, <1>F DEF InsertAgent, Goto, AddActor, Answer, tables, TypeOK, OkIsRecorded,
    AnswersFit, UnderWay
<1>11. ASSUME NEW r \in Requests, SessionExists(r) PROVE OkIsRecorded'
  BY <1>11, <1>F DEF SessionExists, Goto, OnlyReads, tables, TypeOK, OkIsRecorded,
    AnswersFit, UnderWay
<1>12. ASSUME NEW r \in Requests, InsertSession(r) PROVE OkIsRecorded'
  BY <1>12, <1>F DEF InsertSession, Goto, Answer, tables, TypeOK, OkIsRecorded,
    AnswersFit, UnderWay
<1>13. ASSUME NEW r \in Requests, InsertMessage(r) PROVE OkIsRecorded'
  BY <1>13, <1>F DEF InsertMessage, Goto, Answer, tables, TypeOK, OkIsRecorded,
    AnswersFit, UnderWay
<1>14. ASSUME NEW r \in Requests, AppendEvent(r) PROVE OkIsRecorded'
  BY <1>14, <1>F DEF AppendEvent, Goto, tables, TypeOK, OkIsRecorded, AnswersFit, UnderWay
<1>15. ASSUME NEW r \in Requests, Record(r) PROVE OkIsRecorded'
  <2> SUFFICES ASSUME NEW q \in Requests, reply'[q] = "ok", job'[q].key # NoKey, q \notin lost'
               PROVE  idempotency_record'[job'[q].key] # NoCommand
    BY DEF OkIsRecorded
  <2>1. job[q].key \in Keys
    BY <1>F, <1>15, JobFields DEF Record, Answer, Goto, TypeOK
  <2>2. idempotency_record'[job[q].key] =
          IF job[q].key = job[r].key /\ idempotency_record[job[q].key] = NoCommand
          THEN r ELSE idempotency_record[job[q].key]
    BY <1>15, <2>1 DEF Record
  <2>3. QED
    BY <1>15, <1>F, <2>1, <2>2 DEF Record, Answer, Goto, TypeOK, OkIsRecorded
<1>16. ASSUME NEW r \in Requests, RecordLost(r) PROVE OkIsRecorded'
  BY <1>16, <1>F DEF RecordLost, Goto, Answer, tables, TypeOK, OkIsRecorded, AnswersFit,
    UnderWay
<1>17. ASSUME NEW r \in Requests, Abort(r) PROVE OkIsRecorded'
  BY <1>17, <1>F DEF Abort, Goto, Answer, tables, TypeOK, OkIsRecorded, AnswersFit, UnderWay
<1>18. CASE UNCHANGED vars
  BY <1>18, <1>F DEF vars, tables, TypeOK, OkIsRecorded, AnswersFit, UnderWay
<1>19. QED
  BY <1>1, <1>2, <1>3, <1>4, <1>5, <1>6, <1>7, <1>8, <1>9, <1>10, <1>11, <1>12, <1>13,
    <1>14, <1>15, <1>16, <1>17, <1>18 DEF Next, Step

\* Only the last statement of dispatch records the key.
LEMMA RecordedIsDoneStep ==
    ASSUME DispatchInv, [Next]_vars
    PROVE  RecordedIsDone'
<1> USE DistinctAssumption
<1>F. TypeOK /\ RecordedIsDone /\ RowsKeepUp /\ AnswersFit
  BY DEF DispatchInv, TypeInv
<1>1. ASSUME NEW r \in Requests, Arrive(r) PROVE RecordedIsDone'
  BY <1>1, <1>F DEF Arrive, Goto, OnlyReads, tables, TypeOK, RecordedIsDone, RowsKeepUp,
    AnswersFit, Done
<1>2. ASSUME NEW r \in Requests, GetWorkspace(r) PROVE RecordedIsDone'
  BY <1>2, <1>F DEF GetWorkspace, Goto, OnlyReads, tables, TypeOK, RecordedIsDone,
    RowsKeepUp, AnswersFit, Done
<1>3. ASSUME NEW r \in Requests, InsertWorkspace(r) PROVE RecordedIsDone'
  BY <1>3, <1>F DEF InsertWorkspace, Goto, Answer, tables, TypeOK, RecordedIsDone,
    RowsKeepUp, AnswersFit, Done
<1>4. ASSUME NEW r \in Requests, GetActor(r) PROVE RecordedIsDone'
  BY <1>4, <1>F DEF GetActor, Goto, OnlyReads, tables, TypeOK, RecordedIsDone, RowsKeepUp,
    AnswersFit, Done
<1>5. ASSUME NEW r \in Requests, InsertActor(r) PROVE RecordedIsDone'
  BY <1>5, <1>F DEF InsertActor, Goto, AddActor, Answer, tables, TypeOK, RecordedIsDone,
    RowsKeepUp, AnswersFit, Done
<1>6. ASSUME NEW r \in Requests, Lookup(r) PROVE RecordedIsDone'
  BY <1>6, <1>F DEF Lookup, Goto, Answer, tables, TypeOK, RecordedIsDone, RowsKeepUp,
    AnswersFit, Done
<1>7. ASSUME NEW r \in Requests, InsertCommand(r) PROVE RecordedIsDone'
  BY <1>7, <1>F DEF InsertCommand, Goto, BodyOf, tables, TypeOK, RecordedIsDone,
    RowsKeepUp, AnswersFit, Done
<1>8. ASSUME NEW r \in Requests, Reject(r) PROVE RecordedIsDone'
  BY <1>8, <1>F DEF Reject, Goto, Answer, tables, TypeOK, RecordedIsDone, RowsKeepUp,
    AnswersFit, Done
<1>9. ASSUME NEW r \in Requests, GetAgent(r) PROVE RecordedIsDone'
  BY <1>9, <1>F DEF GetAgent, Goto, OnlyReads, tables, TypeOK, RecordedIsDone, RowsKeepUp,
    AnswersFit, Done
<1>10. ASSUME NEW r \in Requests, InsertAgent(r) PROVE RecordedIsDone'
  BY <1>10, <1>F DEF InsertAgent, Goto, AddActor, Answer, tables, TypeOK, RecordedIsDone,
    RowsKeepUp, AnswersFit, Done
<1>11. ASSUME NEW r \in Requests, SessionExists(r) PROVE RecordedIsDone'
  BY <1>11, <1>F DEF SessionExists, Goto, OnlyReads, tables, TypeOK, RecordedIsDone,
    RowsKeepUp, AnswersFit, Done
<1>12. ASSUME NEW r \in Requests, InsertSession(r) PROVE RecordedIsDone'
  BY <1>12, <1>F DEF InsertSession, Goto, Answer, tables, TypeOK, RecordedIsDone,
    RowsKeepUp, AnswersFit, Done
<1>13. ASSUME NEW r \in Requests, InsertMessage(r) PROVE RecordedIsDone'
  BY <1>13, <1>F DEF InsertMessage, Goto, Answer, tables, TypeOK, RecordedIsDone,
    RowsKeepUp, AnswersFit, Done
<1>14. ASSUME NEW r \in Requests, AppendEvent(r) PROVE RecordedIsDone'
  BY <1>14, <1>F DEF AppendEvent, Goto, tables, TypeOK, RecordedIsDone, RowsKeepUp,
    AnswersFit, Done
<1>15. ASSUME NEW r \in Requests, Record(r) PROVE RecordedIsDone'
  BY <1>15, <1>F DEF Record, Goto, Answer, tables, TypeOK, RecordedIsDone, RowsKeepUp,
    AnswersFit, Done
<1>16. ASSUME NEW r \in Requests, RecordLost(r) PROVE RecordedIsDone'
  BY <1>16, <1>F DEF RecordLost, Goto, Answer, tables, TypeOK, RecordedIsDone, RowsKeepUp,
    AnswersFit, Done
<1>17. ASSUME NEW r \in Requests, Abort(r) PROVE RecordedIsDone'
  BY <1>17, <1>F DEF Abort, Goto, Answer, tables, TypeOK, RecordedIsDone, RowsKeepUp,
    AnswersFit, Done
<1>18. CASE UNCHANGED vars
  BY <1>18, <1>F DEF vars, tables, TypeOK, RecordedIsDone, RowsKeepUp, AnswersFit, Done
<1>19. QED
  BY <1>1, <1>2, <1>3, <1>4, <1>5, <1>6, <1>7, <1>8, <1>9, <1>10, <1>11, <1>12, <1>13,
    <1>14, <1>15, <1>16, <1>17, <1>18 DEF Next, Step

\* A replay comes from a record that was found.
LEMMA ReplaysAreKeyedStep ==
    ASSUME DispatchInv, [Next]_vars
    PROVE  ReplaysAreKeyed'
<1> USE DistinctAssumption
<1>F. TypeOK /\ ReplaysAreKeyed
  BY DEF DispatchInv, TypeInv
<1>1. ASSUME NEW r \in Requests, Arrive(r) PROVE ReplaysAreKeyed'
  BY <1>1, <1>F DEF Arrive, Goto, OnlyReads, tables, TypeOK, ReplaysAreKeyed
<1>2. ASSUME NEW r \in Requests, GetWorkspace(r) PROVE ReplaysAreKeyed'
  BY <1>2, <1>F DEF GetWorkspace, Goto, OnlyReads, tables, TypeOK, ReplaysAreKeyed
<1>3. ASSUME NEW r \in Requests, InsertWorkspace(r) PROVE ReplaysAreKeyed'
  BY <1>3, <1>F DEF InsertWorkspace, Goto, Answer, tables, TypeOK, ReplaysAreKeyed
<1>4. ASSUME NEW r \in Requests, GetActor(r) PROVE ReplaysAreKeyed'
  BY <1>4, <1>F DEF GetActor, Goto, OnlyReads, tables, TypeOK, ReplaysAreKeyed
<1>5. ASSUME NEW r \in Requests, InsertActor(r) PROVE ReplaysAreKeyed'
  BY <1>5, <1>F DEF InsertActor, Goto, AddActor, Answer, tables, TypeOK, ReplaysAreKeyed
<1>6. ASSUME NEW r \in Requests, Lookup(r) PROVE ReplaysAreKeyed'
  BY <1>6, <1>F DEF Lookup, Goto, Answer, tables, TypeOK, ReplaysAreKeyed
<1>7. ASSUME NEW r \in Requests, InsertCommand(r) PROVE ReplaysAreKeyed'
  BY <1>7, <1>F DEF InsertCommand, Goto, BodyOf, tables, TypeOK, ReplaysAreKeyed
<1>8. ASSUME NEW r \in Requests, Reject(r) PROVE ReplaysAreKeyed'
  BY <1>8, <1>F DEF Reject, Goto, Answer, tables, TypeOK, ReplaysAreKeyed
<1>9. ASSUME NEW r \in Requests, GetAgent(r) PROVE ReplaysAreKeyed'
  BY <1>9, <1>F DEF GetAgent, Goto, OnlyReads, tables, TypeOK, ReplaysAreKeyed
<1>10. ASSUME NEW r \in Requests, InsertAgent(r) PROVE ReplaysAreKeyed'
  BY <1>10, <1>F DEF InsertAgent, Goto, AddActor, Answer, tables, TypeOK, ReplaysAreKeyed
<1>11. ASSUME NEW r \in Requests, SessionExists(r) PROVE ReplaysAreKeyed'
  BY <1>11, <1>F DEF SessionExists, Goto, OnlyReads, tables, TypeOK, ReplaysAreKeyed
<1>12. ASSUME NEW r \in Requests, InsertSession(r) PROVE ReplaysAreKeyed'
  BY <1>12, <1>F DEF InsertSession, Goto, Answer, tables, TypeOK, ReplaysAreKeyed
<1>13. ASSUME NEW r \in Requests, InsertMessage(r) PROVE ReplaysAreKeyed'
  BY <1>13, <1>F DEF InsertMessage, Goto, Answer, tables, TypeOK, ReplaysAreKeyed
<1>14. ASSUME NEW r \in Requests, AppendEvent(r) PROVE ReplaysAreKeyed'
  BY <1>14, <1>F DEF AppendEvent, Goto, tables, TypeOK, ReplaysAreKeyed
<1>15. ASSUME NEW r \in Requests, Record(r) PROVE ReplaysAreKeyed'
  BY <1>15, <1>F DEF Record, Goto, Answer, tables, TypeOK, ReplaysAreKeyed
<1>16. ASSUME NEW r \in Requests, RecordLost(r) PROVE ReplaysAreKeyed'
  BY <1>16, <1>F DEF RecordLost, Goto, Answer, tables, TypeOK, ReplaysAreKeyed
<1>17. ASSUME NEW r \in Requests, Abort(r) PROVE ReplaysAreKeyed'
  BY <1>17, <1>F DEF Abort, Goto, Answer, tables, TypeOK, ReplaysAreKeyed
<1>18. CASE UNCHANGED vars
  BY <1>18, <1>F DEF vars, tables, TypeOK, ReplaysAreKeyed
<1>19. QED
  BY <1>1, <1>2, <1>3, <1>4, <1>5, <1>6, <1>7, <1>8, <1>9, <1>10, <1>11, <1>12, <1>13,
    <1>14, <1>15, <1>16, <1>17, <1>18 DEF Next, Step

\* The record a replay was answered with is not replaced.
LEMMA ReplaysAgreeStep ==
    ASSUME DispatchInv, [Next]_vars
    PROVE  ReplaysAgree'
<1> USE DistinctAssumption
<1>F. TypeOK /\ ReplaysAreKeyed /\ ReplaysAgree
  BY DEF DispatchInv, TypeInv
<1>1. ASSUME NEW r \in Requests, Arrive(r) PROVE ReplaysAgree'
  BY <1>1, <1>F DEF Arrive, Goto, OnlyReads, tables, TypeOK, ReplaysAreKeyed, ReplaysAgree
<1>2. ASSUME NEW r \in Requests, GetWorkspace(r) PROVE ReplaysAgree'
  BY <1>2, <1>F DEF GetWorkspace, Goto, OnlyReads, tables, TypeOK, ReplaysAreKeyed,
    ReplaysAgree
<1>3. ASSUME NEW r \in Requests, InsertWorkspace(r) PROVE ReplaysAgree'
  BY <1>3, <1>F DEF InsertWorkspace, Goto, Answer, tables, TypeOK, ReplaysAreKeyed,
    ReplaysAgree
<1>4. ASSUME NEW r \in Requests, GetActor(r) PROVE ReplaysAgree'
  BY <1>4, <1>F DEF GetActor, Goto, OnlyReads, tables, TypeOK, ReplaysAreKeyed, ReplaysAgree
<1>5. ASSUME NEW r \in Requests, InsertActor(r) PROVE ReplaysAgree'
  BY <1>5, <1>F DEF InsertActor, Goto, AddActor, Answer, tables, TypeOK, ReplaysAreKeyed,
    ReplaysAgree
<1>6. ASSUME NEW r \in Requests, Lookup(r) PROVE ReplaysAgree'
  BY <1>6, <1>F DEF Lookup, Goto, Answer, tables, TypeOK, ReplaysAreKeyed, ReplaysAgree
<1>7. ASSUME NEW r \in Requests, InsertCommand(r) PROVE ReplaysAgree'
  BY <1>7, <1>F DEF InsertCommand, Goto, BodyOf, tables, TypeOK, ReplaysAreKeyed,
    ReplaysAgree
<1>8. ASSUME NEW r \in Requests, Reject(r) PROVE ReplaysAgree'
  BY <1>8, <1>F DEF Reject, Goto, Answer, tables, TypeOK, ReplaysAreKeyed, ReplaysAgree
<1>9. ASSUME NEW r \in Requests, GetAgent(r) PROVE ReplaysAgree'
  BY <1>9, <1>F DEF GetAgent, Goto, OnlyReads, tables, TypeOK, ReplaysAreKeyed, ReplaysAgree
<1>10. ASSUME NEW r \in Requests, InsertAgent(r) PROVE ReplaysAgree'
  BY <1>10, <1>F DEF InsertAgent, Goto, AddActor, Answer, tables, TypeOK, ReplaysAreKeyed,
    ReplaysAgree
<1>11. ASSUME NEW r \in Requests, SessionExists(r) PROVE ReplaysAgree'
  BY <1>11, <1>F DEF SessionExists, Goto, OnlyReads, tables, TypeOK, ReplaysAreKeyed,
    ReplaysAgree
<1>12. ASSUME NEW r \in Requests, InsertSession(r) PROVE ReplaysAgree'
  BY <1>12, <1>F DEF InsertSession, Goto, Answer, tables, TypeOK, ReplaysAreKeyed,
    ReplaysAgree
<1>13. ASSUME NEW r \in Requests, InsertMessage(r) PROVE ReplaysAgree'
  BY <1>13, <1>F DEF InsertMessage, Goto, Answer, tables, TypeOK, ReplaysAreKeyed,
    ReplaysAgree
<1>14. ASSUME NEW r \in Requests, AppendEvent(r) PROVE ReplaysAgree'
  BY <1>14, <1>F DEF AppendEvent, Goto, tables, TypeOK, ReplaysAreKeyed, ReplaysAgree
<1>15. ASSUME NEW r \in Requests, Record(r) PROVE ReplaysAgree'
  <2> SUFFICES ASSUME NEW q \in Requests, reply'[q] = "replay"
               PROVE  replied'[q] = idempotency_record'[job'[q].key]
    BY DEF ReplaysAgree
  <2>1. job[q].key \in Keys
    BY <1>F, <1>15, JobFields DEF Record, Answer, Goto, TypeOK, ReplaysAreKeyed
  <2>2. idempotency_record'[job[q].key] =
          IF job[q].key = job[r].key /\ idempotency_record[job[q].key] = NoCommand
          THEN r ELSE idempotency_record[job[q].key]
    BY <1>15, <2>1 DEF Record
  <2>3. QED
    BY <1>15, <1>F, <2>1, <2>2 DEF Record, Answer, Goto, TypeOK, ReplaysAgree,
      ReplaysAreKeyed
<1>16. ASSUME NEW r \in Requests, RecordLost(r) PROVE ReplaysAgree'
  BY <1>16, <1>F DEF RecordLost, Goto, Answer, tables, TypeOK, ReplaysAreKeyed, ReplaysAgree
<1>17. ASSUME NEW r \in Requests, Abort(r) PROVE ReplaysAgree'
  BY <1>17, <1>F DEF Abort, Goto, Answer, tables, TypeOK, ReplaysAreKeyed, ReplaysAgree
<1>18. CASE UNCHANGED vars
  BY <1>18, <1>F DEF vars, tables, TypeOK, ReplaysAreKeyed, ReplaysAgree
<1>19. QED
  BY <1>1, <1>2, <1>3, <1>4, <1>5, <1>6, <1>7, <1>8, <1>9, <1>10, <1>11, <1>12, <1>13,
    <1>14, <1>15, <1>16, <1>17, <1>18 DEF Next, Step

\* A request passes the lookup only while its key is unrecorded.
LEMMA PassedOverlapStep ==
    ASSUME DispatchInv, [Next]_vars
    PROVE  PassedOverlap'
<1> USE DistinctAssumption
<1>F. TypeOK /\ PassedOverlap /\ AnswersFit /\ OkIsRecorded
  BY DEF DispatchInv, TypeInv
<1>1. ASSUME NEW r \in Requests, Arrive(r) PROVE PassedOverlap'
  BY <1>1, <1>F DEF Arrive, Goto, OnlyReads, tables, TypeOK, PassedOverlap, AnswersFit,
    OkIsRecorded, UnderWay
<1>2. ASSUME NEW r \in Requests, GetWorkspace(r) PROVE PassedOverlap'
  BY <1>2, <1>F DEF GetWorkspace, Goto, OnlyReads, tables, TypeOK, PassedOverlap,
    AnswersFit, OkIsRecorded, UnderWay
<1>3. ASSUME NEW r \in Requests, InsertWorkspace(r) PROVE PassedOverlap'
  BY <1>3, <1>F DEF InsertWorkspace, Goto, Answer, tables, TypeOK, PassedOverlap,
    AnswersFit, OkIsRecorded, UnderWay
<1>4. ASSUME NEW r \in Requests, GetActor(r) PROVE PassedOverlap'
  BY <1>4, <1>F DEF GetActor, Goto, OnlyReads, tables, TypeOK, PassedOverlap, AnswersFit,
    OkIsRecorded, UnderWay
<1>5. ASSUME NEW r \in Requests, InsertActor(r) PROVE PassedOverlap'
  BY <1>5, <1>F DEF InsertActor, Goto, AddActor, Answer, tables, TypeOK, PassedOverlap,
    AnswersFit, OkIsRecorded, UnderWay
<1>6. ASSUME NEW r \in Requests, Lookup(r) PROVE PassedOverlap'
  BY <1>6, <1>F DEF Lookup, Goto, Answer, tables, TypeOK, PassedOverlap, AnswersFit,
    OkIsRecorded, UnderWay
<1>7. ASSUME NEW r \in Requests, InsertCommand(r) PROVE PassedOverlap'
  BY <1>7, <1>F DEF InsertCommand, Goto, BodyOf, tables, TypeOK, PassedOverlap,
    AnswersFit, OkIsRecorded, UnderWay
<1>8. ASSUME NEW r \in Requests, Reject(r) PROVE PassedOverlap'
  BY <1>8, <1>F DEF Reject, Goto, Answer, tables, TypeOK, PassedOverlap, AnswersFit,
    OkIsRecorded, UnderWay
<1>9. ASSUME NEW r \in Requests, GetAgent(r) PROVE PassedOverlap'
  BY <1>9, <1>F DEF GetAgent, Goto, OnlyReads, tables, TypeOK, PassedOverlap, AnswersFit,
    OkIsRecorded, UnderWay
<1>10. ASSUME NEW r \in Requests, InsertAgent(r) PROVE PassedOverlap'
  BY <1>10, <1>F DEF InsertAgent, Goto, AddActor, Answer, tables, TypeOK, PassedOverlap,
    AnswersFit, OkIsRecorded, UnderWay
<1>11. ASSUME NEW r \in Requests, SessionExists(r) PROVE PassedOverlap'
  BY <1>11, <1>F DEF SessionExists, Goto, OnlyReads, tables, TypeOK, PassedOverlap,
    AnswersFit, OkIsRecorded, UnderWay
<1>12. ASSUME NEW r \in Requests, InsertSession(r) PROVE PassedOverlap'
  BY <1>12, <1>F DEF InsertSession, Goto, Answer, tables, TypeOK, PassedOverlap,
    AnswersFit, OkIsRecorded, UnderWay
<1>13. ASSUME NEW r \in Requests, InsertMessage(r) PROVE PassedOverlap'
  BY <1>13, <1>F DEF InsertMessage, Goto, Answer, tables, TypeOK, PassedOverlap,
    AnswersFit, OkIsRecorded, UnderWay
<1>14. ASSUME NEW r \in Requests, AppendEvent(r) PROVE PassedOverlap'
  BY <1>14, <1>F DEF AppendEvent, Goto, tables, TypeOK, PassedOverlap, AnswersFit,
    OkIsRecorded, UnderWay
<1>15. ASSUME NEW r \in Requests, Record(r) PROVE PassedOverlap'
  BY <1>15, <1>F DEF Record, Goto, Answer, tables, TypeOK, PassedOverlap, AnswersFit,
    OkIsRecorded, UnderWay
<1>16. ASSUME NEW r \in Requests, RecordLost(r) PROVE PassedOverlap'
  BY <1>16, <1>F DEF RecordLost, Goto, Answer, tables, TypeOK, PassedOverlap, AnswersFit,
    OkIsRecorded, UnderWay
<1>17. ASSUME NEW r \in Requests, Abort(r) PROVE PassedOverlap'
  BY <1>17, <1>F DEF Abort, Goto, Answer, tables, TypeOK, PassedOverlap, AnswersFit,
    OkIsRecorded, UnderWay
<1>18. CASE UNCHANGED vars
  BY <1>18, <1>F DEF vars, tables, TypeOK, PassedOverlap, AnswersFit, OkIsRecorded, UnderWay
<1>19. QED
  BY <1>1, <1>2, <1>3, <1>4, <1>5, <1>6, <1>7, <1>8, <1>9, <1>10, <1>11, <1>12, <1>13,
    <1>14, <1>15, <1>16, <1>17, <1>18 DEF Next, Step

\* The primary key of session admits one creator.
LEMMA OneCreatorStep ==
    ASSUME DispatchInv, [Next]_vars
    PROVE  OneCreator'
<1> USE DistinctAssumption
<1>F. TypeOK /\ OneCreator /\ RowsKeepUp
  BY DEF DispatchInv, TypeInv
<1>1. ASSUME NEW r \in Requests, Arrive(r) PROVE OneCreator'
  BY <1>1, <1>F DEF Arrive, Goto, OnlyReads, tables, TypeOK, OneCreator, Creators,
    RowsKeepUp
<1>2. ASSUME NEW r \in Requests, GetWorkspace(r) PROVE OneCreator'
  BY <1>2, <1>F DEF GetWorkspace, Goto, OnlyReads, tables, TypeOK, OneCreator, Creators,
    RowsKeepUp
<1>3. ASSUME NEW r \in Requests, InsertWorkspace(r) PROVE OneCreator'
  BY <1>3, <1>F DEF InsertWorkspace, Goto, Answer, tables, TypeOK, OneCreator, Creators,
    RowsKeepUp
<1>4. ASSUME NEW r \in Requests, GetActor(r) PROVE OneCreator'
  BY <1>4, <1>F DEF GetActor, Goto, OnlyReads, tables, TypeOK, OneCreator, Creators,
    RowsKeepUp
<1>5. ASSUME NEW r \in Requests, InsertActor(r) PROVE OneCreator'
  BY <1>5, <1>F DEF InsertActor, Goto, AddActor, Answer, tables, TypeOK, OneCreator,
    Creators, RowsKeepUp
<1>6. ASSUME NEW r \in Requests, Lookup(r) PROVE OneCreator'
  BY <1>6, <1>F DEF Lookup, Goto, Answer, tables, TypeOK, OneCreator, Creators, RowsKeepUp
<1>7. ASSUME NEW r \in Requests, InsertCommand(r) PROVE OneCreator'
  BY <1>7, <1>F DEF InsertCommand, Goto, BodyOf, tables, TypeOK, OneCreator, Creators,
    RowsKeepUp
<1>8. ASSUME NEW r \in Requests, Reject(r) PROVE OneCreator'
  BY <1>8, <1>F DEF Reject, Goto, Answer, tables, TypeOK, OneCreator, Creators, RowsKeepUp
<1>9. ASSUME NEW r \in Requests, GetAgent(r) PROVE OneCreator'
  BY <1>9, <1>F DEF GetAgent, Goto, OnlyReads, tables, TypeOK, OneCreator, Creators,
    RowsKeepUp
<1>10. ASSUME NEW r \in Requests, InsertAgent(r) PROVE OneCreator'
  BY <1>10, <1>F DEF InsertAgent, Goto, AddActor, Answer, tables, TypeOK, OneCreator,
    Creators, RowsKeepUp
<1>11. ASSUME NEW r \in Requests, SessionExists(r) PROVE OneCreator'
  BY <1>11, <1>F DEF SessionExists, Goto, OnlyReads, tables, TypeOK, OneCreator, Creators,
    RowsKeepUp
<1>12. ASSUME NEW r \in Requests, InsertSession(r) PROVE OneCreator'
  BY <1>12, <1>F DEF InsertSession, Goto, Answer, tables, TypeOK, OneCreator, Creators,
    RowsKeepUp
<1>13. ASSUME NEW r \in Requests, InsertMessage(r) PROVE OneCreator'
  BY <1>13, <1>F DEF InsertMessage, Goto, Answer, tables, TypeOK, OneCreator, Creators,
    RowsKeepUp
<1>14. ASSUME NEW r \in Requests, AppendEvent(r) PROVE OneCreator'
  BY <1>14, <1>F DEF AppendEvent, Goto, tables, TypeOK, OneCreator, Creators, RowsKeepUp
<1>15. ASSUME NEW r \in Requests, Record(r) PROVE OneCreator'
  BY <1>15, <1>F DEF Record, Goto, Answer, tables, TypeOK, OneCreator, Creators, RowsKeepUp
<1>16. ASSUME NEW r \in Requests, RecordLost(r) PROVE OneCreator'
  BY <1>16, <1>F DEF RecordLost, Goto, Answer, tables, TypeOK, OneCreator, Creators,
    RowsKeepUp
<1>17. ASSUME NEW r \in Requests, Abort(r) PROVE OneCreator'
  BY <1>17, <1>F DEF Abort, Goto, Answer, tables, TypeOK, OneCreator, Creators, RowsKeepUp
<1>18. CASE UNCHANGED vars
  BY <1>18, <1>F DEF vars, tables, TypeOK, OneCreator, Creators, RowsKeepUp
<1>19. QED
  BY <1>1, <1>2, <1>3, <1>4, <1>5, <1>6, <1>7, <1>8, <1>9, <1>10, <1>11, <1>12, <1>13,
    <1>14, <1>15, <1>16, <1>17, <1>18 DEF Next, Step

\* The empty tables satisfy the invariant.
LEMMA DispatchInit == Init => DispatchInv
<1> SUFFICES ASSUME Init PROVE DispatchInv
  OBVIOUS
<1>1. TypeInv
  BY TypeInit
<1>2. RowsKeepUp /\ AnswersFit /\ OkIsRecorded /\ ReplaysAreKeyed /\ ReplaysAgree
  BY DEF Init, RowsKeepUp, AnswersFit, OkIsRecorded, ReplaysAreKeyed, ReplaysAgree
<1>3. RecordedIsDone
  BY DEF Init, RecordedIsDone
<1>4. PassedOverlap
  BY DEF Init, PassedOverlap, UnderWay
<1>5. OneCreator
  BY DEF Init, OneCreator, Creators
<1>6. QED
  BY <1>1, <1>2, <1>3, <1>4, <1>5 DEF DispatchInv

\* The inductive invariant of dispatch.
THEOREM DispatchInvariant == Spec => []DispatchInv
<1>1. DispatchInv /\ [Next]_vars => DispatchInv'
  <2> SUFFICES ASSUME DispatchInv, [Next]_vars PROVE DispatchInv'
    OBVIOUS
  <2>1. TypeInv'
    BY TypeStep DEF DispatchInv
  <2>2. QED
    BY <2>1, RowsKeepUpStep, AnswersFitStep, OkIsRecordedStep, RecordedIsDoneStep,
      ReplaysAreKeyedStep, ReplaysAgreeStep, PassedOverlapStep, OneCreatorStep DEF
      DispatchInv
<1>2. QED
  BY <1>1, DispatchInit, PTL DEF Spec

\* The key of a command is recorded only after all its rows are in, with any
\* interleaving, failure or dropped request.
THEOREM RecordSafety == Spec => []RecordedIsDone
<1>1. DispatchInv => RecordedIsDone
  BY DEF DispatchInv
<1>2. QED
  BY <1>1, DispatchInvariant, PTL

\* All replays of a key agree, now and later.
THEOREM ReplayAgreement == Spec => []ReplaysAgree
<1>1. DispatchInv => ReplaysAgree
  BY DEF DispatchInv
<1>2. QED
  BY <1>1, DispatchInvariant, PTL

\* A key runs twice only for overlapping, failed or unrecorded requests.
THEOREM KeyOverlap == Spec => []KeyedRunsOverlap
<1>1. DispatchInv => KeyedRunsOverlap
  BY DEF DispatchInv, PassedOverlap, KeyedRunsOverlap
<1>2. QED
  BY <1>1, DispatchInvariant, PTL

\* However many requests race to create a session, one event announces it.
THEOREM SessionOnce == Spec => []SessionCreatedOnce
<1>1. DispatchInv => SessionCreatedOnce
  BY DEF DispatchInv, TypeInv, TypeOK, OneCreator, Creators, SessionCreatedOnce
<1>2. QED
  BY <1>1, DispatchInvariant, PTL

---------------------------------------------------------------------------
(* Inbound events.                                                         *)

CONSTANTS Deliveries, DedupeKeys, MaxErrors

VARIABLES delivery, ingressRow, errors

Inbox == INSTANCE Ingress

DeliveryStates == [key : DedupeKeys \cup {"none"},
                   answer : {"idle", "none", "accepted", "duplicate"}]

IngressTypes ==
  /\ delivery \in [Deliveries -> DeliveryStates]
  /\ \A d \in Deliveries : delivery[d].answer # "idle" => delivery[d].key \in DedupeKeys
  /\ ingressRow \in [DedupeKeys -> 0..1]
  /\ errors \in Nat

\* A key with a row was accepted by one delivery, one without by none.
RowsAreAccepted ==
  \A k \in DedupeKeys :
    /\ ingressRow[k] = 0 => Inbox!Answered(k, "accepted") = {}
    /\ ingressRow[k] = 1 => \E d \in Deliveries : Inbox!Answered(k, "accepted") = {d}

\* The keys answered as duplicates and never accepted.
Lost == {k \in DedupeKeys :
           Inbox!Answered(k, "accepted") = {} /\ Inbox!Answered(k, "duplicate") # {}}

LossesAreErrors == IsFiniteSet(Lost) /\ Cardinality(Lost) <= errors

IngressInv == IngressTypes /\ RowsAreAccepted /\ LossesAreErrors

\* The instances' Cardinality is that of FiniteSets.
LEMMA InboxCardinality == \A S : Inbox!Cardinality(S) = Cardinality(S)
BY DEF Inbox!Cardinality, Cardinality

\* Nothing more is lost than was, or one key more for one error more.
LEMMA LossStep ==
  ASSUME LossesAreErrors, errors \in Nat,
         \/ Lost' \subseteq Lost /\ errors' = errors
         \/ errors' = errors + 1 /\ \E k : Lost' \subseteq Lost \cup {k}
  PROVE  LossesAreErrors'
<1>1. IsFiniteSet(Lost) /\ Cardinality(Lost) \in Nat /\ Cardinality(Lost) <= errors
  BY FS_CardinalityType DEF LossesAreErrors
<1>2. CASE Lost' \subseteq Lost /\ errors' = errors
  <2>1. IsFiniteSet(Lost') /\ Cardinality(Lost') \in Nat /\ Cardinality(Lost') <= Cardinality(Lost)
    BY <1>1, <1>2, FS_Subset, FS_CardinalityType
  <2>2. QED
    BY <1>1, <1>2, <2>1 DEF LossesAreErrors
<1>3. ASSUME NEW k, Lost' \subseteq Lost \cup {k}, errors' = errors + 1 PROVE LossesAreErrors'
  <2>1. /\ IsFiniteSet(Lost \cup {k}) /\ Cardinality(Lost \cup {k}) \in Nat
        /\ Cardinality(Lost \cup {k}) <= Cardinality(Lost) + 1
    <3>1. /\ IsFiniteSet(Lost \cup {k})
          /\ Cardinality(Lost \cup {k}) =
                IF k \in Lost THEN Cardinality(Lost) ELSE Cardinality(Lost) + 1
      BY <1>1, FS_AddElement, Zenon
    <3>2. QED
      BY <1>1, <3>1
  <2>2. /\ IsFiniteSet(Lost') /\ Cardinality(Lost') \in Nat
        /\ Cardinality(Lost') <= Cardinality(Lost \cup {k})
    BY <1>3, <2>1, FS_Subset, FS_CardinalityType
  <2>3. QED
    BY <1>1, <1>3, <2>1, <2>2 DEF LossesAreErrors
<1>4. QED
  BY <1>2, <1>3

\* IngressInv is inductive.
LEMMA IngressStep ==
  ASSUME IngressInv, [Inbox!Next]_Inbox!vars
  PROVE  IngressInv'
<1> USE DEF IngressInv
<1>1. ASSUME NEW d \in Deliveries, NEW k \in DedupeKeys, Inbox!Send(d, k) PROVE IngressInv'
  <2>1. /\ delivery[d].answer = "idle"
        /\ delivery' = [delivery EXCEPT ![d] = [key |-> k, answer |-> "none"]]
        /\ UNCHANGED <<ingressRow, errors>>
    BY <1>1 DEF Inbox!Send
  <2>2. IngressTypes'
    BY <2>1 DEF IngressTypes, DeliveryStates
  <2>3. \A j \in DedupeKeys, a \in {"accepted", "duplicate"} :
           Inbox!Answered(j, a)' = Inbox!Answered(j, a)
    BY <2>1 DEF Inbox!Answered, IngressTypes
  <2>4. RowsAreAccepted' /\ Lost' = Lost
    BY <2>1, <2>3 DEF RowsAreAccepted, Lost
  <2>5. QED
    BY <2>1, <2>2, <2>4, LossStep DEF IngressTypes
<1>2. ASSUME NEW d \in Deliveries, Inbox!Ingest(d) PROVE IngressInv'
  <2>1. PICK k \in DedupeKeys : k = delivery[d].key
    BY <1>2 DEF Inbox!Ingest, IngressTypes
  <2>2. /\ delivery[d].answer = "none" /\ UNCHANGED errors
        /\ ingressRow' = [ingressRow EXCEPT ![k] = IF @ = 0 THEN 1 ELSE @]
        /\ delivery' = [delivery EXCEPT ![d].answer =
                           IF ingressRow[k] = 0 THEN "accepted" ELSE "duplicate"]
    BY <1>2, <2>1 DEF Inbox!Ingest
  <2>3. CASE ingressRow[k] = 0
    <3>1. /\ ingressRow' = [ingressRow EXCEPT ![k] = 1]
          /\ delivery' = [delivery EXCEPT ![d].answer = "accepted"]
      BY <2>2, <2>3 DEF IngressTypes
    <3>2. IngressTypes'
      BY <2>2, <3>1 DEF IngressTypes, DeliveryStates
    <3>3. /\ Inbox!Answered(k, "accepted")' = {d}
          /\ \A j \in DedupeKeys : j # k => Inbox!Answered(j, "accepted")' = Inbox!Answered(j, "accepted")
          /\ \A j \in DedupeKeys : Inbox!Answered(j, "duplicate")' = Inbox!Answered(j, "duplicate")
      <4>1. Inbox!Answered(k, "accepted") = {}
        BY <2>3 DEF RowsAreAccepted
      <4>2. \A c \in Deliveries : /\ delivery'[c].key = delivery[c].key
                                  /\ delivery'[c].answer = IF c = d THEN "accepted" ELSE delivery[c].answer
        BY <3>1 DEF IngressTypes, DeliveryStates
      <4>3. QED
        BY <2>1, <2>2, <4>1, <4>2 DEF Inbox!Answered
    <3>4. RowsAreAccepted'
      BY <3>1, <3>3 DEF RowsAreAccepted, IngressTypes
    <3>5. Lost' \subseteq Lost
      BY <3>3 DEF Lost
    <3>6. QED
      BY <2>2, <3>2, <3>4, <3>5, LossStep DEF IngressTypes
  <2>4. CASE ingressRow[k] # 0
    <3>1. /\ ingressRow' = ingressRow
          /\ delivery' = [delivery EXCEPT ![d].answer = "duplicate"]
      BY <2>2, <2>4 DEF IngressTypes
    <3>2. IngressTypes'
      BY <2>2, <3>1 DEF IngressTypes, DeliveryStates
    <3>3. \A c \in Deliveries : /\ delivery'[c].key = delivery[c].key
                                /\ delivery'[c].answer = IF c = d THEN "duplicate" ELSE delivery[c].answer
      BY <3>1 DEF IngressTypes, DeliveryStates
    <3>4. /\ \A j \in DedupeKeys : Inbox!Answered(j, "accepted")' = Inbox!Answered(j, "accepted")
          /\ \A j \in DedupeKeys : j # k => Inbox!Answered(j, "duplicate")' = Inbox!Answered(j, "duplicate")
      BY <2>1, <2>2, <3>3 DEF Inbox!Answered
    <3>5. Inbox!Answered(k, "accepted") # {}
      <4>1. ingressRow[k] = 1
        BY <2>4 DEF IngressTypes
      <4>2. QED
        BY <4>1 DEF RowsAreAccepted
    <3>6. RowsAreAccepted'
      BY <3>1, <3>4 DEF RowsAreAccepted
    <3>7. Lost' \subseteq Lost
      BY <3>4, <3>5 DEF Lost
    <3>8. QED
      BY <2>2, <3>2, <3>6, <3>7, LossStep DEF IngressTypes
  <2>5. QED
    BY <2>3, <2>4
<1>3. ASSUME NEW d \in Deliveries, Inbox!IngestFails(d) PROVE IngressInv'
  <2>1. /\ delivery[d].answer = "none" /\ errors' = errors + 1 /\ UNCHANGED ingressRow
        /\ delivery' = [delivery EXCEPT ![d].answer = "duplicate"]
    BY <1>3 DEF Inbox!IngestFails
  <2>2. IngressTypes'
    BY <2>1 DEF IngressTypes, DeliveryStates
  <2>3. \A c \in Deliveries : /\ delivery'[c].key = delivery[c].key
                              /\ delivery'[c].answer = IF c = d THEN "duplicate" ELSE delivery[c].answer
    BY <2>1 DEF IngressTypes, DeliveryStates
  <2>4. /\ \A j \in DedupeKeys : Inbox!Answered(j, "accepted")' = Inbox!Answered(j, "accepted")
        /\ \A j \in DedupeKeys : j # delivery[d].key =>
              Inbox!Answered(j, "duplicate")' = Inbox!Answered(j, "duplicate")
    BY <2>1, <2>3 DEF Inbox!Answered
  <2>5. RowsAreAccepted'
    BY <2>1, <2>4 DEF RowsAreAccepted
  <2>6. Lost' \subseteq Lost \cup {delivery[d].key}
    BY <2>4 DEF Lost
  <2>7. QED
    BY <2>1, <2>2, <2>5, <2>6, LossStep DEF IngressTypes
<1>4. CASE UNCHANGED Inbox!vars
  <2>1. UNCHANGED <<delivery, ingressRow, errors>>
    BY <1>4 DEF Inbox!vars
  <2>2. \A j, a : Inbox!Answered(j, a)' = Inbox!Answered(j, a)
    BY <2>1 DEF Inbox!Answered
  <2>3. Lost' = Lost
    BY <2>2 DEF Lost
  <2>4. QED
    BY <2>1, <2>2, <2>3 DEF IngressTypes, RowsAreAccepted, LossesAreErrors
<1>5. QED
  BY <1>1, <1>2, <1>3, <1>4 DEF Inbox!Next

\* For any number of deliveries and keys, an event is accepted once, and no more
\* events are refused without being accepted than statements failed.
THEOREM EventsAreAcceptedOnce == Inbox!Spec => [](Inbox!TypeOK /\ Inbox!AcceptedOnce)
<1>1. Inbox!Init => IngressInv
  <2>1. SUFFICES ASSUME Inbox!Init PROVE IngressInv
    OBVIOUS
  <2>2. IngressTypes
    BY <2>1 DEF Inbox!Init, IngressTypes, DeliveryStates
  <2>3. /\ \A k : Inbox!Answered(k, "accepted") = {} /\ Inbox!Answered(k, "duplicate") = {}
        /\ \A k \in DedupeKeys : ingressRow[k] = 0
    BY <2>1 DEF Inbox!Init, Inbox!Answered
  <2>4. Lost = {} /\ errors = 0
    BY <2>1, <2>3 DEF Lost, Inbox!Init
  <2>5. QED
    BY <2>2, <2>3, <2>4, FS_EmptySet DEF IngressInv, RowsAreAccepted, LossesAreErrors
<1>2. IngressInv /\ [Inbox!Next]_Inbox!vars => IngressInv'
  BY IngressStep
<1>3. IngressInv => Inbox!TypeOK /\ Inbox!AcceptedOnce
  <2>1. SUFFICES ASSUME IngressInv PROVE Inbox!TypeOK /\ Inbox!AcceptedOnce
    OBVIOUS
  <2>2. Inbox!TypeOK
    BY <2>1 DEF IngressInv, IngressTypes, DeliveryStates, Inbox!TypeOK
  <2>3. ASSUME NEW k \in DedupeKeys
        PROVE  Cardinality(Inbox!Answered(k, "accepted")) = ingressRow[k] /\ ingressRow[k] <= 1
    <3>1. ingressRow[k] \in 0..1
      BY <2>1 DEF IngressInv, IngressTypes
    <3>2. CASE ingressRow[k] = 0
      BY <2>1, <3>2, FS_EmptySet DEF IngressInv, RowsAreAccepted
    <3>3. CASE ingressRow[k] = 1
      <4>1. PICK d \in Deliveries : Inbox!Answered(k, "accepted") = {d}
        BY <2>1, <3>3 DEF IngressInv, RowsAreAccepted
      <4>2. Cardinality({d}) = 1
        BY FS_Singleton, Zenon
      <4>3. QED
        BY <3>3, <4>1, <4>2
    <3>4. QED
      BY <3>1, <3>2, <3>3
  <2>4. Cardinality(Lost) <= errors
    BY <2>1 DEF IngressInv, LossesAreErrors
  <2>5. QED
    BY <2>2, <2>3, <2>4, InboxCardinality DEF Inbox!AcceptedOnce, Lost
<1>4. QED
  BY <1>1, <1>2, <1>3, PTL DEF Inbox!Spec

---------------------------------------------------------------------------
(* Ownership, passwords and sessions.                                      *)

CONSTANTS Boots, Browsers, Passwords, MaxCodes, MaxTokens

VARIABLES owner, code, staleCodes, token, opened, everSet, boot, browser, lastMint

Owner == INSTANCE LinkAuth

\* No password is the missing one.
LinkConstants == Owner!Unset \notin Passwords

Secrets == Passwords \cup {Owner!Unset}

Clients == [pc : {"idle", "claim", "password", "mint"},
            code : Owner!Codes \cup {0}, token : Owner!Tokens \cup {0}, password : Secrets]

LinkTypes ==
  /\ owner \in [set : BOOLEAN, password : Secrets]
  /\ code \in [Owner!Codes -> {"absent", "open", "claimed", "deleted"}]
  /\ token \in [Owner!Tokens -> {"absent", "live", "revoked", "expired"}]
  /\ opened \in [Owner!Tokens -> [how : {"none", "link", "login"}, password : Secrets]]
  /\ everSet \subseteq Passwords
  /\ boot \in [Boots -> [pc : {"idle", "delete", "insert", "done"}, code : Owner!Codes \cup {0}]]
  /\ browser \in [Browsers -> Clients]

\* What a client holds between two statements was good when it was read.
HeldIsGood ==
  /\ owner.password = Owner!Unset \/ owner.password \in everSet
  /\ \A c \in Browsers :
       /\ browser[c].pc = "claim" => browser[c].code \in Owner!Codes
       /\ browser[c].pc = "password" => browser[c].password \in Passwords
       /\ browser[c].pc = "mint" => browser[c].password \in everSet

\* An owned workspace has one claimed code and one session by link, an unowned
\* one neither; a token that was never issued was never opened.
OneClaim ==
  /\ ~owner.set => /\ \A k \in Owner!Codes : code[k] # "claimed"
                   /\ \A t \in Owner!Tokens : opened[t].how # "link"
  /\ owner.set => /\ \E k \in Owner!Codes : \A j \in Owner!Codes : code[j] = "claimed" <=> j = k
                  /\ \E t \in Owner!Tokens : \A u \in Owner!Tokens : opened[u].how = "link" <=> u = t
  /\ \A t \in Owner!Tokens : token[t] = "absent" => opened[t].how = "none"

LinkInv ==
  LinkTypes /\ HeldIsGood /\ OneClaim /\ Owner!UnownedHasCode /\ Owner!SessionsHaveGrounds

LEMMA OwnerCardinality == \A S : Owner!Cardinality(S) = Cardinality(S)
BY DEF Owner!Cardinality, Cardinality

\* A row that was never there is opened, by the claim or by a login.
LEMMA OpenedSession ==
  ASSUME LinkTypes, OneClaim, NEW t \in Owner!Fresh(token), NEW how \in {"link", "login"},
         NEW password \in Secrets, Owner!Open(t, how, password)
  PROVE  /\ t \in Owner!Tokens /\ opened[t].how = "none"
         /\ token' \in [Owner!Tokens -> {"absent", "live", "revoked", "expired"}]
         /\ opened' \in [Owner!Tokens -> [how : {"none", "link", "login"}, password : Secrets]]
         /\ \A u \in Owner!Tokens : u # t => token'[u] = token[u] /\ opened'[u] = opened[u]
         /\ token'[t] = "live" /\ opened'[t].how = how /\ opened'[t].password = password
<1>1. t \in Owner!Tokens /\ token[t] = "absent"
  BY DEF Owner!Fresh, LinkTypes
<1>2. QED
  BY <1>1 DEF Owner!Open, LinkTypes, OneClaim

\* LinkInv is inductive.
LEMMA LinkStep ==
  ASSUME LinkConstants, LinkInv, [Owner!Next]_Owner!vars
  PROVE  LinkInv'
<1> USE DEF LinkInv
<1>1. ASSUME NEW b \in Boots, Owner!MintChecks(b) PROVE LinkInv'
  <2> USE <1>1 DEF Owner!MintChecks
  <2>1. LinkTypes'
    BY DEF LinkTypes
  <2>2. HeldIsGood' /\ OneClaim' /\ Owner!SessionsHaveGrounds'
    BY DEF HeldIsGood, OneClaim, Owner!SessionsHaveGrounds
  <2>3. Owner!UnownedHasCode'
    BY DEF Owner!UnownedHasCode, LinkTypes
  <2>4. QED
    BY <2>1, <2>2, <2>3
<1>2. ASSUME NEW b \in Boots, Owner!DeleteUnclaimed(b) PROVE LinkInv'
  <2> USE <1>2 DEF Owner!DeleteUnclaimed
  <2>1. LinkTypes'
    BY DEF LinkTypes
  <2>2. \A k \in Owner!Codes : code'[k] = "claimed" <=> code[k] = "claimed"
    BY DEF LinkTypes
  <2>3. HeldIsGood' /\ OneClaim' /\ Owner!SessionsHaveGrounds'
    BY <2>2 DEF HeldIsGood, OneClaim, Owner!SessionsHaveGrounds
  <2>4. Owner!UnownedHasCode'
    BY DEF Owner!UnownedHasCode, LinkTypes
  <2>5. QED
    BY <2>1, <2>3, <2>4
<1>3. ASSUME NEW b \in Boots, Owner!InsertCode(b) PROVE LinkInv'
  <2>1. UNCHANGED <<owner, staleCodes, token, opened, everSet, browser>>
    BY <1>3 DEF Owner!InsertCode
  <2>2. ASSUME NEW k \in Owner!Fresh(code), code' = [code EXCEPT ![k] = "open"],
               boot' = [boot EXCEPT ![b] = [pc |-> "done", code |-> k]], lastMint' = "ok"
        PROVE  LinkInv'
    <3>1. k \in Owner!Codes /\ code[k] = "absent"
      BY DEF Owner!Fresh, LinkTypes
    <3>2. LinkTypes'
      BY <2>1, <2>2, <3>1 DEF LinkTypes
    <3>3. code'[k] = "open" /\ \A j \in Owner!Codes : code'[j] = "claimed" <=> code[j] = "claimed"
      BY <2>2, <3>1 DEF LinkTypes
    <3>4. HeldIsGood' /\ OneClaim' /\ Owner!SessionsHaveGrounds'
      BY <2>1, <3>3 DEF HeldIsGood, OneClaim, Owner!SessionsHaveGrounds
    <3>5. Owner!UnownedHasCode'
      BY <3>1, <3>3 DEF Owner!UnownedHasCode
    <3>6. QED
      BY <3>2, <3>4, <3>5
  <2>3. CASE boot' = [boot EXCEPT ![b].pc = "done"] /\ lastMint' = "error" /\ UNCHANGED code
    BY <2>1, <2>3 DEF LinkTypes, HeldIsGood, OneClaim, Owner!UnownedHasCode,
       Owner!SessionsHaveGrounds
  <2>4. QED
    BY <1>3, <2>2, <2>3 DEF Owner!InsertCode
<1>4. ASSUME NEW c \in Browsers, Owner!Claim(c) PROVE LinkInv'
  <2>1. /\ UNCHANGED <<staleCodes, everSet, boot, lastMint>>
        /\ browser[c].pc = "claim" /\ browser' = [browser EXCEPT ![c] = Owner!Reading]
    BY <1>4 DEF Owner!Claim, Owner!Answers
  <2>2. /\ browser' \in [Browsers -> Clients]
        /\ \A d \in Browsers : browser'[d].pc = "idle" \/ browser'[d] = browser[d]
    BY <2>1 DEF LinkTypes, Owner!Reading, Owner!Client, Clients, Secrets
  <2>3. CASE UNCHANGED <<owner, code, token, opened>>
    BY <2>1, <2>2, <2>3 DEF LinkTypes, HeldIsGood, OneClaim, Owner!UnownedHasCode,
       Owner!SessionsHaveGrounds
  <2>4. ASSUME ~owner.set, code[browser[c].code] = "open",
               owner' = [set |-> TRUE, password |-> Owner!Unset],
               code' = [code EXCEPT ![browser[c].code] = "claimed"],
               NEW t \in Owner!Fresh(token), Owner!Open(t, "link", Owner!Unset)
        PROVE  LinkInv'
    <3>1. PICK k \in Owner!Codes : k = browser[c].code
      BY <2>1 DEF HeldIsGood
    <3>2. /\ t \in Owner!Tokens /\ opened[t].how = "none"
          /\ token' \in [Owner!Tokens -> {"absent", "live", "revoked", "expired"}]
          /\ opened' \in [Owner!Tokens -> [how : {"none", "link", "login"}, password : Secrets]]
          /\ \A u \in Owner!Tokens : u # t => token'[u] = token[u] /\ opened'[u] = opened[u]
          /\ token'[t] = "live" /\ opened'[t].how = "link"
      <4>1. Owner!Unset \in Secrets
        BY DEF Secrets
      <4>2. QED
        BY <2>4, <4>1, OpenedSession
    <3>3. /\ code' \in [Owner!Codes -> {"absent", "open", "claimed", "deleted"}]
          /\ \A j \in Owner!Codes : code'[j] = IF j = k THEN "claimed" ELSE code[j]
          /\ owner' \in [set : BOOLEAN, password : Secrets]
          /\ owner'.set /\ owner'.password = Owner!Unset
      BY <2>4, <3>1 DEF LinkTypes, Secrets
    <3>4. LinkTypes'
      BY <2>1, <2>2, <3>2, <3>3 DEF LinkTypes
    <3>5. OneClaim'
      <4>1. \A j \in Owner!Codes : code'[j] = "claimed" <=> j = k
        BY <2>4, <3>3 DEF OneClaim
      <4>2. \A u \in Owner!Tokens : opened'[u].how = "link" <=> u = t
        BY <2>4, <3>2 DEF OneClaim
      <4>3. \A u \in Owner!Tokens : token'[u] = "absent" => opened'[u].how = "none"
        BY <3>2 DEF OneClaim
      <4>4. QED
        BY <3>2, <3>3, <4>1, <4>2, <4>3 DEF OneClaim
    <3>6. HeldIsGood' /\ Owner!UnownedHasCode' /\ Owner!SessionsHaveGrounds'
      BY <2>1, <2>2, <3>2, <3>3
         DEF HeldIsGood, Owner!UnownedHasCode, Owner!SessionsHaveGrounds
    <3>7. QED
      BY <3>4, <3>5, <3>6
  <2>5. QED
    BY <1>4, <2>3, <2>4 DEF Owner!Claim
<1>5. ASSUME NEW c \in Browsers, Owner!SetPassword(c) PROVE LinkInv'
  <2>1. /\ UNCHANGED <<code, staleCodes, token, opened, boot, lastMint>>
        /\ browser[c].pc = "password" /\ browser' = [browser EXCEPT ![c] = Owner!Reading]
    BY <1>5 DEF Owner!SetPassword, Owner!Answers
  <2>2. /\ browser' \in [Browsers -> Clients]
        /\ \A d \in Browsers : browser'[d].pc = "idle" \/ browser'[d] = browser[d]
    BY <2>1 DEF LinkTypes, Owner!Reading, Owner!Client, Clients, Secrets
  <2>3. CASE UNCHANGED <<owner, everSet>>
    BY <2>1, <2>2, <2>3 DEF LinkTypes, HeldIsGood, OneClaim, Owner!UnownedHasCode,
       Owner!SessionsHaveGrounds
  <2>4. CASE /\ owner' = [owner EXCEPT !.password = browser[c].password]
             /\ everSet' = everSet \cup {browser[c].password}
    <3>1. browser[c].password \in Passwords
      BY <2>1 DEF HeldIsGood
    <3>2. /\ owner' \in [set : BOOLEAN, password : Secrets] /\ owner'.set = owner.set
          /\ owner'.password \in everSet' /\ everSet' \subseteq Passwords /\ everSet \subseteq everSet'
      BY <2>4, <3>1 DEF LinkTypes, Secrets
    <3>3. QED
      BY <2>1, <2>2, <3>2 DEF LinkTypes, HeldIsGood, OneClaim, Owner!UnownedHasCode,
         Owner!SessionsHaveGrounds
  <2>5. QED
    BY <1>5, <2>3, <2>4 DEF Owner!SetPassword
<1>6. ASSUME NEW c \in Browsers, Owner!MintSession(c) PROVE LinkInv'
  <2>1. /\ UNCHANGED <<owner, code, staleCodes, everSet, boot, lastMint>>
        /\ browser[c].pc = "mint" /\ browser' = [browser EXCEPT ![c] = Owner!Reading]
    BY <1>6 DEF Owner!MintSession, Owner!Answers
  <2>2. /\ browser' \in [Browsers -> Clients]
        /\ \A d \in Browsers : browser'[d].pc = "idle" \/ browser'[d] = browser[d]
    BY <2>1 DEF LinkTypes, Owner!Reading, Owner!Client, Clients, Secrets
  <2>3. CASE UNCHANGED <<token, opened>>
    BY <2>1, <2>2, <2>3 DEF LinkTypes, HeldIsGood, OneClaim, Owner!UnownedHasCode,
       Owner!SessionsHaveGrounds
  <2>4. ASSUME NEW t \in Owner!Fresh(token), Owner!Open(t, "login", browser[c].password)
        PROVE  LinkInv'
    <3>1. browser[c].password \in everSet /\ browser[c].password \in Secrets
      BY <2>1 DEF HeldIsGood, LinkTypes, Clients
    <3>2. /\ t \in Owner!Tokens /\ opened[t].how = "none"
          /\ token' \in [Owner!Tokens -> {"absent", "live", "revoked", "expired"}]
          /\ opened' \in [Owner!Tokens -> [how : {"none", "link", "login"}, password : Secrets]]
          /\ \A u \in Owner!Tokens : u # t => token'[u] = token[u] /\ opened'[u] = opened[u]
          /\ token'[t] = "live" /\ opened'[t].how = "login"
          /\ opened'[t].password = browser[c].password
      BY <2>4, <3>1, OpenedSession
    <3>3. \A u \in Owner!Tokens : opened'[u].how = "link" <=> opened[u].how = "link"
      BY <3>2
    <3>4. LinkTypes'
      BY <2>1, <2>2, <3>2 DEF LinkTypes
    <3>5. OneClaim'
      BY <2>1, <3>2, <3>3 DEF OneClaim
    <3>6. HeldIsGood' /\ Owner!UnownedHasCode' /\ Owner!SessionsHaveGrounds'
      BY <2>1, <2>2, <3>1, <3>2
         DEF HeldIsGood, Owner!UnownedHasCode, Owner!SessionsHaveGrounds
    <3>7. QED
      BY <3>4, <3>5, <3>6
  <2>5. QED
    BY <1>6, <2>3, <2>4 DEF Owner!MintSession
<1>7. ASSUME NEW c \in Browsers, NEW k \in Owner!Codes, Owner!CheckCode(c, k) PROVE LinkInv'
  <2>1. UNCHANGED <<owner, code, staleCodes, token, opened, everSet, boot, lastMint>>
    BY <1>7 DEF Owner!CheckCode
  <2>2. browser' = [browser EXCEPT ![c] = Owner!Client("claim", k, 0, Owner!Unset)]
    BY <1>7 DEF Owner!CheckCode
  <2>3. QED
    BY <2>1, <2>2 DEF LinkTypes, HeldIsGood, OneClaim, Owner!UnownedHasCode,
       Owner!SessionsHaveGrounds, Owner!Client, Clients, Secrets
<1>8. ASSUME NEW c \in Browsers, NEW t \in Owner!Tokens \cup {Owner!Bearer}, NEW p \in Passwords,
             Owner!BeginPassword(c, t, p)
      PROVE  LinkInv'
  <2>1. UNCHANGED <<owner, code, staleCodes, token, opened, everSet, boot, lastMint>>
    BY <1>8 DEF Owner!BeginPassword
  <2>2. browser' = [browser EXCEPT ![c] = Owner!Client("password", 0, t, p)]
    BY <1>8 DEF Owner!BeginPassword
  <2>3. QED
    BY <2>1, <2>2 DEF LinkTypes, HeldIsGood, OneClaim, Owner!UnownedHasCode,
       Owner!SessionsHaveGrounds, Owner!Client, Clients, Secrets, Owner!Bearer
<1>9. ASSUME NEW c \in Browsers, NEW p \in Passwords, Owner!Login(c, p) PROVE LinkInv'
  <2>1. UNCHANGED <<owner, code, staleCodes, token, opened, everSet, boot, lastMint>>
    BY <1>9 DEF Owner!Login
  <2>2. browser' = [browser EXCEPT ![c] = Owner!Client("mint", 0, 0, p)]
    BY <1>9 DEF Owner!Login
  <2>3. p \in everSet
    BY <1>9 DEF Owner!Login, Owner!VerifyPassword, HeldIsGood, LinkConstants
  <2>4. QED
    BY <2>1, <2>2, <2>3 DEF LinkTypes, HeldIsGood, OneClaim, Owner!UnownedHasCode,
       Owner!SessionsHaveGrounds, Owner!Client, Clients, Secrets
<1>10. ASSUME NEW t \in Owner!Tokens, Owner!Logout(t) \/ Owner!ExpireToken(t) PROVE LinkInv'
  <2>1. /\ UNCHANGED <<owner, code, staleCodes, opened, everSet, boot, browser, lastMint>>
        /\ token[t] = "live"
        /\ token' = [token EXCEPT ![t] = "revoked"] \/ token' = [token EXCEPT ![t] = "expired"]
    BY <1>10 DEF Owner!Logout, Owner!ExpireToken
  <2>2. QED
    BY <2>1 DEF LinkTypes, HeldIsGood, OneClaim, Owner!UnownedHasCode,
       Owner!SessionsHaveGrounds
<1>11. ASSUME NEW k \in Owner!Codes, Owner!ExpireCode(k) PROVE LinkInv'
  BY <1>11 DEF Owner!ExpireCode, LinkTypes, HeldIsGood, OneClaim, Owner!UnownedHasCode,
     Owner!SessionsHaveGrounds
<1>12. CASE UNCHANGED Owner!vars
  BY <1>12 DEF Owner!vars, LinkTypes, HeldIsGood, OneClaim, Owner!UnownedHasCode,
     Owner!SessionsHaveGrounds
<1>13. QED
  BY <1>1, <1>2, <1>3, <1>4, <1>5, <1>6, <1>7, <1>8, <1>9, <1>10, <1>11, <1>12 DEF Owner!Next

\* For any number of boots, clients, codes and sessions, a workspace is claimed
\* once, an unowned one keeps a code, and sessions have grounds.
THEOREM OwnershipHasGrounds ==
  ASSUME LinkConstants
  PROVE  Owner!Spec => [](/\ Owner!TypeOK /\ Owner!ClaimedOnce
                          /\ Owner!UnownedHasCode /\ Owner!SessionsHaveGrounds)
<1>1. Owner!Init => LinkInv
  <2>1. SUFFICES ASSUME Owner!Init PROVE LinkInv
    OBVIOUS
  <2>2. LinkTypes
    BY <2>1 DEF Owner!Init, LinkTypes, Owner!NoOwner, Owner!Reading, Owner!Client, Clients, Secrets
  <2>3. QED
    BY <2>1, <2>2 DEF Owner!Init, LinkInv, HeldIsGood, OneClaim, Owner!UnownedHasCode,
       Owner!SessionsHaveGrounds, Owner!NoOwner, Owner!Reading, Owner!Client
<1>2. LinkInv /\ [Owner!Next]_Owner!vars => LinkInv'
  BY LinkStep
<1>3. LinkInv => /\ Owner!TypeOK /\ Owner!ClaimedOnce
                 /\ Owner!UnownedHasCode /\ Owner!SessionsHaveGrounds
  <2>1. SUFFICES ASSUME LinkInv PROVE Owner!TypeOK /\ Owner!ClaimedOnce
    BY DEF LinkInv
  <2>2. Owner!TypeOK
    BY <2>1 DEF LinkInv, LinkTypes, Clients, Secrets, Owner!TypeOK
  <2> DEFINE claimed == {k \in Owner!Codes : code[k] = "claimed"}
             linked == {t \in Owner!Tokens : opened[t].how = "link"}
  <2>3. CASE ~owner.set
    <3>1. claimed = {} /\ linked = {}
      BY <2>1, <2>3 DEF LinkInv, OneClaim
    <3>2. Cardinality(claimed) = 0 /\ Cardinality(linked) = 0
      BY <3>1, FS_EmptySet
    <3>3. QED
      BY <2>2, <2>3, <3>2, OwnerCardinality DEF Owner!ClaimedOnce
  <2>4. CASE owner.set
    <3>1. PICK k : claimed = {k}
      BY <2>1, <2>4 DEF LinkInv, OneClaim
    <3>2. PICK t : linked = {t}
      <4>1. PICK t \in Owner!Tokens : \A u \in Owner!Tokens : opened[u].how = "link" <=> u = t
        BY <2>1, <2>4 DEF LinkInv, OneClaim
      <4>2. linked = {t}
        BY <4>1
      <4>3. QED
        BY <4>2
    <3>3. Cardinality({k}) = 1 /\ Cardinality({t}) = 1
      BY FS_Singleton, Zenon
    <3>4. Cardinality(claimed) = 1 /\ Cardinality(linked) = 1
      BY <3>1, <3>2, <3>3
    <3>5. QED
      BY <2>2, <2>4, <3>4, OwnerCardinality DEF Owner!ClaimedOnce
  <2>5. QED
    BY <2>3, <2>4
<1>4. QED
  BY <1>1, <1>2, <1>3, PTL DEF Owner!Spec

---------------------------------------------------------------------------
(* Nothing is let in twice or without grounds: a repeated event is accepted
   once, and one refused without ever being accepted was lost to a storage
   error; a workspace is claimed once whatever codes race, an unowned one
   keeps an open code through two boots, and a session comes from the claim
   or a password the owner had set.                                        *)
GroundsHold ==
  /\ Inbox!TypeOK /\ Inbox!AcceptedOnce
  /\ Owner!TypeOK /\ Owner!ClaimedOnce /\ Owner!UnownedHasCode /\ Owner!SessionsHaveGrounds

\* Inbox and ownership side by side, for every configuration.
THEOREM GroundsAreKept ==
  ASSUME LinkConstants
  PROVE  Inbox!Spec /\ Owner!Spec => []GroundsHold
<1>1. /\ Inbox!Spec => [](Inbox!TypeOK /\ Inbox!AcceptedOnce)
      /\ Owner!Spec => [](/\ Owner!TypeOK /\ Owner!ClaimedOnce
                          /\ Owner!UnownedHasCode /\ Owner!SessionsHaveGrounds)
  BY EventsAreAcceptedOnce, OwnershipHasGrounds
<1>2. QED
  BY <1>1, PTL DEF GroundsHold

---------------------------------------------------------------------------
(* The gate of the HTTP routes.                                            *)

CONSTANTS Configs, Workspaces, Logins, SessionOf, Limit, MaxRequests

VARIABLES config, tokens, ended, request, seen, counted, spent, refused, served

Door == INSTANCE Gate WITH Sessions <- Logins

\* A missing header is no workspace and no session.
GateConstants ==
  /\ Configs \subseteq [pg : BOOLEAN, local : BOOLEAN, trustProxy : BOOLEAN, secret : BOOLEAN]
  /\ Door!None \notin Workspaces \cup Logins
  /\ Limit \in Nat

Calls == [pc : {"limit", "auth", "dispatch", "refused", "admitted"},
          h : Door!Headers, route : Door!Routes, ws : Workspaces]

GateTypes ==
  /\ config \in Configs
  /\ counted \in [Workspaces -> Nat] /\ spent \in [Workspaces -> Nat]
  /\ refused \in [Workspaces -> Nat]
  /\ request \in Calls \/ request = Door!Idle

\* On Postgres a request is at the limiter once it has been judged; only a
\* command meets the limiter and the engine.
JudgedBeforeLimit ==
  /\ request.pc \in {"limit", "dispatch"} => request.route = "command"
  /\ request.pc = "limit" /\ config.pg => Door!HasGrounds(request, seen)

\* What is gone from a full bucket was taken, less what came back.
EmptyWasSpent == \A w \in Workspaces : tokens[w] + spent[w] >= Limit

GateInv == Door!AdmissionIsAccounted /\ GateTypes /\ JudgedBeforeLimit /\ EmptyWasSpent

\* enforce_auth's order of checks and early returns refuses exactly those who
\* have no grounds.
LEMMA CascadeIsExact ==
  ASSUME GateConstants, config \in Configs, NEW r \in Calls
  PROVE  Door!Cascade(r.h, r.route, r.ws) = "refuse" <=> ~Door!HasGrounds(r, ended)
<1> USE DEF GateConstants, Calls, Door!Headers, Door!Routes
<1>1. CASE config.local /\ ~config.secret
  BY <1>1 DEF Door!Cascade, Door!LocalBypass, Door!HasGrounds
<1>2. CASE ~(config.local /\ ~config.secret)
  <2>1. Door!LocalBypass(r.h) = "next"
    BY <1>2 DEF Door!LocalBypass
  <2>2. CASE r.h.bearer # Door!None
    BY <1>2, <2>1, <2>2 DEF Door!Cascade, Door!BearerAuth, Door!HasGrounds
  <2>3. CASE r.h.bearer = Door!None /\ r.h.cookie = Door!None
    BY <1>2, <2>1, <2>3 DEF Door!Cascade, Door!BearerAuth, Door!HasGrounds, Door!MissingAuth
  <2>4. CASE r.h.bearer = Door!None /\ r.h.cookie # Door!None
    <3>1. CASE r.h.cookie \in Logins
      <4>1. r.h.cookie \in Door!FetchSession(r.h)
        BY <3>1 DEF Door!FetchSession
      <4>2. Door!Cascade(r.h, r.route, r.ws) = Door!SessionAuth(r.h.cookie, r.h, r.route, r.ws)
        BY <2>1, <2>4, <4>1 DEF Door!Cascade, Door!BearerAuth
      <4>3. QED
        BY <1>2, <2>4, <3>1, <4>2 DEF Door!SessionAuth, Door!CsrfHeader, Door!HasGrounds
    <3>2. CASE r.h.cookie \notin Logins
      <4>1. Door!FetchSession(r.h) = {}
        BY <3>2 DEF Door!FetchSession
      <4>2. QED
        BY <1>2, <2>1, <2>4, <3>2, <4>1 DEF Door!Cascade, Door!BearerAuth, Door!HasGrounds
    <3>3. QED
      BY <3>1, <3>2
  <2>5. QED
    BY <2>2, <2>3, <2>4
<1>3. QED
  BY <1>1, <1>2

\* Grounds are a matter of the headers, the route and the workspace.
LEMMA GroundsStay ==
  ASSUME config' = config, request'.h = request.h, request'.route = request.route,
         request'.ws = request.ws
  PROVE  Door!HasGrounds(request, seen)' <=> Door!HasGrounds(request, seen')
BY DEF Door!HasGrounds

\* What Goto leaves of a request.
LEMMA GotoKeeps ==
  ASSUME NEW place \in {"limit", "auth", "dispatch", "refused", "admitted"},
         request \in Calls, Door!Goto(place)
  PROVE  /\ request' \in Calls /\ request'.pc = place /\ request'.h = request.h
         /\ request'.route = request.route /\ request'.ws = request.ws
BY DEF Calls, Door!Goto

\* GateInv is inductive: the two routers take the checks in opposite orders,
\* and sessions end and buckets refill between them.
LEMMA GateStep ==
  ASSUME GateConstants, GateInv, [Door!Next]_Door!vars
  PROVE  GateInv'
<1> USE DEF GateConstants, GateInv, Door!AdmissionIsAccounted, GateTypes, Door!TypeOK
<1>0. request.pc # "idle" => request \in Calls
  BY DEF Door!Idle
<1>a. config.pg \in BOOLEAN
  OBVIOUS
<1>1. ASSUME NEW h \in Door!Headers, NEW route \in Door!Routes, NEW w \in Workspaces,
             Door!Arrive(h, route, w)
      PROVE  GateInv'
  <2>1. request' \in Calls /\ request'.pc \in {"limit", "auth"} /\ request'.route = route
    BY <1>1 DEF Door!Arrive, Calls
  <2>2. request'.pc = "limit" => ~config.pg /\ route = "command"
    BY <1>1 DEF Door!Arrive
  <2>3. request'.pc = "auth" => config.pg \/ route # "command"
    BY <1>1 DEF Door!Arrive
  <2>4. UNCHANGED <<config, tokens, ended, seen, counted, spent, refused>>
        /\ request.pc \in {"idle", "refused", "admitted"}
    BY <1>1 DEF Door!Arrive
  <2>5. Door!BudgetIsAccounted'
    BY <2>1, <2>2, <2>3, <2>4 DEF Door!BudgetIsAccounted
  <2>6. QED
    BY <2>1, <2>2, <2>4, <2>5 DEF Door!AdmissionIsExact, JudgedBeforeLimit, EmptyWasSpent
<1>2. CASE Door!EnforceAuth
  <2>1. request \in Calls /\ request.pc = "auth" /\ seen' = ended
        /\ UNCHANGED <<config, tokens, ended, counted, spent, served>>
    BY <1>0, <1>2 DEF Door!EnforceAuth
  <2>2. CASE Door!Cascade(request.h, request.route, request.ws) = "refuse"
    <3>1. /\ Door!Goto("refused")
          /\ refused' = IF request.route = "command"
                        THEN [refused EXCEPT ![request.ws] = @ + 1] ELSE refused
      BY <1>2, <2>2 DEF Door!EnforceAuth
    <3>2. /\ request' \in Calls /\ request'.pc = "refused" /\ request'.h = request.h
          /\ request'.route = request.route /\ request'.ws = request.ws
      BY <2>1, <3>1, GotoKeeps
    <3>3. ~Door!HasGrounds(request, seen)'
      BY <2>1, <2>2, <3>2, GroundsStay, CascadeIsExact
    <3>4. refused' \in [Workspaces -> Nat]
      BY <2>1, <3>1 DEF Calls
    <3>5. Door!BudgetIsAccounted'
      <4> SUFFICES ASSUME NEW w \in Workspaces
                   PROVE  spent[w] = counted[w] + (IF config.pg THEN 0 ELSE refused'[w])
        BY <2>1, <3>2 DEF Door!BudgetIsAccounted
      <4>1. CASE request.ws = w /\ request.route = "command"
        BY <2>1, <3>1, <4>1 DEF Door!BudgetIsAccounted
      <4>2. CASE ~(request.ws = w /\ request.route = "command")
        BY <2>1, <3>1, <4>2 DEF Door!BudgetIsAccounted
      <4>3. QED
        BY <4>1, <4>2
    <3>6. QED
      BY <2>1, <3>2, <3>3, <3>4, <3>5 DEF Door!AdmissionIsExact, JudgedBeforeLimit, EmptyWasSpent
  <2>3. CASE Door!Cascade(request.h, request.route, request.ws) # "refuse"
    <3> DEFINE next == IF request.route = "read" THEN "admitted"
                       ELSE IF config.pg THEN "limit" ELSE "dispatch"
    <3>1. Door!Goto(next) /\ UNCHANGED refused
      BY <1>2, <2>3 DEF Door!EnforceAuth
    <3>2. /\ request' \in Calls /\ request'.pc = next /\ request'.h = request.h
          /\ request'.route = request.route /\ request'.ws = request.ws
      BY <2>1, <3>1, GotoKeeps
    <3>3. Door!HasGrounds(request, seen)'
      BY <2>1, <2>3, <3>2, GroundsStay, CascadeIsExact
    <3>4. request.route \in {"command", "read"}
      BY <2>1 DEF Calls, Door!Routes
    <3>5. Door!BudgetIsAccounted'
      BY <2>1, <3>1, <3>2, <3>4 DEF Door!BudgetIsAccounted
    <3>6. QED
      BY <2>1, <3>1, <3>2, <3>3, <3>4, <3>5
         DEF Door!AdmissionIsExact, JudgedBeforeLimit, EmptyWasSpent
  <2>4. QED
    BY <2>2, <2>3
<1>3. CASE Door!EnforceRateLimit
  <2>1. request \in Calls /\ request.pc = "limit" /\ request.ws \in Workspaces
        /\ UNCHANGED <<config, ended, seen, counted, refused, served>>
    BY <1>0, <1>3 DEF Door!EnforceRateLimit, Calls
  <2>2. CASE tokens[request.ws] >= 1
    <3> DEFINE next == IF config.pg THEN "dispatch" ELSE "auth"
    <3>1. /\ tokens' = [tokens EXCEPT ![request.ws] = @ - 1]
          /\ spent' = [spent EXCEPT ![request.ws] = @ + 1]
          /\ Door!Goto(next)
      BY <1>3, <2>2 DEF Door!EnforceRateLimit
    <3>2. /\ request' \in Calls /\ request'.pc = next /\ request'.h = request.h
          /\ request'.route = request.route /\ request'.ws = request.ws
      BY <2>1, <3>1, GotoKeeps
    <3>3. Door!HasGrounds(request, seen)' <=> Door!HasGrounds(request, seen)
      BY <2>1, <3>2, GroundsStay
    <3>4. tokens' \in [Workspaces -> 0..Limit] /\ spent' \in [Workspaces -> Nat]
      BY <2>1, <2>2, <3>1
    <3>5. EmptyWasSpent'
      BY <2>1, <2>2, <3>1 DEF EmptyWasSpent
    <3>6. Door!BudgetIsAccounted'
      BY <2>1, <3>1, <3>2 DEF Door!BudgetIsAccounted, JudgedBeforeLimit
    <3>7. Door!AdmissionIsExact' /\ JudgedBeforeLimit'
      BY <2>1, <3>2, <3>3 DEF Door!AdmissionIsExact, JudgedBeforeLimit
    <3>8. QED
      BY <2>1, <3>2, <3>4, <3>5, <3>6, <3>7
  <2>3. CASE ~(tokens[request.ws] >= 1)
    <3>1. Door!Goto("refused") /\ UNCHANGED <<tokens, spent>>
      BY <1>3, <2>3 DEF Door!EnforceRateLimit
    <3>2. /\ request' \in Calls /\ request'.pc = "refused" /\ request'.h = request.h
          /\ request'.route = request.route /\ request'.ws = request.ws
      BY <2>1, <3>1, GotoKeeps
    <3>3. spent[request.ws] >= Limit
      BY <2>1, <2>3 DEF EmptyWasSpent
    <3>4. Door!BudgetIsAccounted'
      BY <2>1, <3>1, <3>2 DEF Door!BudgetIsAccounted
    <3>5. QED
      BY <2>1, <3>1, <3>2, <3>3, <3>4 DEF Door!AdmissionIsExact, JudgedBeforeLimit, EmptyWasSpent
  <2>4. QED
    BY <2>2, <2>3
<1>4. CASE Door!DispatchCommand
  <2>1. request \in Calls /\ request.pc = "dispatch" /\ request.ws \in Workspaces
        /\ UNCHANGED <<config, tokens, ended, seen, spent, refused, served>>
        /\ counted' = [counted EXCEPT ![request.ws] = @ + 1] /\ Door!Goto("admitted")
    BY <1>0, <1>4 DEF Door!DispatchCommand, Calls
  <2>2. /\ request' \in Calls /\ request'.pc = "admitted" /\ request'.h = request.h
        /\ request'.route = request.route /\ request'.ws = request.ws
    BY <2>1, GotoKeeps
  <2>3. Door!HasGrounds(request, seen)' <=> Door!HasGrounds(request, seen)
    BY <2>1, <2>2, GroundsStay
  <2>4. Door!BudgetIsAccounted'
    BY <2>1, <2>2 DEF Door!BudgetIsAccounted, JudgedBeforeLimit
  <2>5. QED
    BY <2>1, <2>2, <2>3, <2>4 DEF Door!AdmissionIsExact, JudgedBeforeLimit, EmptyWasSpent
<1>5. ASSUME NEW s \in Logins, Door!EndSession(s) PROVE GateInv'
  <2>1. UNCHANGED <<config, tokens, request, seen, counted, spent, refused, served>>
        /\ ended' \subseteq Logins
    BY <1>5 DEF Door!EndSession
  <2>2. Door!HasGrounds(request, seen)' <=> Door!HasGrounds(request, seen)
    BY <2>1, GroundsStay
  <2>3. QED
    BY <2>1, <2>2 DEF Door!AdmissionIsExact, JudgedBeforeLimit, EmptyWasSpent,
       Door!BudgetIsAccounted
<1>6. ASSUME NEW w \in Workspaces, Door!RefillBucket(w) PROVE GateInv'
  <2>1. UNCHANGED <<config, ended, request, seen, counted, spent, refused, served>>
        /\ tokens' = [tokens EXCEPT ![w] = @ + 1] /\ tokens[w] < Limit
    BY <1>6 DEF Door!RefillBucket
  <2>2. Door!HasGrounds(request, seen)' <=> Door!HasGrounds(request, seen)
    BY <2>1, GroundsStay
  <2>3. tokens' \in [Workspaces -> 0..Limit] /\ EmptyWasSpent'
    BY <2>1 DEF EmptyWasSpent
  <2>4. QED
    BY <2>1, <2>2, <2>3 DEF Door!AdmissionIsExact, JudgedBeforeLimit, Door!BudgetIsAccounted
<1>7. CASE UNCHANGED Door!vars
  <2>1. UNCHANGED <<config, tokens, ended, request, seen, counted, spent, refused, served>>
    BY <1>7 DEF Door!vars
  <2>2. Door!HasGrounds(request, seen)' <=> Door!HasGrounds(request, seen)
    BY <2>1, GroundsStay
  <2>3. QED
    BY <2>1, <2>2 DEF Door!AdmissionIsExact, JudgedBeforeLimit, EmptyWasSpent,
       Door!BudgetIsAccounted
<1>8. QED
  BY <1>1, <1>2, <1>3, <1>4, <1>5, <1>6, <1>7 DEF Door!Next

(* A request is served exactly on its grounds, judged when its session row
   was read: the order of checks and early returns of enforce_auth lets
   through nobody else and turns nobody else away. Every token taken from a
   budget is a counted command, one about to be counted, or on SQLite one
   that enforce_auth refused after the limiter.                            *)
AdmissionIsAccounted == Door!AdmissionIsAccounted

\* Whoever is served has grounds that held when the session row was read, who
\* has them is refused only by an empty bucket, and every token taken is a
\* counted command or, on SQLite, one that enforce_auth refused.
THEOREM GateIsExact ==
  ASSUME GateConstants
  PROVE  Door!Spec => []AdmissionIsAccounted
<1>1. Door!Init => GateInv
  <2> SUFFICES ASSUME Door!Init PROVE GateInv
    OBVIOUS
  <2>1. request = Door!Idle /\ request.pc = "idle"
    BY DEF Door!Init, Door!Idle
  <2>2. Door!AdmissionIsAccounted
    BY <2>1 DEF Door!Init, Door!AdmissionIsAccounted, Door!TypeOK, Door!AdmissionIsExact,
       Door!BudgetIsAccounted, Door!Zero, GateConstants
  <2>3. GateTypes /\ EmptyWasSpent /\ JudgedBeforeLimit
    BY <2>1 DEF Door!Init, GateTypes, EmptyWasSpent, JudgedBeforeLimit, Door!Zero, GateConstants
  <2>4. QED
    BY <2>2, <2>3 DEF GateInv
<1>2. GateInv /\ [Door!Next]_Door!vars => GateInv'
  BY GateStep
<1>3. GateInv => AdmissionIsAccounted
  BY DEF GateInv, AdmissionIsAccounted
<1>4. QED
  BY <1>1, <1>2, <1>3, PTL DEF Door!Spec

---------------------------------------------------------------------------
(* Ranks: what ORDER BY and LIMIT rest on.                                 *)

\* A nonempty set of numbers has a first one.
LEMMA FirstNumber ==
  ASSUME NEW T, T \subseteq Nat, T # {}
  PROVE  \E i \in T : \A j \in T : i <= j
<1> DEFINE R == {p \in Nat \X Nat : p[1] < p[2]}
<1>1. IsWellFoundedOn(R, Nat)
  BY NatLessThanWellFounded, Zenon DEF OpToRel
<1>2. \E i \in T : \A j \in T : ~(<<j, i>> \in R)
  <2> HIDE DEF R
  <2> QED
    BY <1>1, WFMin
<1>3. \A i, j \in Nat : <<j, i>> \in R <=> j < i
  OBVIOUS
<1>4. PICK i \in T : \A j \in T : ~(<<j, i>> \in R)
  BY <1>2, Zenon
<1>5. \A j \in T : i <= j
  <2>1. \A j \in T : ~(j < i)
    BY <1>3, <1>4
  <2>2. QED
    BY <2>1
<1>6. QED
  BY <1>5

Rank(id, rows) == Cardinality({r \in rows : r < id})

\* The members below one are finitely many, fewer than all, and more the higher it is.
LEMMA RankFacts ==
  ASSUME NEW S, IsFiniteSet(S), S \subseteq Nat
  PROVE  /\ \A i \in S : Rank(i, S) \in 0..(Cardinality(S) - 1)
         /\ \A i, j \in S : i < j => Rank(i, S) < Rank(j, S)
<1> DEFINE B(i) == {r \in S : r < i}
<1>1. \A i \in S : IsFiniteSet(B(i)) /\ Cardinality(B(i)) \in Nat
  <2> SUFFICES ASSUME NEW i \in S PROVE IsFiniteSet(B(i)) /\ Cardinality(B(i)) \in Nat
    OBVIOUS
  <2>1. B(i) \in SUBSET S
    OBVIOUS
  <2>2. QED
    BY <2>1, FS_Subset, FS_CardinalityType
<1>2. ASSUME NEW i \in S, NEW T, IsFiniteSet(T), i \in T, B(i) \subseteq T
      PROVE  Cardinality(B(i)) < Cardinality(T)
  <2>1. B(i) \in SUBSET T /\ i \notin B(i)
    BY <1>2
  <2>2. IsFiniteSet(B(i)) /\ Cardinality(B(i)) <= Cardinality(T) /\ (Cardinality(T) = Cardinality(B(i)) => T = B(i))
    BY <1>2, <2>1, FS_Subset
  <2>3. Cardinality(T) \in Nat /\ Cardinality(B(i)) \in Nat
    BY <1>1, <1>2, FS_CardinalityType
  <2>4. QED
    BY <1>2, <2>1, <2>2, <2>3
<1>3. \A i \in S : Cardinality(B(i)) < Cardinality(S)
  <2> SUFFICES ASSUME NEW i \in S PROVE Cardinality(B(i)) < Cardinality(S)
    OBVIOUS
  <2>1. B(i) \subseteq S
    OBVIOUS
  <2>2. QED
    BY <1>2, <2>1
<1>4. \A i, j \in S : i < j => Cardinality(B(i)) < Cardinality(B(j))
  <2> SUFFICES ASSUME NEW i \in S, NEW j \in S, i < j PROVE Cardinality(B(i)) < Cardinality(B(j))
    OBVIOUS
  <2>1. \A r \in S : r \in Nat
    OBVIOUS
  <2>2. \A r \in S : r < i => r < j
    BY <2>1
  <2>3. i \in B(j) /\ B(i) \subseteq B(j)
    BY <2>2
  <2>4. IsFiniteSet(B(j))
    BY <1>1
  <2>5. QED
    BY <1>2, <2>3, <2>4
<1>5. Cardinality(S) \in Nat
  BY FS_CardinalityType
<1>6. QED
  BY <1>1, <1>3, <1>4, <1>5 DEF Rank

\* Every rank below the size is somebody's.
LEMMA RanksAreFilled ==
  ASSUME NEW S, IsFiniteSet(S), S \subseteq Nat, NEW n \in 0..(Cardinality(S) - 1)
  PROVE  \E i \in S : Rank(i, S) = n
<1> DEFINE N == Cardinality(S)
           D == 0..(N - 1)
           f == [i \in S |-> Rank(i, S)]
<1>1. N \in Nat /\ IsFiniteSet(D) /\ Cardinality(D) = N
  <2>1. N \in Nat
    BY FS_CardinalityType
  <2>2. 0 \in Int /\ (N - 1) \in Int
    BY <2>1
  <2>3. IsFiniteSet(D) /\ Cardinality(D) = IF 0 > N - 1 THEN 0 ELSE (N - 1) - 0 + 1
    BY <2>2, FS_Interval
  <2>4. QED
    BY <2>1, <2>3
<1>2. f \in [S -> D] /\ \A i, j \in S : f[i] = f[j] => i = j
  <2>1. f \in [S -> D]
    BY RankFacts
  <2>2. ASSUME NEW i \in S, NEW j \in S, f[i] = f[j] PROVE i = j
    <3>1. Rank(i, S) \in 0..(N - 1) /\ (i < j => Rank(i, S) < Rank(j, S)) /\ (j < i => Rank(j, S) < Rank(i, S))
      BY RankFacts
    <3>2. Rank(i, S) = Rank(j, S) /\ Rank(i, S) \in Nat /\ i \in Nat /\ j \in Nat
      BY <2>2, <3>1, <1>1
    <3> HIDE DEF f, N, D
    <3>3. QED
      BY <3>1, <3>2
  <2>3. QED
    BY <2>1, <2>2
<1>3. f \in Injection(S, D)
  BY <1>2 DEF Injection, IsInjective
<1>4. f \in Surjection(S, D)
  <2> HIDE DEF f, D
  <2> QED
    BY <1>1, <1>3, FS_Injection
<1>5. n \in D
  OBVIOUS
<1>6. QED
  BY <1>4, <1>5 DEF Surjection

\* Ranks tell the members apart.
LEMMA RanksDiffer ==
  ASSUME NEW S, IsFiniteSet(S), S \subseteq Nat, NEW i \in S, NEW j \in S
  PROVE  /\ Rank(i, S) \in Nat
         /\ Rank(i, S) = Rank(j, S) => i = j
         /\ Rank(i, S) < Rank(j, S) => i < j
<1>1. /\ Rank(i, S) \in 0..(Cardinality(S) - 1) /\ Rank(j, S) \in 0..(Cardinality(S) - 1)
      /\ i < j => Rank(i, S) < Rank(j, S)
      /\ j < i => Rank(j, S) < Rank(i, S)
  BY RankFacts
<1>2. Cardinality(S) \in Nat
  BY FS_CardinalityType
<1>3. i \in Nat /\ j \in Nat
  OBVIOUS
<1>4. QED
  BY <1>1, <1>2, <1>3

\* Rows of pairwise different ranks inside an interval are no more than it.
LEMMA FewRanks ==
  ASSUME NEW P, NEW f, NEW a \in Nat, NEW n \in Nat, f \in [P -> a..(a + n - 1)],
         \A i, j \in P : f[i] = f[j] => i = j
  PROVE  IsFiniteSet(P) /\ Cardinality(P) <= n
<1> DEFINE D == a..(a + n - 1)
<1>1. IsFiniteSet(D) /\ Cardinality(D) = n
  <2>1. a \in Int /\ (a + n - 1) \in Int
    OBVIOUS
  <2>2. IsFiniteSet(D) /\ Cardinality(D) = IF a > a + n - 1 THEN 0 ELSE (a + n - 1) - a + 1
    BY <2>1, FS_Interval
  <2>3. QED
    BY <2>2
<1>2. f \in Injection(P, D)
  BY DEF Injection, IsInjective
<1>3. QED
  <2> HIDE DEF D
  <2> QED
    BY <1>1, <1>2, FS_Injection

\* The members above one are all but itself and those below.
LEMMA RanksMirror ==
  ASSUME NEW S, IsFiniteSet(S), S \subseteq Nat, NEW i \in S
  PROVE  Cardinality({r \in S : r > i}) = Cardinality(S) - 1 - Rank(i, S)
<1> DEFINE B == {r \in S : r < i}
           A == {r \in S : r > i}
<1>1. B \in SUBSET S /\ A \in SUBSET S /\ IsFiniteSet(A) /\ IsFiniteSet(B)
  <2>1. B \in SUBSET S /\ A \in SUBSET S
    OBVIOUS
  <2> HIDE DEF A, B
  <2>2. QED
    BY <2>1, FS_Subset
<1>2. S = (A \cup B) \cup {i} /\ i \notin A \cup B /\ A \cap B = {}
  <2>1. \A r \in S : r \in Nat /\ (r < i \/ r = i \/ r > i) /\ ~(r < i /\ r > i) /\ ~(i < i) /\ ~(i > i)
    OBVIOUS
  <2>2. QED
    BY <2>1
<1> HIDE DEF A, B
<1>3. IsFiniteSet(A \cup B) /\ Cardinality(A \cup B) = Cardinality(A) + Cardinality(B) - Cardinality(A \cap B)
  BY <1>1, FS_Union
<1>4. Cardinality(A \cap B) = 0
  BY <1>2, FS_EmptySet
<1>5. Cardinality(S) = Cardinality(A \cup B) + 1
  BY <1>2, <1>3, FS_AddElement
<1>6. Cardinality(A) \in Nat /\ Cardinality(B) \in Nat /\ Cardinality(A \cup B) \in Nat
  BY <1>1, <1>3, FS_CardinalityType
<1>7. Rank(i, S) = Cardinality(B)
  BY DEF Rank, B
<1>8. Cardinality(A) = Cardinality(S) - 1 - Rank(i, S)
  BY <1>3, <1>4, <1>5, <1>6, <1>7
<1>9. QED
  BY <1>8 DEF A

---------------------------------------------------------------------------
(* The REST and GraphQL views.                                             *)

CONSTANTS Tables, RowKeys, Values, Args, MaxPage, MaxWrites

VARIABLES row, walk, restLost, reached, writes

Rest == INSTANCE AutoRest WITH Keys <- RowKeys, lost <- restLost

\* Keys sort like numbers, columns hold numbers, a page holds a row, and no
\* workspace is called like a missing one.
RestConstants ==
  /\ RowKeys \subseteq Nat /\ Values \subseteq Nat /\ MaxPage \in Nat \ {0}
  /\ "absent" \notin Workspaces /\ "none" \notin Workspaces

Rows == [ws : Workspaces, val : {0} \cup Values]
Orders == {"asc", "desc"}
Walks == [pc : {"idle", "walking", "ended"}, ws : Workspaces \cup {"none"}, order : Orders,
          limit : Nat \ {0}, api : {"rest", "graphql"}, begun : SUBSET RowKeys, got : SUBSET RowKeys, offset : Nat]

\* The keys of a workspace.
KeysOf(w) == {k \in RowKeys : row[k] # Rest!Absent /\ row[k].ws = w}

RestTypes ==
  /\ row \in [RowKeys -> {Rest!Absent} \cup Rows]
  /\ walk \in Walks /\ restLost \in BOOLEAN

\* Unless a row was deleted, what the walk has not got is still ahead of it.
WalkIsAhead ==
  /\ walk.pc = "walking" /\ ~restLost =>
       \A k \in walk.begun :
          k \in KeysOf(walk.ws) /\ (k \in walk.got \/ Rest!Rank(k, KeysOf(walk.ws), walk.order) >= walk.offset)
  /\ walk.pc = "ended" /\ ~restLost => walk.begun \subseteq walk.got

RestInv == RestTypes /\ IsFiniteSet(Rest!Present) /\ WalkIsAhead

LEMMA RestCounts == \A S : Rest!Cardinality(S) = Cardinality(S)
BY DEF Rest!Cardinality, Cardinality

\* Ranks in either order: different, without gaps, and no smaller among more rows.
LEMMA PageRanks ==
  ASSUME NEW S, IsFiniteSet(S), S \subseteq Nat, NEW o \in Orders
  PROVE  /\ \A k \in S : Rest!Rank(k, S, o) \in 0..(Cardinality(S) - 1)
         /\ \A i, j \in S : Rest!Rank(i, S, o) = Rest!Rank(j, S, o) => i = j
         /\ \A n \in 0..(Cardinality(S) - 1) : \E k \in S : Rest!Rank(k, S, o) = n
<1> DEFINE N == Cardinality(S)
<1>1. N \in Nat
  BY FS_CardinalityType
<1>2. \A k \in S : Rank(k, S) \in 0..(N - 1)
  BY RankFacts
<1>3. \A i, j \in S : Rank(i, S) = Rank(j, S) => i = j
  BY RanksDiffer
<1>4. \A n \in 0..(N - 1) : \E k \in S : Rank(k, S) = n
  BY RanksAreFilled
<1>5. CASE o = "asc"
  <2>1. \A k \in S : Rest!Rank(k, S, o) = Rank(k, S)
    <3> SUFFICES ASSUME NEW k \in S PROVE Rest!Rank(k, S, o) = Rank(k, S)
      OBVIOUS
    <3>1. {r \in S : IF o = "asc" THEN r < k ELSE r > k} = {r \in S : r < k}
      BY <1>5
    <3>2. QED
      BY <3>1, RestCounts DEF Rank, Rest!Rank
  <2> HIDE DEF N
  <2>2. QED
    BY <1>2, <1>3, <1>4, <2>1 DEF N
<1>6. CASE o = "desc"
  <2>1. \A k \in S : Rest!Rank(k, S, o) = N - 1 - Rank(k, S)
    <3> SUFFICES ASSUME NEW k \in S PROVE Rest!Rank(k, S, o) = N - 1 - Rank(k, S)
      OBVIOUS
    <3>1. {r \in S : IF o = "asc" THEN r < k ELSE r > k} = {r \in S : r > k}
      BY <1>6
    <3>2. Cardinality({r \in S : r > k}) = Cardinality(S) - 1 - Rank(k, S)
      BY RanksMirror
    <3>3. QED
      BY <3>1, <3>2, RestCounts DEF Rest!Rank
  <2> HIDE DEF N
  <2>2. \A k \in S : Rank(k, S) \in Nat /\ Rank(k, S) <= N - 1
    BY <1>1, <1>2
  <2>3. \A k \in S : Rest!Rank(k, S, o) \in 0..(N - 1)
    BY <1>1, <2>1, <2>2
  <2>4. ASSUME NEW i \in S, NEW j \in S, Rest!Rank(i, S, o) = Rest!Rank(j, S, o) PROVE i = j
    <3>1. N - 1 - Rank(i, S) = N - 1 - Rank(j, S)
      BY <2>1, <2>4
    <3>2. Rank(i, S) = Rank(j, S)
      BY <1>1, <2>2, <3>1
    <3>3. QED
      BY <1>3, <3>2
  <2>5. ASSUME NEW n \in 0..(N - 1) PROVE \E k \in S : Rest!Rank(k, S, o) = n
    <3>1. N - 1 - n \in 0..(N - 1)
      BY <1>1
    <3>2. PICK k \in S : Rank(k, S) = N - 1 - n
      BY <1>4, <3>1
    <3>3. Rest!Rank(k, S, o) = n
      BY <1>1, <2>1, <3>2
    <3>4. QED
      BY <3>3
  <2>6. QED
    BY <2>3, <2>4, <2>5 DEF N
<1>7. QED
  BY <1>5, <1>6 DEF Orders

LEMMA RanksGrow ==
  ASSUME NEW S, NEW T, IsFiniteSet(T), S \subseteq T, NEW k, NEW o \in Orders
  PROVE  Rest!Rank(k, S, o) <= Rest!Rank(k, T, o) /\ Rest!Rank(k, S, o) \in Nat /\ Rest!Rank(k, T, o) \in Nat
<1> DEFINE In(R) == {r \in R : IF o = "asc" THEN r < k ELSE r > k}
<1>1. In(S) \in SUBSET In(T) /\ In(T) \in SUBSET T
  OBVIOUS
<1>2. Rest!Rank(k, S, o) = Cardinality(In(S)) /\ Rest!Rank(k, T, o) = Cardinality(In(T))
  BY RestCounts DEF Rest!Rank
<1> HIDE DEF In
<1>3. IsFiniteSet(In(T))
  BY <1>1, FS_Subset
<1>4. IsFiniteSet(In(S)) /\ Cardinality(In(S)) <= Cardinality(In(T))
  BY <1>1, <1>3, FS_Subset
<1>5. QED
  BY <1>2, <1>3, <1>4, FS_CardinalityType

\* The rows a request touches are of the workspace it names.
LEMMA WhereReads ==
  /\ \A w : Rest!Where(w, {}) = KeysOf(w)
  /\ \A w, fs : Rest!Where(w, fs) \subseteq KeysOf(w)
BY DEF Rest!Where, Rest!Present, KeysOf

LEMMA KeysAreFinite ==
  ASSUME RestConstants, RestInv, NEW w
  PROVE  IsFiniteSet(KeysOf(w)) /\ KeysOf(w) \subseteq Nat /\ KeysOf(w) \subseteq RowKeys
<1>1. KeysOf(w) \in SUBSET Rest!Present /\ KeysOf(w) \subseteq RowKeys
  BY DEF KeysOf, Rest!Present
<1>2. QED
  BY <1>1, FS_Subset DEF RestInv, RestConstants

\* Rows are added or changed, and the walk keeps what is ahead.
LEMMA RowsGrow ==
  ASSUME RestConstants, RestInv, row' \in [RowKeys -> {Rest!Absent} \cup Rows], IsFiniteSet(Rest!Present'),
         walk' = walk, restLost' \in BOOLEAN,
         restLost' \/ (restLost' = restLost /\ \A w : KeysOf(w) \subseteq KeysOf(w)')
  PROVE  RestInv'
<1>1. RestTypes'
  BY DEF RestInv, RestTypes
<1>2. ASSUME ~restLost', walk.pc = "walking", NEW k \in walk.begun
      PROVE  k \in KeysOf(walk.ws)' /\ (k \in walk.got \/ Rest!Rank(k, KeysOf(walk.ws)', walk.order) >= walk.offset)
  <2>1. PICK w : w = walk.ws
    OBVIOUS
  <2>2. ~restLost /\ KeysOf(w) \subseteq KeysOf(w)'
    BY <1>2
  <2>3. k \in KeysOf(w) /\ (k \in walk.got \/ Rest!Rank(k, KeysOf(w), walk.order) >= walk.offset)
    BY <1>2, <2>1, <2>2 DEF RestInv, WalkIsAhead
  <2>4. IsFiniteSet(KeysOf(w)')
    <3>1. KeysOf(w)' \in SUBSET Rest!Present'
      BY DEF KeysOf, Rest!Present
    <3>2. QED
      BY <3>1, FS_Subset
  <2>5. walk.order \in Orders /\ walk.offset \in Nat
    BY DEF RestInv, RestTypes, Walks
  <2>6. PICK S : S = KeysOf(w)
    OBVIOUS
  <2>7. PICK T : T = KeysOf(w)'
    OBVIOUS
  <2>8. Rest!Rank(k, S, walk.order) <= Rest!Rank(k, T, walk.order) /\ Rest!Rank(k, S, walk.order) \in Nat
        /\ Rest!Rank(k, T, walk.order) \in Nat
    BY <2>2, <2>4, <2>5, <2>6, <2>7, RanksGrow
  <2>9. k \in T /\ (k \in walk.got \/ Rest!Rank(k, T, walk.order) >= walk.offset)
    BY <2>2, <2>3, <2>5, <2>6, <2>7, <2>8
  <2>10. T = KeysOf(walk.ws)'
    BY <2>1, <2>7 DEF KeysOf
  <2>11. QED
    BY <2>9, <2>10
<1>3. ASSUME ~restLost', walk.pc = "ended" PROVE walk.begun \subseteq walk.got
  BY <1>3 DEF RestInv, WalkIsAhead
<1>4. WalkIsAhead'
  BY <1>2, <1>3 DEF WalkIsAhead
<1>5. QED
  BY <1>1, <1>4 DEF RestInv

LEMMA HandlePostKeeps ==
  ASSUME RestConstants, RestInv, NEW k \in RowKeys, NEW param \in {"none"} \cup Workspaces,
         NEW body \in {"none"} \cup Workspaces, NEW v \in {0} \cup Values, Rest!HandlePost(k, param, body, v)
  PROVE  RestInv' /\ \A q \in RowKeys : row'[q] # row[q] => row[q] = Rest!Absent
<1>1. PICK x : x = [ws |-> IF body # "none" THEN body ELSE Rest!WorkspaceIdFrom(param, body), val |-> Rest!ToSqlString(v)]
  OBVIOUS
<1>2. x \in Rows /\ x # Rest!Absent
  <2>1. Rest!WorkspaceIdFrom(param, body) # "none"
    BY DEF Rest!HandlePost
  <2>2. PICK w : w = IF body # "none" THEN body ELSE Rest!WorkspaceIdFrom(param, body)
    OBVIOUS
  <2>3. w \in Workspaces
    BY <2>1, <2>2 DEF Rest!WorkspaceIdFrom
  <2>4. Rest!ToSqlString(v) = v
    BY DEF Rest!ToSqlString, Rest!Null
  <2>5. x = [ws |-> w, val |-> v]
    BY <1>1, <2>2, <2>4
  <2>6. w # "absent"
    BY <2>3 DEF RestConstants
  <2>7. QED
    BY <2>3, <2>5, <2>6 DEF Rows, Rest!Absent
<1>3. row' = (IF row[k] = Rest!Absent THEN [row EXCEPT ![k] = x] ELSE row) /\ walk' = walk /\ restLost' = restLost
  BY <1>1 DEF Rest!HandlePost
<1>4. row \in [RowKeys -> {Rest!Absent} \cup Rows] /\ restLost \in BOOLEAN
  BY DEF RestInv, RestTypes
<1>5. /\ row' \in [RowKeys -> {Rest!Absent} \cup Rows]
      /\ \A q \in RowKeys : row'[q] = row[q] \/ (q = k /\ row[q] = Rest!Absent)
  BY <1>2, <1>3, <1>4
<1>6. \A w : KeysOf(w) \subseteq KeysOf(w)'
  BY <1>5 DEF KeysOf
<1>7. IsFiniteSet(Rest!Present')
  <2>1. Rest!Present' \in SUBSET (Rest!Present \cup {k})
    BY <1>5 DEF Rest!Present
  <2>2. IsFiniteSet(Rest!Present \cup {k})
    BY FS_AddElement DEF RestInv
  <2>3. QED
    BY <2>1, <2>2, FS_Subset
<1>8. restLost' \in BOOLEAN
  BY <1>3, <1>4
<1>9. RestInv'
  BY <1>3, <1>5, <1>6, <1>7, <1>8, RowsGrow
<1>10. QED
  BY <1>5, <1>9

LEMMA HandlePatchKeeps ==
  ASSUME RestConstants, RestInv, NEW w \in Workspaces, NEW fs, NEW v \in {0} \cup Values, Rest!HandlePatch(w, fs, v)
  PROVE  RestInv' /\ \A q \in RowKeys : row'[q] # row[q] => row[q].ws \in reached'
<1>1. PICK K : K = Rest!Where(w, fs)
  OBVIOUS
<1>2. Rest!ToSqlString(v) = v
  BY DEF Rest!ToSqlString, Rest!Null
<1>3. /\ row' = [k \in RowKeys |-> IF k \in K THEN [row[k] EXCEPT !.val = v] ELSE row[k]]
      /\ walk' = walk /\ restLost' = restLost /\ reached' = {w}
  BY <1>1, <1>2 DEF Rest!HandlePatch, Rest!Write
<1>4. row \in [RowKeys -> {Rest!Absent} \cup Rows] /\ restLost \in BOOLEAN /\ K \subseteq KeysOf(w)
  BY <1>1, WhereReads DEF RestInv, RestTypes
<1>5. ASSUME NEW k \in K PROVE row[k] # Rest!Absent /\ row[k].ws = w /\ row'[k] = [ws |-> w, val |-> v] /\ row'[k] \in Rows
                               /\ row'[k] # Rest!Absent /\ row'[k].ws = w
  <2>1. k \in RowKeys /\ row[k] # Rest!Absent /\ row[k].ws = w
    BY <1>4, <1>5 DEF KeysOf
  <2>2. row[k] \in Rows
    BY <1>4, <2>1
  <2>3. PICK x \in Rows : x = row[k]
    BY <2>2
  <2>4. [x EXCEPT !.val = v] = [ws |-> w, val |-> v]
    BY <2>1, <2>3 DEF Rows
  <2>5. row'[k] = [ws |-> w, val |-> v]
    BY <1>3, <2>1, <2>3, <2>4
  <2>6. QED
    BY <2>1, <2>5 DEF Rows, Rest!Absent, RestConstants
<1>6. \A k \in RowKeys : k \notin K => row'[k] = row[k]
  BY <1>3
<1>7. row' \in [RowKeys -> {Rest!Absent} \cup Rows]
  <2>1. \A k \in RowKeys : row'[k] \in {Rest!Absent} \cup Rows
    BY <1>4, <1>5, <1>6
  <2>2. row' = [k \in RowKeys |-> row'[k]]
    BY <1>3
  <2>3. QED
    BY <2>1, <2>2
<1>8. \A x : KeysOf(x) \subseteq KeysOf(x)'
  BY <1>5, <1>6 DEF KeysOf
<1>9. Rest!Present' = Rest!Present
  BY <1>5, <1>6 DEF Rest!Present
<1>10. IsFiniteSet(Rest!Present') /\ restLost' \in BOOLEAN
  BY <1>3, <1>4, <1>9 DEF RestInv
<1>11. RestInv'
  BY <1>3, <1>7, <1>8, <1>10, RowsGrow
<1>12. QED
  BY <1>3, <1>5, <1>6, <1>11

LEMMA HandleDeleteKeeps ==
  ASSUME RestConstants, RestInv, NEW w \in Workspaces, NEW fs, Rest!HandleDelete(w, fs)
  PROVE  RestInv' /\ \A q \in RowKeys : row'[q] # row[q] => row[q].ws \in reached'
<1>1. PICK K : K = Rest!Where(w, fs)
  OBVIOUS
<1>2. /\ row' = [k \in RowKeys |-> IF k \in K THEN Rest!Absent ELSE row[k]]
      /\ walk' = walk /\ restLost' = (restLost \/ row' # row) /\ reached' = {w}
  BY <1>1 DEF Rest!HandleDelete, Rest!Write
<1>3. row \in [RowKeys -> {Rest!Absent} \cup Rows] /\ restLost \in BOOLEAN /\ K \subseteq KeysOf(w)
  BY <1>1, WhereReads DEF RestInv, RestTypes
<1>4. row' \in [RowKeys -> {Rest!Absent} \cup Rows]
  BY <1>2, <1>3
<1>5. Rest!Present' \in SUBSET Rest!Present
  BY <1>2 DEF Rest!Present
<1>6. IsFiniteSet(Rest!Present') /\ restLost' \in BOOLEAN
  BY <1>2, <1>5, FS_Subset DEF RestInv
<1>7. restLost' \/ (restLost' = restLost /\ \A x : KeysOf(x) \subseteq KeysOf(x)')
  <2>1. CASE row' = row
    BY <1>2, <1>3, <2>1 DEF KeysOf
  <2>2. CASE row' # row
    BY <1>2, <2>2
  <2>3. QED
    BY <2>1, <2>2
<1>8. RestInv'
  BY <1>2, <1>4, <1>6, <1>7, RowsGrow
<1>9. \A q \in K : row[q].ws = w
  BY <1>3 DEF KeysOf
<1>10. QED
  BY <1>2, <1>8, <1>9

LEMMA StartWalkKeeps ==
  ASSUME RestConstants, RestInv, NEW w \in Workspaces, NEW o \in Orders, NEW n \in 1..(MaxPage + 1),
         NEW api \in {"rest", "graphql"}, Rest!StartWalk(w, o, n, api)
  PROVE  RestInv'
<1>1. PICK K : K = KeysOf(w)
  OBVIOUS
<1>2. PICK x : x = [pc |-> "walking", ws |-> w, order |-> o, limit |-> n, api |-> api, begun |-> K, got |-> {}, offset |-> 0]
  OBVIOUS
<1>3. walk' = x /\ restLost' = FALSE /\ row' = row
  BY <1>1, <1>2, WhereReads DEF Rest!StartWalk, Rest!Walk
<1>4. K \subseteq RowKeys /\ IsFiniteSet(K)
  BY <1>1, KeysAreFinite
<1>5. x \in Walks
  BY <1>2, <1>4 DEF Walks, RestConstants
<1>6. KeysOf(w)' = K /\ Rest!Present' = Rest!Present
  BY <1>1, <1>3 DEF KeysOf, Rest!Present
<1>7. \A k \in K : Rest!Rank(k, K, o) >= 0
  <2>1. \A k \in K : Rest!Rank(k, K, o) \in Nat
    BY <1>4, RanksGrow
  <2>2. QED
    BY <2>1
<1>8. KeysOf(x.ws)' = K
  BY <1>2, <1>6
<1>9. WalkIsAhead'
  <2>1. x.pc = "walking" /\ x.begun = K /\ x.ws = w /\ x.order = o /\ x.offset = 0
    BY <1>2
  <2>2. KeysOf(walk.ws)' = K
    BY <1>3, <1>6, <2>1 DEF KeysOf
  <2>3. QED
    BY <1>3, <1>7, <2>1, <2>2 DEF WalkIsAhead
<1>10. QED
  BY <1>3, <1>5, <1>6, <1>9 DEF RestInv, RestTypes

LEMMA ReadPageKeeps ==
  ASSUME RestConstants, RestInv, Rest!ReadPage PROVE RestInv'
<1>1. PICK S : S = KeysOf(walk.ws)
  OBVIOUS
<1>2. PICK o \in Orders : o = walk.order
  BY DEF RestInv, RestTypes, Walks
<1>3. PICK f \in Nat : f = walk.offset
  BY DEF RestInv, RestTypes, Walks
<1>4. PICK n : n = IF walk.api = "rest" THEN walk.limit ELSE Rest!Clamp(walk.limit)
  OBVIOUS
<1>5. n \in Nat \ {0}
  <2>1. walk.limit \in Nat \ {0}
    BY DEF RestInv, RestTypes, Walks
  <2>2. QED
    BY <1>4, <2>1 DEF Rest!Clamp, RestConstants
<1>6. PICK P : P = {k \in S : Rest!Rank(k, S, o) \in f..(f + n - 1)}
  OBVIOUS
<1>7. /\ walk.pc = "walking" /\ row' = row /\ restLost' = restLost
      /\ walk' = [walk EXCEPT !.got = walk.got \cup P, !.offset = f + Cardinality(P),
                              !.pc = IF P = {} THEN "ended" ELSE "walking"]
  <2>1. /\ Rest!Where(walk.ws, {}) = S /\ Rest!Cardinality(P) = Cardinality(P)
    BY <1>1, WhereReads, RestCounts
  <2>2. P = IF walk.api = "rest" THEN Rest!HandleGet(walk.ws, walk.order, walk.limit, walk.offset)
            ELSE Rest!RunQuery(walk.ws, walk.order, walk.limit, walk.offset)
    BY <1>2, <1>3, <1>4, <1>6, <2>1 DEF Rest!HandleGet, Rest!RunQuery, Rest!Page
  <2>3. QED
    BY <1>3, <2>1, <2>2 DEF Rest!ReadPage
<1>8. IsFiniteSet(S) /\ S \subseteq Nat /\ S \subseteq RowKeys
  BY <1>1, KeysAreFinite
<1>9. /\ \A k \in S : Rest!Rank(k, S, o) \in 0..(Cardinality(S) - 1)
      /\ \A i, j \in S : Rest!Rank(i, S, o) = Rest!Rank(j, S, o) => i = j
      /\ \A m \in 0..(Cardinality(S) - 1) : \E k \in S : Rest!Rank(k, S, o) = m
  BY <1>8, PageRanks
<1>10. Cardinality(S) \in Nat
  BY <1>8, FS_CardinalityType
<1>11. Cardinality(P) \in Nat /\ Cardinality(P) <= n
  <2> DEFINE g == [k \in P |-> Rest!Rank(k, S, o)]
  <2>1. g \in [P -> f..(f + n - 1)] /\ \A i, j \in P : g[i] = g[j] => i = j
    BY <1>6, <1>9
  <2> HIDE DEF g
  <2>2. IsFiniteSet(P) /\ Cardinality(P) <= n
    BY <1>5, <2>1, FewRanks
  <2>3. QED
    BY <2>2, FS_CardinalityType
<1>12. ASSUME NEW k \in S, Rest!Rank(k, S, o) >= f, k \notin P
       PROVE  Rest!Rank(k, S, o) >= f + Cardinality(P) /\ P # {}
  <2>1. Rest!Rank(k, S, o) \in Nat /\ Rest!Rank(k, S, o) <= Cardinality(S) - 1
    BY <1>9, <1>10
  <2>2. Rest!Rank(k, S, o) >= f + n
    BY <1>5, <1>6, <1>12, <2>1
  <2>3. f \in 0..(Cardinality(S) - 1)
    BY <1>10, <1>12, <2>1
  <2>4. PICK j \in S : Rest!Rank(j, S, o) = f
    BY <1>9, <2>3
  <2>5. j \in P
    BY <1>5, <1>6, <2>4
  <2>6. QED
    BY <1>5, <1>11, <2>1, <2>2, <2>5
<1>13. walk' \in Walks /\ walk'.pc = (IF P = {} THEN "ended" ELSE "walking") /\ walk'.ws = walk.ws /\ walk'.order = o
       /\ walk'.begun = walk.begun /\ walk'.got = walk.got \cup P /\ walk'.offset = f + Cardinality(P)
  <2>1. walk \in Walks /\ P \subseteq RowKeys
    BY <1>6, <1>8 DEF RestInv, RestTypes
  <2>2. PICK w \in Walks : w = walk
    BY <2>1
  <2>3. PICK at \in {"walking", "ended"} : at = IF P = {} THEN "ended" ELSE "walking"
    OBVIOUS
  <2>4. PICK g \in SUBSET RowKeys : g = walk.got \cup P
    BY <2>1 DEF Walks
  <2>5. PICK z \in Nat : z = f + Cardinality(P)
    BY <1>11
  <2>6. walk' = [w EXCEPT !.got = g, !.offset = z, !.pc = at]
    BY <1>7, <2>2, <2>3, <2>4, <2>5
  <2>7. PICK x : x = [pc |-> at, ws |-> w.ws, order |-> w.order, limit |-> w.limit, api |-> w.api,
                      begun |-> w.begun, got |-> g, offset |-> z]
    OBVIOUS
  <2>8. walk' = x
    <3>1. PICK y : y = [w EXCEPT !.got = g, !.offset = z, !.pc = at]
      OBVIOUS
    <3>2. w = [pc |-> w.pc, ws |-> w.ws, order |-> w.order, limit |-> w.limit, api |-> w.api,
               begun |-> w.begun, got |-> w.got, offset |-> w.offset]
      BY DEF Walks
    <3>3. y = x
      <4>1. PICK w1, w2, w3, w4, w5, w6, w7, w8 :
               w = [pc |-> w1, ws |-> w2, order |-> w3, limit |-> w4, api |-> w5, begun |-> w6, got |-> w7, offset |-> w8]
        BY <3>2
      <4>2. w.ws = w2 /\ w.order = w3 /\ w.limit = w4 /\ w.api = w5 /\ w.begun = w6
        BY <4>1
      <4>3. y = [pc |-> at, ws |-> w2, order |-> w3, limit |-> w4, api |-> w5, begun |-> w6, got |-> g, offset |-> z]
        BY <3>1, <4>1
      <4>4. QED
        BY <2>7, <4>2, <4>3
    <3>4. QED
      BY <2>6, <3>1, <3>3
  <2>9. x \in Walks
    BY <2>2, <2>3, <2>4, <2>5, <2>7 DEF Walks
  <2>10. QED
    BY <1>2, <2>2, <2>3, <2>4, <2>5, <2>7, <2>8, <2>9
<1>14. ASSUME ~restLost, NEW k \in walk.begun
       PROVE  k \in S /\ (k \in walk'.got \/ (P # {} /\ Rest!Rank(k, S, o) >= walk'.offset))
  <2>1. k \in S /\ (k \in walk.got \/ Rest!Rank(k, S, o) >= f)
    BY <1>1, <1>2, <1>3, <1>7, <1>14 DEF RestInv, WalkIsAhead
  <2>2. QED
    BY <1>12, <1>13, <2>1
<1>15. KeysOf(walk.ws)' = S /\ Rest!Present' = Rest!Present
  BY <1>1, <1>7, <1>13 DEF KeysOf, Rest!Present
<1>16. WalkIsAhead'
  BY <1>7, <1>13, <1>14, <1>15 DEF WalkIsAhead
<1>17. QED
  BY <1>7, <1>13, <1>15, <1>16 DEF RestInv, RestTypes

LEMMA RestInit == ASSUME RestConstants, Rest!Init PROVE RestInv
<1>1. row = [k \in RowKeys |-> Rest!Absent] /\ restLost = FALSE
      /\ walk = [pc |-> "idle", ws |-> "none", order |-> "asc", limit |-> 1, api |-> "rest", begun |-> {}, got |-> {}, offset |-> 0]
  BY DEF Rest!Init, Rest!Walk
<1>2. walk \in Walks /\ walk.pc = "idle"
  BY <1>1 DEF Walks, Orders
<1>3. Rest!Present = {}
  BY <1>1 DEF Rest!Present
<1>4. QED
  BY <1>1, <1>2, <1>3, FS_EmptySet DEF RestInv, RestTypes, WalkIsAhead

\* Every request keeps the invariant and stays in its workspace.
LEMMA RestStep ==
  ASSUME RestConstants, RestInv, [Rest!Next]_(Rest!vars)
  PROVE  /\ RestInv'
         /\ \A k \in RowKeys : row'[k] # row[k] /\ row[k] # Rest!Absent => row[k].ws \in reached'
<1>1. CASE Rest!Next
  <2>1. ASSUME NEW k \in RowKeys, NEW param \in {"none"} \cup Workspaces, NEW body \in {"none"} \cup Workspaces,
               NEW v \in {0} \cup Values, Rest!HandlePost(k, param, body, v)
        PROVE  RestInv' /\ \A q \in RowKeys : row'[q] # row[q] => row[q] = Rest!Absent
    BY <2>1, HandlePostKeeps
  <2>2. ASSUME NEW w \in Workspaces, NEW fs, NEW v \in {0} \cup Values, Rest!HandlePatch(w, fs, v)
        PROVE  RestInv' /\ \A q \in RowKeys : row'[q] # row[q] => row[q].ws \in reached'
    BY <2>2, HandlePatchKeeps
  <2>3. ASSUME NEW w \in Workspaces, NEW fs, Rest!HandleDelete(w, fs)
        PROVE  RestInv' /\ \A q \in RowKeys : row'[q] # row[q] => row[q].ws \in reached'
    BY <2>3, HandleDeleteKeeps
  <2>4. ASSUME NEW w \in Workspaces, NEW o \in Orders, NEW n \in 1..(MaxPage + 1), NEW api \in {"rest", "graphql"},
               Rest!StartWalk(w, o, n, api)
        PROVE  RestInv' /\ row' = row
    BY <2>4, StartWalkKeeps DEF Rest!StartWalk
  <2>5. Rest!ReadPage => RestInv' /\ row' = row
    BY ReadPageKeeps DEF Rest!ReadPage
  <2>6. \/ \E k \in RowKeys, param \in {"none"} \cup Workspaces, body \in {"none"} \cup Workspaces,
              v \in {0} \cup Values : Rest!HandlePost(k, param, body, v)
        \/ \E w \in Workspaces, fs \in Rest!FilterSets \cup Rest!Narrow, v \in {0} \cup Values : Rest!HandlePatch(w, fs, v)
        \/ \E w \in Workspaces, fs \in Rest!FilterSets \cup Rest!Narrow : Rest!HandleDelete(w, fs)
        \/ \E w \in Workspaces, o \in Orders, n \in 1..(MaxPage + 1), api \in {"rest", "graphql"} : Rest!StartWalk(w, o, n, api)
        \/ Rest!ReadPage
    BY <1>1 DEF Rest!Next, Rest!Null, Orders
  <2>7. QED
    BY <2>1, <2>2, <2>3, <2>4, <2>5, <2>6
<1>2. CASE UNCHANGED Rest!vars
  <2>1. row' = row /\ walk' = walk /\ restLost' = restLost
    BY <1>2 DEF Rest!vars
  <2>2. QED
    BY <2>1 DEF RestInv, RestTypes, WalkIsAhead, KeysOf, Rest!Present
<1>3. QED
  BY <1>1, <1>2

(* A walk over the pages of GET or GraphQL, in either order, while rows are
   posted and patched, returns every row that was there when it began and
   still is, unless a row was deleted under it; for any tables, keys and
   filters and every size of a page.                                       *)
THEOREM WalksAreComplete ==
  ASSUME RestConstants
  PROVE  Rest!Spec => [](Rest!TypeOK /\ Rest!WalkMissesNothing)
<1>1. Rest!Init => RestInv
  BY RestInit
<1>2. RestInv /\ [Rest!Next]_(Rest!vars) => RestInv'
  BY RestStep
<1>3. RestInv => Rest!TypeOK /\ Rest!WalkMissesNothing
  <2> SUFFICES ASSUME RestInv PROVE Rest!TypeOK /\ Rest!WalkMissesNothing
    OBVIOUS
  <2>1. Rest!TypeOK
    BY DEF Rest!TypeOK, RestInv, RestTypes, Rows, Walks
  <2>2. Rest!WalkMissesNothing
    BY DEF Rest!WalkMissesNothing, RestInv, WalkIsAhead
  <2>3. QED
    BY <2>1, <2>2
<1>4. QED
  BY <1>1, <1>2, <1>3, PTL DEF Rest!Spec

(* A PATCH or DELETE changes rows of the workspace it names only, for any
   tables, workspaces and filters.                                         *)
THEOREM RestStaysInWorkspace ==
  ASSUME RestConstants
  PROVE  Rest!Spec => Rest!WritesStayInWorkspace
<1>1. Rest!Init => RestInv
  BY RestInit
<1>2. RestInv /\ [Rest!Next]_(Rest!vars) => RestInv'
  BY RestStep
<1>3. RestInv /\ [Rest!Next]_(Rest!vars) =>
        [\A k \in RowKeys : row'[k] # row[k] /\ row[k] # Rest!Absent => row[k].ws \in reached']_row
  BY RestStep
<1>4. QED
  BY <1>1, <1>2, <1>3, PTL DEF Rest!Spec, Rest!WritesStayInWorkspace

---------------------------------------------------------------------------
(* Seeding, permissions, entities and their relations.                     *)

CONSTANTS Processes, Scopes, EntityTypes, RelationTypes, Cap, MaxRelations

VARIABLES workspaceRow, actorRow, catalogBoot, crashed, scope, entities, relation, answer

Catalog == INSTANCE Registry WITH boot <- catalogBoot

CatalogConstants == Cap \in Nat /\ Len(EntityTypes) \in Nat

Relations == [from : 1..Len(EntityTypes), type : RelationTypes, to : 1..Len(EntityTypes)]

\* Between the two inserts of a seeding that nobody broke off, somebody is
\* about to make the second.
SeedingGoesOn ==
  workspaceRow /\ ~actorRow /\ crashed = {} => \E p \in Processes : catalogBoot[p] = "actor"

\* The answer is what its query finds now.
AnswerIsCurrent ==
  \/ answer = Catalog!NoAnswer
  \/ \E type : answer = [of |-> "entities", entity |-> 0, type |-> type,
                         rows |-> Catalog!Newest(Catalog!EntityQuery(type))]
  \/ \E e, type : answer = [of |-> "relations", entity |-> e, type |-> type,
                            rows |-> Catalog!Newest(Catalog!RelationQuery(e, type))]

CatalogInv == Catalog!TypeOK /\ relation \in Seq(Relations) /\ SeedingGoesOn /\ AnswerIsCurrent

LEMMA CatalogCounts == \A S : Catalog!Cardinality(S) = Cardinality(S)
BY DEF Catalog!Cardinality, Cardinality

\* ORDER BY id DESC LIMIT shows the newest, in order, and leaves out the rest
\* only when the page is full.
LEMMA NewestShows ==
  ASSUME CatalogConstants, NEW S, IsFiniteSet(S), S \subseteq Nat
  PROVE  Catalog!ShowsNewest(Catalog!Newest(S), S)
<1> DEFINE s == Catalog!Newest(S)
           N == Cardinality(S)
           L == IF N < Cap THEN N ELSE Cap
<1>1. N \in Nat /\ L \in Nat /\ L <= N /\ L <= Cap /\ (L = N \/ L = Cap)
  BY FS_CardinalityType DEF CatalogConstants
<1>2. s = [n \in 1..L |-> CHOOSE i \in S : Rank(i, S) = N - n]
  <2>1. \A i : Catalog!Cardinality({j \in S : j < i}) = Rank(i, S)
    BY CatalogCounts DEF Rank
  <2>2. Catalog!Cardinality(S) = N
    BY CatalogCounts
  <2>3. s = [n \in 1..L |-> CHOOSE i \in S : Catalog!Cardinality({j \in S : j < i}) = N - n]
    BY <2>2 DEF Catalog!Newest
  <2>4. QED
    BY <2>1, <2>3
<1> HIDE DEF L
<1>3. \A n \in 1..L : s[n] \in S /\ Rank(s[n], S) = N - n
  <2> SUFFICES ASSUME NEW n \in 1..L PROVE s[n] \in S /\ Rank(s[n], S) = N - n
    OBVIOUS
  <2>1. N - n \in 0..(N - 1)
    BY <1>1
  <2>2. \E i \in S : Rank(i, S) = N - n
    BY <2>1, RanksAreFilled
  <2>3. s[n] = CHOOSE i \in S : Rank(i, S) = N - n
    BY <1>2
  <2>4. QED
    BY <2>2, <2>3
<1> HIDE DEF s, N
<1>4. DOMAIN s = 1..L /\ Len(s) = L
  <2>1. s \in [1..L -> S]
    BY <1>2, <1>3
  <2>2. QED
    BY <1>1, <2>1
<1>5. ASSUME NEW n \in 1..L, NEW i \in S, N - n > Rank(i, S) PROVE s[n] > i
  <2>1. s[n] \in S /\ Rank(s[n], S) = N - n
    BY <1>3
  <2>2. Rank(i, S) \in Nat /\ Rank(i, S) < Rank(s[n], S)
    BY <1>1, <1>5, <2>1, RanksDiffer
  <2>3. i < s[n]
    BY <2>1, <2>2, RanksDiffer
  <2>4. i \in Nat /\ s[n] \in Nat
    BY <2>1
  <2>5. QED
    BY <2>3, <2>4
<1>6. \A m, n \in 1..L : m < n => s[m] > s[n]
  <2> SUFFICES ASSUME NEW m \in 1..L, NEW n \in 1..L, m < n PROVE s[m] > s[n]
    OBVIOUS
  <2>1. s[n] \in S /\ Rank(s[n], S) = N - n
    BY <1>3
  <2>2. N - m > Rank(s[n], S)
    BY <1>1, <2>1
  <2>3. QED
    BY <1>5, <2>1, <2>2
<1>7. ASSUME NEW i \in S PROVE (\E n \in 1..L : s[n] = i) \/ (L = Cap /\ \A n \in 1..L : s[n] > i)
  <2>1. Rank(i, S) \in 0..(N - 1)
    BY RankFacts DEF N
  <2>2. CASE N - Rank(i, S) <= L
    <3> DEFINE n == N - Rank(i, S)
    <3>1. n \in 1..L /\ N - n = Rank(i, S)
      BY <1>1, <2>1, <2>2
    <3>2. s[n] \in S /\ Rank(s[n], S) = Rank(i, S)
      BY <1>3, <3>1
    <3>3. s[n] = i
      BY <3>2, RanksDiffer
    <3>4. QED
      BY <3>1, <3>3
  <2>3. CASE ~(N - Rank(i, S) <= L)
    <3>1. L = Cap
      BY <1>1, <2>1, <2>3
    <3>2. \A n \in 1..L : N - n > Rank(i, S)
      BY <1>1, <2>1, <2>3
    <3>3. QED
      BY <1>5, <3>1, <3>2
  <2>4. QED
    BY <2>2, <2>3
<1>8. QED
  BY <1>3, <1>4, <1>6, <1>7 DEF Catalog!ShowsNewest, s

LEMMA CatalogInit == ASSUME CatalogConstants, Catalog!Init PROVE CatalogInv
<1>1. /\ workspaceRow = FALSE /\ actorRow = FALSE /\ catalogBoot = [p \in Processes |-> "off"]
      /\ scope = [a \in Scopes |-> "absent"] /\ entities = 0 /\ relation = <<>> /\ answer = Catalog!NoAnswer
  BY DEF Catalog!Init
<1>2. Catalog!TypeOK
  <2>1. entities \in 0..Len(EntityTypes)
    BY <1>1 DEF CatalogConstants
  <2>2. QED
    BY <1>1, <2>1, Zenon DEF Catalog!TypeOK
<1>3. SeedingGoesOn /\ AnswerIsCurrent
  BY <1>1 DEF SeedingGoesOn, AnswerIsCurrent
<1>4. QED
  BY <1>1, <1>2, <1>3 DEF CatalogInv

\* A boot goes one statement further, or dies.
LEMMA SeedKeeps ==
  ASSUME CatalogConstants, CatalogInv, NEW p \in Processes,
         Catalog!SeedCounts(p) \/ Catalog!SeedWorkspace(p) \/ Catalog!SeedActor(p) \/ Catalog!Crash(p)
  PROVE  CatalogInv' /\ scope' = scope
<1>1. answer' = Catalog!NoAnswer /\ UNCHANGED <<scope, entities, relation>>
  BY DEF Catalog!SeedCounts, Catalog!SeedWorkspace, Catalog!SeedActor, Catalog!Crash
<1>2. AnswerIsCurrent'
  BY <1>1 DEF AnswerIsCurrent
<1>3. workspaceRow \in BOOLEAN /\ actorRow \in BOOLEAN
      /\ catalogBoot \in [Processes -> {"off", "workspace", "actor", "serving", "failed"}]
  BY DEF CatalogInv, Catalog!TypeOK
<1>4. /\ workspaceRow' \in BOOLEAN /\ actorRow' \in BOOLEAN
      /\ catalogBoot' \in [Processes -> {"off", "workspace", "actor", "serving", "failed"}]
      /\ SeedingGoesOn'
  <2>1. CASE Catalog!SeedCounts(p)
    <3>1. /\ catalogBoot[p] = "off" /\ UNCHANGED <<workspaceRow, actorRow, crashed>>
          /\ catalogBoot' = [catalogBoot EXCEPT ![p] = IF workspaceRow THEN "serving" ELSE "workspace"]
      BY <2>1 DEF Catalog!SeedCounts
    <3>2. \A q \in Processes : catalogBoot[q] = "actor" => catalogBoot'[q] = "actor"
      BY <1>3, <3>1
    <3>3. QED
      BY <1>3, <3>1, <3>2 DEF CatalogInv, SeedingGoesOn
  <2>2. CASE Catalog!SeedWorkspace(p)
    <3>1. /\ catalogBoot[p] = "workspace" /\ workspaceRow' = TRUE /\ UNCHANGED <<actorRow, crashed>>
          /\ catalogBoot' = [catalogBoot EXCEPT ![p] = IF workspaceRow THEN "failed" ELSE "actor"]
      BY <2>2 DEF Catalog!SeedWorkspace
    <3>2. \A q \in Processes : catalogBoot[q] = "actor" => catalogBoot'[q] = "actor"
      BY <1>3, <3>1
    <3>3. ~workspaceRow => catalogBoot'[p] = "actor"
      BY <1>3, <3>1
    <3>4. QED
      BY <1>3, <3>1, <3>2, <3>3 DEF CatalogInv, SeedingGoesOn
  <2>3. CASE Catalog!SeedActor(p)
    BY <1>3, <2>3 DEF Catalog!SeedActor, SeedingGoesOn
  <2>4. CASE Catalog!Crash(p)
    <3>1. /\ crashed' # {} /\ UNCHANGED <<workspaceRow, actorRow>> /\ catalogBoot' = [catalogBoot EXCEPT ![p] = "off"]
      BY <2>4 DEF Catalog!Crash
    <3>2. QED
      BY <1>3, <3>1 DEF SeedingGoesOn
  <2>5. QED
    BY <2>1, <2>2, <2>3, <2>4
<1>5. QED
  BY <1>1, <1>2, <1>4 DEF CatalogInv, Catalog!TypeOK

\* The routes leave the seeding alone.
LEMMA RoutesKeep ==
  ASSUME CatalogInv, UNCHANGED <<workspaceRow, actorRow, catalogBoot, crashed>>,
         scope' \in [Scopes -> {"absent", "granted", "revoked"}], entities' \in 0..Len(EntityTypes),
         relation' \in Seq(Relations), AnswerIsCurrent'
  PROVE  CatalogInv'
BY DEF CatalogInv, Catalog!TypeOK, SeedingGoesOn

\* Every step keeps the invariant, and no permission comes back.
LEMMA CatalogStep ==
  ASSUME CatalogConstants, CatalogInv, [Catalog!Next]_(Catalog!vars)
  PROVE  CatalogInv' /\ \A a \in Scopes : scope[a] = "revoked" => scope'[a] = "revoked"
<1>1. /\ scope \in [Scopes -> {"absent", "granted", "revoked"}] /\ entities \in 0..Len(EntityTypes)
      /\ relation \in Seq(Relations) /\ AnswerIsCurrent
  BY DEF CatalogInv, Catalog!TypeOK
<1>2. answer' = Catalog!NoAnswer => AnswerIsCurrent'
  BY DEF AnswerIsCurrent
<1>3. ASSUME NEW p \in Processes,
             Catalog!SeedCounts(p) \/ Catalog!SeedWorkspace(p) \/ Catalog!SeedActor(p) \/ Catalog!Crash(p)
      PROVE  CatalogInv' /\ scope' = scope
  BY <1>3, SeedKeeps
<1>4. ASSUME NEW a \in Scopes, Catalog!CreatePermission(a) \/ Catalog!RevokePermission(a)
      PROVE  CatalogInv' /\ \A b \in Scopes : scope[b] = "revoked" => scope'[b] = "revoked"
  <2>1. /\ answer' = Catalog!NoAnswer /\ UNCHANGED <<workspaceRow, actorRow, catalogBoot, crashed, entities, relation>>
        /\ \/ scope[a] = "absent" /\ scope' = [scope EXCEPT ![a] = "granted"]
           \/ scope' = [scope EXCEPT ![a] = "revoked"]
    BY <1>4 DEF Catalog!CreatePermission, Catalog!RevokePermission
  <2>2. scope' \in [Scopes -> {"absent", "granted", "revoked"}]
    BY <1>1, <2>1
  <2>3. \A b \in Scopes : scope[b] = "revoked" => scope'[b] = "revoked"
    BY <1>1, <2>1
  <2>4. QED
    BY <1>1, <1>2, <2>1, <2>2, <2>3, RoutesKeep
<1>5. ASSUME Catalog!CreateEntity PROVE CatalogInv' /\ scope' = scope
  <2>1. /\ answer' = Catalog!NoAnswer /\ UNCHANGED <<workspaceRow, actorRow, catalogBoot, crashed, scope, relation>>
        /\ entities < Len(EntityTypes) /\ entities' = entities + 1
    BY <1>5 DEF Catalog!CreateEntity
  <2>2. entities' \in 0..Len(EntityTypes)
    BY <1>1, <2>1 DEF CatalogConstants
  <2>3. QED
    BY <1>1, <1>2, <2>1, <2>2, RoutesKeep
<1>6. ASSUME NEW from \in Catalog!Entity, NEW to \in Catalog!Entity, NEW type \in RelationTypes,
             Catalog!CreateEntityRelation(from, type, to)
      PROVE  CatalogInv' /\ scope' = scope
  <2>1. /\ answer' = Catalog!NoAnswer /\ UNCHANGED <<workspaceRow, actorRow, catalogBoot, crashed, scope, entities>>
        /\ relation' = Append(relation, [from |-> from, type |-> type, to |-> to])
    BY <1>6 DEF Catalog!CreateEntityRelation
  <2>2. [from |-> from, type |-> type, to |-> to] \in Relations
    BY DEF Relations, Catalog!Entity
  <2>3. relation' \in Seq(Relations)
    BY <1>1, <2>1, <2>2, AppendProperties
  <2>4. QED
    BY <1>1, <1>2, <2>1, <2>3, RoutesKeep
<1>7. ASSUME NEW type, Catalog!ListEntities(type) PROVE CatalogInv' /\ scope' = scope
  <2>1. /\ UNCHANGED <<workspaceRow, actorRow, catalogBoot, crashed, scope, entities, relation>>
        /\ answer' = [of |-> "entities", entity |-> 0, type |-> type, rows |-> Catalog!Newest(Catalog!EntityQuery(type))]
    BY <1>7 DEF Catalog!ListEntities
  <2>2. Catalog!EntityQuery(type)' = Catalog!EntityQuery(type)
    BY <2>1 DEF Catalog!EntityQuery
  <2>3. answer' = [of |-> "entities", entity |-> 0, type |-> type, rows |-> Catalog!Newest(Catalog!EntityQuery(type)')]
    BY <2>1, <2>2
  <2>4. AnswerIsCurrent'
    BY <2>3 DEF AnswerIsCurrent
  <2>5. QED
    BY <1>1, <2>1, <2>4, RoutesKeep
<1>8. ASSUME NEW e, NEW type, Catalog!ListEntityRelations(e, type) PROVE CatalogInv' /\ scope' = scope
  <2>1. /\ UNCHANGED <<workspaceRow, actorRow, catalogBoot, crashed, scope, entities, relation>>
        /\ answer' = [of |-> "relations", entity |-> e, type |-> type, rows |-> Catalog!Newest(Catalog!RelationQuery(e, type))]
    BY <1>8 DEF Catalog!ListEntityRelations
  <2>2. Catalog!RelationQuery(e, type)' = Catalog!RelationQuery(e, type)
    BY <2>1 DEF Catalog!RelationQuery, Catalog!Touches
  <2>3. answer' = [of |-> "relations", entity |-> e, type |-> type, rows |-> Catalog!Newest(Catalog!RelationQuery(e, type)')]
    BY <2>1, <2>2
  <2>4. AnswerIsCurrent'
    BY <2>3 DEF AnswerIsCurrent
  <2>5. QED
    BY <1>1, <2>1, <2>4, RoutesKeep
<1>9. CASE UNCHANGED Catalog!vars
  <2>1. UNCHANGED <<workspaceRow, actorRow, catalogBoot, crashed, scope, entities, relation, answer>>
    BY <1>9 DEF Catalog!vars
  <2>2. AnswerIsCurrent'
    <3>1. \A type : Catalog!EntityQuery(type)' = Catalog!EntityQuery(type)
      BY <2>1 DEF Catalog!EntityQuery
    <3>2. \A e, type : Catalog!RelationQuery(e, type)' = Catalog!RelationQuery(e, type)
      BY <2>1 DEF Catalog!RelationQuery, Catalog!Touches
    <3>3. \/ answer' = Catalog!NoAnswer
          \/ \E type : answer' = [of |-> "entities", entity |-> 0, type |-> type,
                                  rows |-> Catalog!Newest(Catalog!EntityQuery(type)')]
          \/ \E e, type : answer' = [of |-> "relations", entity |-> e, type |-> type,
                                     rows |-> Catalog!Newest(Catalog!RelationQuery(e, type)')]
      BY <1>1, <2>1, <3>1, <3>2 DEF AnswerIsCurrent
    <3>4. QED
      BY <3>3 DEF AnswerIsCurrent
  <2>3. QED
    BY <1>1, <2>1, <2>2, RoutesKeep
<1>10. CASE Catalog!Next
  BY <1>3, <1>4, <1>5, <1>6, <1>7, <1>8, <1>10 DEF Catalog!Next
<1>11. QED
  BY <1>9, <1>10

LEMMA CatalogImplies ==
  ASSUME CatalogConstants, CatalogInv
  PROVE  Catalog!SeedingIsWhole /\ Catalog!EntityListingIsFull /\ Catalog!RelationListingIsExact
<1>1. Catalog!SeedingIsWhole
  BY DEF Catalog!SeedingIsWhole, CatalogInv, SeedingGoesOn, Catalog!TypeOK
<1>2. Catalog!EntityListingIsFull
  <2> SUFFICES ASSUME answer.of = "entities"
               PROVE  Catalog!ShowsNewest(answer.rows,
                         {e \in 1..entities : answer.type \in {Catalog!AnyType, EntityTypes[e]}})
    BY DEF Catalog!EntityListingIsFull
  <2>1. PICK type : answer = [of |-> "entities", entity |-> 0, type |-> type,
                              rows |-> Catalog!Newest(Catalog!EntityQuery(type))]
    BY DEF CatalogInv, AnswerIsCurrent, Catalog!NoAnswer
  <2>2. PICK S : S = {e \in 1..entities : type \in {Catalog!AnyType, EntityTypes[e]}}
    OBVIOUS
  <2>3. answer.rows = Catalog!Newest(S) /\ S = {e \in 1..entities : answer.type \in {Catalog!AnyType, EntityTypes[e]}}
    BY <2>1, <2>2 DEF Catalog!EntityQuery
  <2>4. S \in SUBSET (1..entities) /\ 0 \in Int /\ 1 \in Int /\ entities \in Int /\ S \subseteq Nat
    BY <2>2 DEF CatalogInv, Catalog!TypeOK
  <2>5. IsFiniteSet(S)
    BY <2>4, FS_Interval, FS_Subset
  <2>6. QED
    BY <2>3, <2>4, <2>5, NewestShows
<1>3. Catalog!RelationListingIsExact
  <2> SUFFICES ASSUME answer.of = "relations"
               PROVE  Catalog!ShowsNewest(answer.rows,
                         {i \in DOMAIN relation :
                            /\ answer.entity # 0 => answer.entity \in {relation[i].from, relation[i].to}
                            /\ answer.type # Catalog!AnyType => answer.type = relation[i].type})
    BY DEF Catalog!RelationListingIsExact
  <2>1. PICK e, type : answer = [of |-> "relations", entity |-> e, type |-> type,
                                 rows |-> Catalog!Newest(Catalog!RelationQuery(e, type))]
    BY DEF CatalogInv, AnswerIsCurrent, Catalog!NoAnswer
  <2>2. answer.entity = e /\ answer.type = type /\ answer.rows = Catalog!Newest(Catalog!RelationQuery(e, type))
    BY <2>1
  <2>3. PICK S : S = {i \in DOMAIN relation :
                        /\ e # 0 => e \in {relation[i].from, relation[i].to}
                        /\ type # Catalog!AnyType => type = relation[i].type}
    OBVIOUS
  <2>4. Catalog!RelationQuery(e, type) = S
    <3>1. CASE e # 0 /\ type # Catalog!AnyType
      BY <2>3, <3>1 DEF Catalog!RelationQuery, Catalog!Touches
    <3>2. CASE e # 0 /\ type = Catalog!AnyType
      BY <2>3, <3>2 DEF Catalog!RelationQuery, Catalog!Touches
    <3>3. CASE e = 0 /\ type # Catalog!AnyType
      BY <2>3, <3>3 DEF Catalog!RelationQuery, Catalog!Touches
    <3>4. CASE e = 0 /\ type = Catalog!AnyType
      BY <2>3, <3>4 DEF Catalog!RelationQuery, Catalog!Touches
    <3>5. QED
      BY <3>1, <3>2, <3>3, <3>4
  <2>5. S \in SUBSET (1..Len(relation)) /\ 1 \in Int /\ Len(relation) \in Int /\ S \subseteq Nat
    <3>1. relation \in Seq(Relations)
      BY DEF CatalogInv
    <3>2. Len(relation) \in Nat /\ DOMAIN relation = 1..Len(relation)
      BY <3>1
    <3>3. QED
      BY <2>3, <3>2
  <2>6. IsFiniteSet(S)
    BY <2>5, FS_Interval, FS_Subset
  <2>7. Catalog!ShowsNewest(answer.rows, S)
    BY <2>2, <2>4, <2>5, <2>6, NewestShows
  <2>8. QED
    BY <2>2, <2>3, <2>7
<1>4. QED
  BY <1>1, <1>2, <1>3

(* Boots over one file seed it whole unless one died between the inserts, and
   both listings show the newest rows that were asked for and leave one out
   only behind a full page; for any number of processes, entities and
   relations and any limit.                                                *)
THEOREM CatalogIsExact ==
  ASSUME CatalogConstants
  PROVE  Catalog!Spec => [](/\ Catalog!TypeOK /\ Catalog!SeedingIsWhole
                            /\ Catalog!EntityListingIsFull /\ Catalog!RelationListingIsExact)
<1>1. Catalog!Init => CatalogInv
  BY CatalogInit
<1>2. CatalogInv /\ [Catalog!Next]_(Catalog!vars) => CatalogInv'
  BY CatalogStep
<1>3. CatalogInv => /\ Catalog!TypeOK /\ Catalog!SeedingIsWhole
                    /\ Catalog!EntityListingIsFull /\ Catalog!RelationListingIsExact
  BY CatalogImplies DEF CatalogInv
<1>4. QED
  BY <1>1, <1>2, <1>3, PTL DEF Catalog!Spec

(* A revoked permission is listed by no later request, for any number of
   permissions and processes.                                              *)
THEOREM RevocationLasts ==
  ASSUME CatalogConstants
  PROVE  Catalog!Spec => Catalog!RevocationIsFinal
<1>1. Catalog!Init => CatalogInv
  BY CatalogInit
<1>2. CatalogInv /\ [Catalog!Next]_(Catalog!vars) => CatalogInv'
  BY CatalogStep
<1>3. CatalogInv /\ [Catalog!Next]_(Catalog!vars) =>
        [\A a \in Scopes : scope[a] = "revoked" => a \notin Catalog!ListPermissions']_scope
  BY CatalogStep DEF Catalog!ListPermissions
<1>4. QED
  BY <1>1, <1>2, <1>3, PTL DEF Catalog!Spec, Catalog!RevocationIsFinal

---------------------------------------------------------------------------
(* Guard's evaluator.                                                      *)

CONSTANTS Paths, Dangerous, Rules, MaxPaths, MaxRules

VARIABLES policy, input, offered

Guarded == INSTANCE PolicyEval WITH Tokens <- Paths, MaxTokens <- MaxPaths

Policies == [deny : Seq(Rules), ceiling : 0..3, approve : SUBSET Guarded!Tools]
PolicyCalls == [tool : Guarded!Tools, tokens : Seq(Paths), sensitivity : {0, 2}, critical : BOOLEAN]

GuardInv == policy \in Policies /\ input \in PolicyCalls /\ offered \in Seq(Seq(Paths)) /\ Guarded!SuggestionsNarrow

Denied(pol, in) == \E n \in DOMAIN pol.deny : Guarded!Matches(pol.deny[n], in)

\* What evaluate answers, by what it looks at.
LEMMA EvaluateKinds ==
  ASSUME NEW pol, NEW in
  PROVE  LET kind == Guarded!Evaluate(pol, in).kind
             asks == in.sensitivity > pol.ceiling \/ in.tool \in pol.approve \/ in.tool = "shell.run"
         IN  /\ Denied(pol, in) /\ Guarded!SuggestConstrain(in) = <<>> => kind = "block"
             /\ Denied(pol, in) /\ Guarded!SuggestConstrain(in) # <<>> => kind = "require_approval"
             /\ ~Denied(pol, in) /\ asks => kind = "require_approval"
             /\ ~Denied(pol, in) /\ ~asks => kind = IF in.critical THEN "require_approval" ELSE "allow"
             /\ Guarded!Evaluate(pol, in).constrained \in {<<>>, Guarded!SuggestConstrain(in)}
BY DEF Guarded!Evaluate, Guarded!Verdict, Guarded!RequireApproval, Denied

\* A policy that asks for more answers no softer.
LEMMA TighterAnswers ==
  ASSUME NEW p, NEW q, NEW in, Denied(p, in) => Denied(q, in),
         in.sensitivity > p.ceiling => in.sensitivity > q.ceiling, p.approve \subseteq q.approve
  PROVE  Guarded!Severity[Guarded!Evaluate(q, in).kind] >= Guarded!Severity[Guarded!Evaluate(p, in).kind]
<1>1. PICK k : k = Guarded!Evaluate(p, in).kind
  OBVIOUS
<1>2. PICK l : l = Guarded!Evaluate(q, in).kind
  OBVIOUS
<1>3. \/ k = l /\ k \in {"block", "require_approval", "allow"}
      \/ k = "allow" /\ l \in {"block", "require_approval"}
      \/ k = "require_approval" /\ l = "block"
  BY <1>1, <1>2, EvaluateKinds
<1>4. /\ Guarded!Severity["allow"] = 0 /\ Guarded!Severity["require_approval"] = 1 /\ Guarded!Severity["block"] = 2
  BY DEF Guarded!Severity
<1>5. Guarded!Severity[l] >= Guarded!Severity[k]
  BY <1>3, <1>4
<1>6. QED
  BY <1>1, <1>2, <1>5

\* Dropping the first dangerous path leaves exactly the others.
LEMMA RemainingNarrows ==
  ASSUME NEW t \in Seq(Paths), Guarded!Named(t) \cap Dangerous # {}
  PROVE  LET r == Guarded!Remaining(t) IN
         /\ r \in Seq(Paths) /\ Len(r) < Len(t)
         /\ \E d \in Dangerous : d \in Guarded!Named(t) /\ Guarded!Named(r) = Guarded!Named(t) \ {d}
<1>1. Len(t) \in Nat /\ DOMAIN t = 1..Len(t) /\ \A n \in 1..Len(t) : t[n] \in Paths
  OBVIOUS
<1> DEFINE Bad == {n \in 1..Len(t) : t[n] \in Dangerous}
           First(n) == t[n] \in Dangerous /\ \A m \in 1..(n - 1) : t[m] \notin Dangerous
           first == CHOOSE n \in DOMAIN t : First(n)
           kept == {n \in DOMAIN t : t[n] # t[first]}
           N == Cardinality(kept)
           r == Guarded!Remaining(t)
<1>2. first \in DOMAIN t /\ t[first] \in Dangerous
  <2>1. Bad \subseteq Nat /\ Bad # {}
    BY <1>1 DEF Guarded!Named
  <2>2. PICK n \in Bad : \A m \in Bad : n <= m
    <3> HIDE DEF Bad
    <3> QED
      BY <2>1, FirstNumber
  <2>3. n \in DOMAIN t /\ First(n)
    BY <1>1, <2>2
  <2>4. first \in DOMAIN t /\ First(first)
    <3> HIDE DEF First
    <3> QED
      BY <2>3
  <2>5. QED
    BY <2>4
<1> HIDE DEF first
<1>3. kept \in SUBSET (1..Len(t)) /\ kept # 1..Len(t) /\ kept \subseteq Nat
  BY <1>1, <1>2
<1>4. IsFiniteSet(kept) /\ N \in Nat /\ N < Len(t)
  <2>1. 1 \in Int /\ Len(t) \in Int
    BY <1>1
  <2>2. IsFiniteSet(1..Len(t)) /\ Cardinality(1..Len(t)) = IF 1 > Len(t) THEN 0 ELSE Len(t) - 1 + 1
    BY <2>1, FS_Interval
  <2>3. Cardinality(1..Len(t)) = Len(t)
    BY <1>1, <2>2
  <2> HIDE DEF kept
  <2>4. IsFiniteSet(kept) /\ Cardinality(kept) <= Cardinality(1..Len(t))
        /\ (Cardinality(1..Len(t)) = Cardinality(kept) => kept = 1..Len(t))
    BY <1>3, <2>2, FS_Subset
  <2>5. N \in Nat
    BY <2>4, FS_CardinalityType
  <2>6. QED
    BY <1>1, <1>3, <2>3, <2>4, <2>5
<1> DEFINE place(i) == CHOOSE n \in kept : Rank(n, kept) = i - 1
<1>5. r = [i \in 1..N |-> t[place(i)]]
  <2>1. \A S : Guarded!Cardinality(S) = Cardinality(S)
    BY DEF Guarded!Cardinality, Cardinality
  <2>2. \A n : Guarded!Cardinality({m \in kept : m < n}) = Rank(n, kept)
    BY <2>1 DEF Rank
  <2>3. r = [i \in 1..Guarded!Cardinality(kept) |->
               t[CHOOSE n \in kept : Guarded!Cardinality({m \in kept : m < n}) = i - 1]]
    BY DEF Guarded!Remaining, first
  <2> DEFINE chosen(i) == CHOOSE n \in kept : Guarded!Cardinality({m \in kept : m < n}) = i - 1
  <2>4. r = [i \in 1..N |-> t[chosen(i)]]
    BY <2>1, <2>3
  <2> HIDE DEF kept, r, N
  <2>5. \A i : chosen(i) = place(i)
    <3> SUFFICES ASSUME NEW i PROVE chosen(i) = place(i)
      OBVIOUS
    <3>1. \A n \in kept : Guarded!Cardinality({m \in kept : m < n}) = i - 1 <=> Rank(n, kept) = i - 1
      BY <2>2
    <3>2. QED
      BY <3>1
  <2> HIDE DEF chosen, place
  <2>6. QED
    BY <2>4, <2>5
<1> HIDE DEF kept, r
<1>6. \A i \in 1..N : place(i) \in kept /\ Rank(place(i), kept) = i - 1
  <2> SUFFICES ASSUME NEW i \in 1..N PROVE place(i) \in kept /\ Rank(place(i), kept) = i - 1
    OBVIOUS
  <2>1. i - 1 \in 0..(N - 1)
    BY <1>4
  <2>2. \E n \in kept : Rank(n, kept) = i - 1
    BY <1>3, <1>4, <2>1, RanksAreFilled
  <2>3. QED
    BY <2>2
<1> HIDE DEF place
<1>7. \A i \in 1..N : r[i] = t[place(i)] /\ place(i) \in DOMAIN t /\ t[place(i)] # t[first]
  BY <1>5, <1>6 DEF kept
<1>8. r \in Seq(Paths) /\ Len(r) = N /\ DOMAIN r = 1..N
  <2>1. r \in [1..N -> Paths]
    BY <1>1, <1>5, <1>7
  <2>2. QED
    BY <1>4, <2>1
<1>9. Guarded!Named(r) = Guarded!Named(t) \ {t[first]}
  <2>1. ASSUME NEW x \in Guarded!Named(r) PROVE x \in Guarded!Named(t) \ {t[first]}
    BY <1>7, <1>8 DEF Guarded!Named
  <2>2. ASSUME NEW x \in Guarded!Named(t) \ {t[first]} PROVE x \in Guarded!Named(r)
    <3>1. PICK n \in kept : t[n] = x
      BY DEF Guarded!Named, kept
    <3>2. Rank(n, kept) \in 0..(N - 1)
      BY <1>3, <1>4, RankFacts
    <3>3. PICK i \in 1..N : i - 1 = Rank(n, kept)
      <4>1. Rank(n, kept) + 1 \in 1..N /\ (Rank(n, kept) + 1) - 1 = Rank(n, kept)
        BY <1>4, <3>2
      <4>2. QED
        BY <4>1
    <3>4. place(i) = n
      BY <1>3, <1>4, <1>6, <3>3, RanksDiffer
    <3>5. r[i] = x
      BY <1>7, <3>1, <3>4
    <3>6. QED
      BY <1>8, <3>5 DEF Guarded!Named
  <2>3. QED
    BY <2>1, <2>2
<1>10. t[first] \in Guarded!Named(t)
  BY <1>2 DEF Guarded!Named
<1>11. QED
  BY <1>2, <1>4, <1>8, <1>9, <1>10 DEF r

LEMMA GuardInit == ASSUME Guarded!PolicyInit PROVE GuardInv
<1>1. policy = [deny |-> <<>>, ceiling |-> 3, approve |-> {}] /\ input \in Guarded!Inputs /\ offered = <<>>
  BY DEF Guarded!PolicyInit, Guarded!EmptyPolicy
<1>2. policy \in Policies
  BY <1>1 DEF Policies
<1>3. input \in PolicyCalls
  <2>1. \A n \in 1..MaxPaths : n \in Nat => [1..n -> Paths] \subseteq Seq(Paths)
    OBVIOUS
  <2>2. \A n \in 1..MaxPaths : n \in Nat
    OBVIOUS
  <2>3. UNION {[1..n -> Paths] : n \in 1..MaxPaths} \subseteq Seq(Paths)
    BY <2>1, <2>2
  <2>4. QED
    BY <1>1, <2>3 DEF Guarded!Inputs, PolicyCalls
<1>4. DOMAIN offered = {} /\ offered \in Seq(Seq(Paths))
  BY <1>1
<1>5. QED
  BY <1>2, <1>3, <1>4 DEF GuardInv, Guarded!SuggestionsNarrow

\* The narrowed command goes back; it is what the last offer left.
LEMMA ResubmitKeeps ==
  ASSUME GuardInv, Guarded!Resubmit PROVE GuardInv'
<1>1. PICK t \in Seq(Paths) : t = input.tokens
  BY DEF GuardInv, PolicyCalls
<1>2. PICK r : r = Guarded!Evaluate(policy, input).constrained
  OBVIOUS
<1>3. r # <<>> /\ input' = [input EXCEPT !.tokens = r] /\ offered' = Append(offered, t) /\ policy' = policy
  BY <1>1, <1>2 DEF Guarded!Resubmit
<1>4. r = Guarded!Remaining(t) /\ Guarded!Named(t) \cap Dangerous # {}
  <2>1. r = Guarded!SuggestConstrain(input)
    BY <1>2, <1>3, EvaluateKinds
  <2>2. QED
    BY <1>1, <1>3, <2>1 DEF Guarded!SuggestConstrain
<1>5. /\ r \in Seq(Paths) /\ Len(r) < Len(t)
      /\ \E d \in Dangerous : d \in Guarded!Named(t) /\ Guarded!Named(r) = Guarded!Named(t) \ {d}
  BY <1>4, RemainingNarrows
<1>6. PICK d \in Dangerous : d \in Guarded!Named(t) /\ Guarded!Named(r) = Guarded!Named(t) \ {d}
  BY <1>5
<1>7. input' \in PolicyCalls /\ input'.tokens = r
  <2>1. input \in PolicyCalls
    BY DEF GuardInv
  <2>2. QED
    BY <1>3, <1>5, <2>1 DEF PolicyCalls
<1>8. /\ offered \in Seq(Seq(Paths)) /\ offered' \in Seq(Seq(Paths)) /\ Len(offered) \in Nat
      /\ Len(offered') = Len(offered) + 1 /\ offered'[Len(offered) + 1] = t
      /\ \A n \in 1..Len(offered) : offered'[n] = offered[n]
      /\ DOMAIN offered = 1..Len(offered) /\ DOMAIN offered' = 1..(Len(offered) + 1)
  <2>1. offered \in Seq(Seq(Paths))
    BY DEF GuardInv
  <2>2. QED
    BY <1>3, <2>1, AppendProperties
<1> DEFINE After(n) == IF n = Len(offered) THEN input.tokens ELSE offered[n + 1]
           Narrows(a, b) == /\ b # <<>> /\ Len(b) < Len(a)
                            /\ Guarded!Cardinality(Guarded!Named(a) \ Guarded!Named(b)) = 1
                            /\ Guarded!Named(a) \ Guarded!Named(b) \subseteq Dangerous
<1>9. \A n \in 1..Len(offered) : Narrows(offered[n], After(n))
  BY <1>8 DEF GuardInv, Guarded!SuggestionsNarrow
<1>10. Narrows(t, r)
  <2>1. Guarded!Named(t) \ Guarded!Named(r) = {d}
    BY <1>6
  <2>2. Guarded!Cardinality({d}) = 1
    <3>1. \A S : Guarded!Cardinality(S) = Cardinality(S)
      BY DEF Guarded!Cardinality, Cardinality
    <3>2. QED
      BY <3>1, FS_Singleton
  <2>3. QED
    BY <1>3, <1>5, <2>1, <2>2
<1> HIDE DEF Narrows
<1>11. ASSUME NEW n \in DOMAIN offered'
       PROVE  Narrows(offered'[n], IF n = Len(offered') THEN input'.tokens ELSE offered'[n + 1])
  <2>1. CASE n = Len(offered) + 1
    BY <1>7, <1>8, <1>10, <2>1
  <2>2. CASE n = Len(offered) /\ n \in 1..Len(offered)
    <3>1. n # Len(offered') /\ offered'[n] = offered[n] /\ offered'[n + 1] = t
      <4>1. n # Len(offered) + 1
        <5>1. \A m \in Nat : m # m + 1
          OBVIOUS
        <5>2. Len(offered) \in Nat
          BY <1>8
        <5>3. QED
          BY <2>2, <5>1, <5>2, Zenon
      <4>2. \A m \in 1..Len(offered) : offered'[m] = offered[m]
        BY <1>8
      <4>3. offered'[n] = offered[n]
        BY <2>2, <4>2, Zenon
      <4>4. offered'[n + 1] = offered'[Len(offered) + 1]
        BY <2>2, Zenon
      <4>5. Len(offered') = Len(offered) + 1 /\ offered'[Len(offered) + 1] = t
        BY <1>8
      <4>6. QED
        BY <4>1, <4>3, <4>4, <4>5, Zenon
    <3>2. After(n) = t
      BY <1>1, <2>2
    <3>3. Narrows(offered[n], t)
      BY <1>9, <2>2, <3>2
    <3>4. QED
      BY <3>1, <3>3
  <2>3. CASE n \in 1..Len(offered) /\ n # Len(offered)
    <3>1. n + 1 \in 1..Len(offered) /\ n # Len(offered')
      BY <1>8, <2>3
    <3>2. QED
      BY <1>8, <1>9, <2>3, <3>1
  <2>4. QED
    BY <1>8, <2>1, <2>2, <2>3
<1>12. Guarded!SuggestionsNarrow'
  BY <1>11 DEF Guarded!SuggestionsNarrow, Narrows
<1>13. QED
  BY <1>3, <1>7, <1>8, <1>12 DEF GuardInv

\* Operators only tighten.
LEMMA TightenKeeps ==
  ASSUME GuardInv, \/ Guarded!LowerCeiling \/ \E tool \in Guarded!Tools : Guarded!NeedApproval(tool)
                   \/ \E rule \in Rules, at \in 1..(MaxRules + 1) : Guarded!AddRule(rule, at)
  PROVE  /\ GuardInv'
         /\ UNCHANGED <<input, offered>> /\ policy.approve \subseteq policy'.approve
         /\ policy'.ceiling \in Nat /\ policy.ceiling \in Nat /\ policy'.ceiling <= policy.ceiling
         /\ \A in : Denied(policy, in) => Denied(policy', in)
<1>1. UNCHANGED <<input, offered>>
  BY DEF Guarded!LowerCeiling, Guarded!NeedApproval, Guarded!AddRule
<1>2. policy \in Policies /\ policy.deny \in Seq(Rules) /\ policy.ceiling \in 0..3 /\ policy.approve \subseteq Guarded!Tools
  BY DEF GuardInv, Policies
<1> DEFINE Tighter == /\ policy' \in Policies /\ policy.approve \subseteq policy'.approve
                      /\ policy'.ceiling \in Nat /\ policy.ceiling \in Nat /\ policy'.ceiling <= policy.ceiling
                      /\ \A in : Denied(policy, in) => Denied(policy', in)
<1>3. ASSUME Guarded!LowerCeiling PROVE Tighter
  <2>1. policy.ceiling > 0 /\ policy' = [policy EXCEPT !.ceiling = policy.ceiling - 1]
    BY <1>3 DEF Guarded!LowerCeiling
  <2>2. policy' \in Policies /\ policy'.deny = policy.deny /\ policy'.approve = policy.approve
        /\ policy'.ceiling = policy.ceiling - 1
    BY <1>2, <2>1 DEF Policies
  <2>3. policy'.ceiling \in Nat /\ policy.ceiling \in Nat /\ policy'.ceiling <= policy.ceiling
    BY <1>2, <2>1, <2>2
  <2>4. \A in : Denied(policy, in) => Denied(policy', in)
    BY <2>2 DEF Denied
  <2>5. Tighter
    BY <2>2, <2>3, <2>4
  <2>6. QED
    BY <2>5
<1>4. ASSUME NEW tool \in Guarded!Tools, Guarded!NeedApproval(tool)
      PROVE  /\ policy' \in Policies /\ policy'.deny = policy.deny /\ policy'.ceiling = policy.ceiling
             /\ policy'.approve = policy.approve \cup {tool}
  <2>1. policy' = [policy EXCEPT !.approve = policy.approve \cup {tool}]
    BY <1>4 DEF Guarded!NeedApproval
  <2>2. QED
    BY <1>2, <2>1 DEF Policies
<1>5. ASSUME \E tool \in Guarded!Tools : Guarded!NeedApproval(tool) PROVE Tighter
  <2>1. PICK tool \in Guarded!Tools : Guarded!NeedApproval(tool)
    BY <1>5
  <2>2. /\ policy' \in Policies /\ policy'.deny = policy.deny /\ policy'.ceiling = policy.ceiling
        /\ policy'.approve = policy.approve \cup {tool}
    BY <1>4, <2>1
  <2>3. policy.ceiling \in Nat /\ policy'.ceiling \in Nat /\ policy'.ceiling <= policy.ceiling
    BY <1>2, <2>2
  <2>4. \A in : Denied(policy, in) => Denied(policy', in)
    BY <2>2 DEF Denied
  <2>5. policy.approve \subseteq policy'.approve
    BY <2>2
  <2>6. QED
    BY <2>2, <2>3, <2>4, <2>5
<1>6. ASSUME NEW rule \in Rules, NEW at \in 1..(MaxRules + 1), Guarded!AddRule(rule, at)
      PROVE  /\ policy' \in Policies /\ policy'.ceiling = policy.ceiling /\ policy'.approve = policy.approve
             /\ \A in : Denied(policy, in) => Denied(policy', in)
  <2>1. PICK old \in Seq(Rules) : old = policy.deny
    BY <1>2
  <2>2. PICK new : new = [n \in 1..(Len(old) + 1) |-> IF n < at THEN old[n] ELSE IF n = at THEN rule ELSE old[n - 1]]
    OBVIOUS
  <2>3. policy' = [policy EXCEPT !.deny = new] /\ at \in 1..(Len(old) + 1)
    BY <1>6, <2>1, <2>2 DEF Guarded!AddRule
  <2>4. Len(old) \in Nat /\ DOMAIN old = 1..Len(old) /\ \A n \in 1..Len(old) : old[n] \in Rules
    BY <2>1
  <2>5. \A n \in 1..(Len(old) + 1) : new[n] \in Rules
    BY <2>2, <2>3, <2>4
  <2>6. new \in Seq(Rules) /\ DOMAIN new = 1..(Len(old) + 1)
    <3>1. new \in [1..(Len(old) + 1) -> Rules]
      BY <2>2, <2>5
    <3>2. Len(old) + 1 \in Nat
      BY <2>4
    <3>3. QED
      BY <3>1, <3>2
  <2>7. policy' \in Policies /\ policy'.deny = new /\ policy'.ceiling = policy.ceiling /\ policy'.approve = policy.approve
    BY <1>2, <2>3, <2>6 DEF Policies
  <2>8. \A n \in DOMAIN old : \E m \in DOMAIN new : new[m] = old[n]
    <3> SUFFICES ASSUME NEW n \in DOMAIN old PROVE \E m \in DOMAIN new : new[m] = old[n]
      OBVIOUS
    <3>1. CASE n < at
      <4>1. n \in DOMAIN new /\ new[n] = old[n]
        BY <2>2, <2>4, <2>6, <3>1
      <4>2. QED
        BY <4>1
    <3>2. CASE ~(n < at)
      <4>1. n + 1 \in DOMAIN new /\ ~(n + 1 < at) /\ n + 1 # at /\ (n + 1) - 1 = n
        BY <2>3, <2>4, <2>6, <3>2
      <4>2. new[n + 1] = old[n]
        BY <2>2, <2>6, <4>1
      <4>3. QED
        BY <4>1, <4>2
    <3>3. QED
      BY <3>1, <3>2
  <2>9. QED
    BY <2>1, <2>7, <2>8 DEF Denied
<1>7. ASSUME \E rule \in Rules, at \in 1..(MaxRules + 1) : Guarded!AddRule(rule, at) PROVE Tighter
  <2>1. PICK rule \in Rules, at \in 1..(MaxRules + 1) : Guarded!AddRule(rule, at)
    BY <1>7
  <2>2. /\ policy' \in Policies /\ policy'.ceiling = policy.ceiling /\ policy'.approve = policy.approve
        /\ \A in : Denied(policy, in) => Denied(policy', in)
    BY <1>6, <2>1
  <2>3. policy.ceiling \in Nat /\ policy'.ceiling \in Nat /\ policy'.ceiling <= policy.ceiling
    BY <1>2, <2>2
  <2>4. policy.approve \subseteq policy'.approve
    BY <2>2
  <2>5. QED
    BY <2>2, <2>3, <2>4
<1>8. Tighter
  <2> HIDE DEF Tighter
  <2> QED
    BY <1>3, <1>5, <1>7
<1>9. GuardInv'
  <2>1. Guarded!SuggestionsNarrow' <=> Guarded!SuggestionsNarrow
    BY <1>1 DEF Guarded!SuggestionsNarrow
  <2>2. QED
    BY <1>1, <1>8, <2>1 DEF GuardInv
<1>10. QED
  BY <1>1, <1>8, <1>9

\* Every step keeps the invariant, and none loosens a verdict.
LEMMA GuardStep ==
  ASSUME GuardInv, [Guarded!PolicyNext]_(Guarded!policyVars)
  PROVE  /\ GuardInv'
         /\ UNCHANGED input => Guarded!Severity[Guarded!Evaluate(policy', input).kind]
                                 >= Guarded!Severity[Guarded!Evaluate(policy, input).kind]
<1>1. CASE Guarded!Resubmit
  <2>1. policy' = policy
    BY <1>1 DEF Guarded!Resubmit
  <2>2. Guarded!Severity[Guarded!Evaluate(policy', input).kind] >= Guarded!Severity[Guarded!Evaluate(policy, input).kind]
    BY <2>1, TighterAnswers
  <2>3. QED
    BY <1>1, <2>2, ResubmitKeeps
<1>2. CASE UNCHANGED Guarded!policyVars
  <2>1. policy' = policy /\ input' = input /\ offered' = offered
    BY <1>2 DEF Guarded!policyVars
  <2>2. Guarded!Severity[Guarded!Evaluate(policy', input).kind] >= Guarded!Severity[Guarded!Evaluate(policy, input).kind]
    BY <2>1, TighterAnswers
  <2>3. GuardInv'
    BY <2>1 DEF GuardInv, Guarded!SuggestionsNarrow
  <2>4. QED
    BY <2>2, <2>3
<1>3. CASE \/ Guarded!LowerCeiling \/ \E tool \in Guarded!Tools : Guarded!NeedApproval(tool)
           \/ \E rule \in Rules, at \in 1..(MaxRules + 1) : Guarded!AddRule(rule, at)
  <2>1. /\ GuardInv' /\ policy.approve \subseteq policy'.approve
        /\ policy'.ceiling \in Nat /\ policy.ceiling \in Nat /\ policy'.ceiling <= policy.ceiling
        /\ \A in : Denied(policy, in) => Denied(policy', in)
    BY <1>3, TightenKeeps
  <2>2. input.sensitivity > policy.ceiling => input.sensitivity > policy'.ceiling
    <3>1. input.sensitivity \in {0, 2}
      BY DEF GuardInv, PolicyCalls
    <3>2. QED
      BY <2>1, <3>1
  <2>3. PICK q : q = policy'
    OBVIOUS
  <2>4. Guarded!Severity[Guarded!Evaluate(q, input).kind] >= Guarded!Severity[Guarded!Evaluate(policy, input).kind]
    BY <2>1, <2>2, <2>3, TighterAnswers
  <2>5. QED
    BY <2>1, <2>3, <2>4
<1>4. QED
  BY <1>1, <1>2, <1>3 DEF Guarded!PolicyNext

LEMMA RiskIsAsked == Guarded!RiskNeedsApproval
<1> SUFFICES ASSUME Guarded!Evaluate(policy, input).kind = "allow"
             PROVE  /\ input.tool # "shell.run" /\ ~input.critical
                    /\ \A n \in DOMAIN policy.deny :
                          policy.deny[n].tool \in {"*", input.tool} /\ policy.deny[n].compiles =>
                             policy.deny[n].matches \cap Guarded!Named(input.tokens) = {}
  BY DEF Guarded!RiskNeedsApproval
<1>1. ~Denied(policy, input) /\ input.tool # "shell.run" /\ ~input.critical
  BY EvaluateKinds
<1>2. ASSUME NEW n \in DOMAIN policy.deny, policy.deny[n].tool \in {"*", input.tool}, policy.deny[n].compiles
      PROVE  policy.deny[n].matches \cap Guarded!Named(input.tokens) = {}
  BY <1>1, <1>2, Zenon DEF Denied, Guarded!Matches
<1>3. QED
  BY <1>1, <1>2

(* Tightening the policy loosens no verdict, wherever a rule is put in; for any
   rules, paths and dangerous paths.                                       *)
THEOREM PolicyTightens == Guarded!PolicySpec => Guarded!TighterIsStricter
<1>1. Guarded!PolicyInit => GuardInv
  BY GuardInit
<1>2. GuardInv /\ [Guarded!PolicyNext]_(Guarded!policyVars) => GuardInv'
  BY GuardStep
<1>3. GuardInv /\ [Guarded!PolicyNext]_(Guarded!policyVars) =>
        [UNCHANGED input => Guarded!Severity[Guarded!Evaluate(policy', input).kind]
                              >= Guarded!Severity[Guarded!Evaluate(policy, input).kind]]_(Guarded!policyVars)
  BY GuardStep
<1>4. QED
  BY <1>1, <1>2, <1>3, PTL DEF Guarded!PolicySpec, Guarded!TighterIsStricter

(* Each suggestion drops one dangerous path and leaves something to run, and
   neither shell commands, critical tools nor what a deny rule matches run
   without approval; for any rules and commands of any length.             *)
THEOREM SuggestionsOnlyNarrow ==
  Guarded!PolicySpec => [](Guarded!SuggestionsNarrow /\ Guarded!RiskNeedsApproval)
<1>1. Guarded!PolicyInit => GuardInv
  BY GuardInit
<1>2. GuardInv /\ [Guarded!PolicyNext]_(Guarded!policyVars) => GuardInv'
  BY GuardStep
<1>3. GuardInv => Guarded!SuggestionsNarrow /\ Guarded!RiskNeedsApproval
  BY RiskIsAsked DEF GuardInv
<1>4. QED
  BY <1>1, <1>2, <1>3, PTL DEF Guarded!PolicySpec

---------------------------------------------------------------------------
(* What is shown and what is confined, together.                           *)

(* A listing shows what it is asked for. Two boots seed one file whole
   unless one died between the inserts. A type filter narrows the entities
   and not the limit, and the four relation queries agree. A walk over the
   pages of GET or GraphQL, while rows are posted and patched, misses no
   row unless one was deleted under it.                                    *)
ListingsAreExact ==
  /\ Catalog!TypeOK /\ Catalog!SeedingIsWhole
  /\ Catalog!EntityListingIsFull /\ Catalog!RelationListingIsExact
  /\ Rest!TypeOK /\ Rest!WalkMissesNothing

\* Listings of the registry and walks over the tables show what they are asked
\* for, for any rows and filters, any number of boots and every page size.
THEOREM ListingsShowAll ==
  ASSUME CatalogConstants, RestConstants
  PROVE  Catalog!Spec /\ Rest!Spec => []ListingsAreExact
<1>1. /\ Catalog!Spec => [](/\ Catalog!TypeOK /\ Catalog!SeedingIsWhole
                            /\ Catalog!EntityListingIsFull /\ Catalog!RelationListingIsExact)
      /\ Rest!Spec => [](Rest!TypeOK /\ Rest!WalkMissesNothing)
  BY CatalogIsExact, WalksAreComplete
<1>2. QED
  BY <1>1, PTL DEF ListingsAreExact

(* No request widens what an earlier one confined. A revoked permission is
   not granted again. A PATCH or DELETE changes rows of its own workspace,
   whatever its filters. A rule more, a lower ceiling or a tool put under
   approval loosens no verdict. Shell commands, critical tools and what a
   deny rule matches never run without approval, and suggestions only drop
   what is dangerous, each shorter than the last.                          *)
ChangesAreConfined ==
  /\ Catalog!RevocationIsFinal
  /\ Rest!WritesStayInWorkspace
  /\ Guarded!TighterIsStricter
  /\ [](Guarded!SuggestionsNarrow /\ Guarded!RiskNeedsApproval)

\* Revocations, workspaces, policies and suggestions only confine, for any
\* permissions, rows, filters, rules and commands.
THEOREM ChangesStayConfined ==
  ASSUME CatalogConstants, RestConstants
  PROVE  Catalog!Spec /\ Rest!Spec /\ Guarded!PolicySpec => ChangesAreConfined
<1>1. /\ Catalog!Spec => Catalog!RevocationIsFinal
      /\ Rest!Spec => Rest!WritesStayInWorkspace
      /\ Guarded!PolicySpec => Guarded!TighterIsStricter
      /\ Guarded!PolicySpec => [](Guarded!SuggestionsNarrow /\ Guarded!RiskNeedsApproval)
  BY RevocationLasts, RestStaysInWorkspace, PolicyTightens, SuggestionsOnlyNarrow
<1>2. QED
  BY <1>1, PTL DEF ChangesAreConfined
=============================================================================
