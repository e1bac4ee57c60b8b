-------------------------- MODULE ToolCallsProofs --------------------------
(***************************************************************************)
(* Proofs about ToolCalls, for any number of requests and decisions, any   *)
(* policy, with and without faults.                                        *)
(***************************************************************************)
EXTENDS ToolCalls, TLAPS

\* Only approve and deny touch an approval row.
DecidersDecide == \A d \in Decisions : dpc[d] = "update_approval" => op[d] # "record"

TypeInv == TypeOK /\ DecidersDecide

\* Which rows a request has at each statement.
RequestRows ==
    \A r \in Requests :
        /\ pc[r] \in {"idle", "select_tool", "insert_tool", "insert_call"} =>
              tool_call[r] = "none" /\ approval_request[r] = "none"
        /\ pc[r] \in {"insert_call", "link", "event", "done"} => Guard[want[r]] # "block"
        /\ pc[r] = "insert_approval" =>
              approval_request[r] = "none" /\ Guard[want[r]] = "require_approval"
        /\ pc[r] \in {"link", "event", "done"} =>
              /\ tool_call[r] # "none"
              /\ Guard[want[r]] = "require_approval" => approval_request[r] # "none"
        /\ pc[r] \in {"insert_approval", "link", "event", "done"} => tool_call[r] # "none"
        /\ approval_request[r] # "none" =>
              tool_call[r] # "none" /\ Guard[want[r]] = "require_approval"

\* A request is announced by its last statement.
AnnouncedIsDone ==
    \A r \in Requests : \A i \in 1..Len(agent_event) :
        agent_event[i] = Event("tool_call_requested", r) => pc[r] = "done"

\* A decision is about a call that has its rows.
TargetsHaveRows ==
    \A d \in Decisions : target[d] \in Requests =>
        /\ tool_call[target[d]] # "none"
        /\ Guard[want[target[d]]] # "block"
        /\ Guard[want[target[d]]] = "require_approval" => approval_request[target[d]] # "none"

\* What a decision has done at each statement.
DecisionRows ==
    \A d \in Decisions :
        /\ dpc[d] = "idle" => target[d] = NoCall
        /\ dpc[d] \in {"idle", "update_approval", "update_call"} => d \notin applied
        /\ (/\ dpc[d] \in {"update_call", "event"} /\ op[d] # "record"
            /\ target[d] \in Requests
            /\ Guard[want[target[d]]] = "require_approval") =>
              approval_request[target[d]] \in {"approved", "denied"}
        /\ (dpc[d] = "event" /\ op[d] = "record" /\ target[d] \in Requests) =>
              result[target[d]] # {}

\* A decided approval row was decided by somebody.
DecidedBySomeone ==
    \A r \in Requests : approval_request[r] \in {"approved", "denied"} =>
        \E d \in Decisions : target[d] = r /\ dpc[d] \notin {"idle", "update_approval"}

\* Nobody but d decides about r.
Lone(d, r) == target[d] = r /\ \A e \in Decisions \ {d} : target[e] # r

\* A lone decision between its two UPDATEs has its way with the first.
LoneApproval ==
    \A d \in Decisions : \A r \in Requests :
        (/\ dpc[d] = "update_call" /\ op[d] # "record" /\ Lone(d, r)
         /\ Guard[want[r]] = "require_approval") => approval_request[r] = StatusOf(op[d])

CallInv ==
    /\ TypeInv
    /\ RequestRows
    /\ AnnouncedIsDone
    /\ TargetsHaveRows
    /\ DecisionRows
    /\ DecidedBySomeone
    /\ LoneApproval
    /\ StatusHasACause
    /\ LoneDecisionSticks
    /\ EventsAreBacked

-----------------------------------------------------------------------------

\* The rows of the one event log the commands append to.
EventRec == [type : EventTypes, call : Requests \cup {NoCall}]

\* Appending an event keeps the log well typed.
LEMMA AppendTypes ==
    ASSUME NEW log \in Seq(EventRec), NEW e \in EventRec
    PROVE  /\ Append(log, e) \in Seq(EventRec)
           /\ Len(log) \in Nat
           /\ Len(Append(log, e)) = Len(log) + 1
           /\ Append(log, e)[Len(log) + 1] = e
           /\ \A i \in 1..Len(log) : Append(log, e)[i] = log[i]
OBVIOUS

\* Every step preserves the types.
LEMMA TypeStep ==
    ASSUME TypeInv, [Next]_vars
    PROVE  TypeInv'
<1> USE CallsAssumption
<1>F. TypeOK /\ DecidersDecide /\ agent_event \in Seq(EventRec)
  BY DEF TypeInv, TypeOK, EventRec
<1>1. ASSUME NEW r \in Requests, Request(r)
      PROVE  TypeInv'
  BY <1>1, <1>F DEF Request, GotoR, OthersKeep, rows, TypeInv, DecidersDecide, TypeOK,
    Pcs, Dpcs, Ended, Statuses, Ops
<1>2. ASSUME NEW r \in Requests, SelectTool(r)
      PROVE  TypeInv'
  BY <1>2, <1>F DEF SelectTool, GotoR, OthersKeep, Evaluate, rows, TypeInv,
    DecidersDecide, TypeOK, Pcs, Dpcs, Ended, Statuses, Ops
<1>3. ASSUME NEW r \in Requests, InsertTool(r)
      PROVE  TypeInv'
  BY <1>3, <1>F DEF InsertTool, GotoR, OthersKeep, Evaluate, TypeInv, DecidersDecide,
    TypeOK, Pcs, Dpcs, Ended, Statuses, Ops
<1>4. ASSUME NEW r \in Requests, InsertCall(r)
      PROVE  TypeInv'
  BY <1>4, <1>F DEF InsertCall, GotoR, OthersKeep, TypeInv, DecidersDecide, TypeOK, Pcs,
    Dpcs, Ended, Statuses, Ops
<1>5. ASSUME NEW r \in Requests, InsertApproval(r)
      PROVE  TypeInv'
  BY <1>5, <1>F DEF InsertApproval, GotoR, OthersKeep, TypeInv, DecidersDecide, TypeOK,
    Pcs, Dpcs, Ended, Statuses, Ops
<1>6. ASSUME NEW r \in Requests, LinkApproval(r)
      PROVE  TypeInv'
  BY <1>6, <1>F DEF LinkApproval, GotoR, OthersKeep, TypeInv, DecidersDecide, TypeOK,
    Pcs, Dpcs, Ended, Statuses, Ops
<1>7. ASSUME NEW r \in Requests, RequestEvent(r)
      PROVE  TypeInv'
  <2>1. Event("tool_call_requested", r) \in EventRec
    BY DEF Event, EventRec, EventTypes
  <2>2. agent_event' \in Seq(EventRec)
    BY <1>7, <1>F, <2>1, AppendTypes DEF RequestEvent
  <2>3. agent_event' \in Seq([type : EventTypes, call : Requests \cup {NoCall}])
    BY <2>2 DEF EventRec
  <2>4. QED
    BY <1>7, <1>F, <2>3 DEF RequestEvent, GotoR, OthersKeep, rows, TypeInv, TypeOK,
      DecidersDecide, Pcs, Ended
<1>8. ASSUME NEW r \in Requests, AbortRequest(r)
      PROVE  TypeInv'
  BY <1>8, <1>F DEF AbortRequest, GotoR, OthersKeep, Ended, rows, TypeInv,
    DecidersDecide, TypeOK, Pcs, Dpcs, Statuses, Ops
<1>9. ASSUME NEW d \in Decisions, NEW o \in Ops, NEW c \in Requests \cup {NoCall},
             Decide(d, o, c)
      PROVE  TypeInv'
  BY <1>9, <1>F DEF Decide, GotoD, rows, TypeInv, DecidersDecide, TypeOK, Pcs, Dpcs,
    Ended, Statuses, Ops
<1>10. ASSUME NEW d \in Decisions, UpdateApproval(d)
      PROVE  TypeInv'
  BY <1>10, <1>F DEF UpdateApproval, GotoD, RequestsKeep, StatusOf, TypeInv,
    DecidersDecide, TypeOK, Pcs, Dpcs, Ended, Statuses, Ops
<1>11. ASSUME NEW d \in Decisions, UpdateCall(d)
      PROVE  TypeInv'
  BY <1>11, <1>F DEF UpdateCall, GotoD, RequestsKeep, StatusOf, TypeInv, DecidersDecide,
    TypeOK, Pcs, Dpcs, Ended, Statuses, Ops
<1>12. ASSUME NEW d \in Decisions, DecisionEvent(d)
      PROVE  TypeInv'
  <2>1. EventOf(op[d]) \in EventTypes /\ target[d] \in Requests \cup {NoCall}
    BY <1>F DEF EventOf, EventTypes, TypeOK
  <2>2. Event(EventOf(op[d]), target[d]) \in EventRec
    BY <2>1 DEF Event, EventRec
  <2>3. agent_event' \in Seq(EventRec)
    BY <1>12, <1>F, <2>2, AppendTypes DEF DecisionEvent
  <2>4. agent_event' \in Seq([type : EventTypes, call : Requests \cup {NoCall}])
    BY <2>3 DEF EventRec
  <2>5. QED
    BY <1>12, <1>F, <2>4 DEF DecisionEvent, GotoD, RequestsKeep, TypeInv, TypeOK,
      DecidersDecide, Dpcs, Ended
<1>13. ASSUME NEW d \in Decisions, AbortDecision(d)
      PROVE  TypeInv'
  BY <1>13, <1>F DEF AbortDecision, GotoD, Ended, rows, TypeInv, DecidersDecide, TypeOK,
    Pcs, Dpcs, Statuses, Ops
<1>14. CASE UNCHANGED vars
  BY <1>14, <1>F DEF vars, rows, TypeInv, DecidersDecide, TypeOK, Pcs, Dpcs, Ended,
    Statuses, Ops
<1>15. QED
  BY <1>1, <1>2, <1>3, <1>4, <1>5, <1>6, <1>7, <1>8, <1>9, <1>10, <1>11, <1>12, <1>13,
    <1>14 DEF Next, RequestStep, DecisionStep

\* The empty tables are well typed.
LEMMA TypeInit == Init => TypeInv
BY CallsAssumption DEF Init, TypeInv, DecidersDecide, TypeOK, Pcs, Dpcs, Statuses, Ops

\* Type correctness of the rows and of the commands' local state.
THEOREM TypeCorrect == Spec => []TypeOK
<1>1. TypeInv /\ [Next]_vars => TypeInv'
  BY TypeStep
<1>2. TypeInv => TypeOK
  BY DEF TypeInv
<1>3. QED
  BY <1>1, <1>2, TypeInit, PTL DEF Spec

\* The statements of a request build its rows in order.
LEMMA RequestRowsStep ==
    ASSUME CallInv, [Next]_vars
    PROVE  RequestRows'
<1> USE CallsAssumption, GuardAssumption
<1>F. TypeOK /\ DecidersDecide /\ RequestRows /\ TargetsHaveRows
  BY DEF CallInv, TypeInv
<1>1. ASSUME NEW r \in Requests, Request(r)
      PROVE  RequestRows'
  BY <1>1, <1>F DEF Request, GotoR, OthersKeep, rows, TypeOK, DecidersDecide, Ops,
    RequestRows, TargetsHaveRows
<1>2. ASSUME NEW r \in Requests, SelectTool(r)
      PROVE  RequestRows'
  BY <1>2, <1>F DEF SelectTool, GotoR, OthersKeep, Evaluate, rows, TypeOK,
    DecidersDecide, Ops, RequestRows, TargetsHaveRows
<1>3. ASSUME NEW r \in Requests, InsertTool(r)
      PROVE  RequestRows'
  BY <1>3, <1>F DEF InsertTool, GotoR, OthersKeep, Evaluate, TypeOK, DecidersDecide,
    Ops, RequestRows, TargetsHaveRows
<1>4. ASSUME NEW r \in Requests, InsertCall(r)
      PROVE  RequestRows'
  BY <1>4, <1>F DEF InsertCall, GotoR, OthersKeep, TypeOK, DecidersDecide, Ops,
    RequestRows, TargetsHaveRows
<1>5. ASSUME NEW r \in Requests, InsertApproval(r)
      PROVE  RequestRows'
  BY <1>5, <1>F DEF InsertApproval, GotoR, OthersKeep, TypeOK, DecidersDecide, Ops,
    RequestRows, TargetsHaveRows
<1>6. ASSUME NEW r \in Requests, LinkApproval(r)
      PROVE  RequestRows'
  BY <1>6, <1>F DEF LinkApproval, GotoR, OthersKeep, TypeOK, DecidersDecide, Ops,
    RequestRows, TargetsHaveRows
<1>7. ASSUME NEW r \in Requests, RequestEvent(r)
      PROVE  RequestRows'
  BY <1>7, <1>F DEF RequestEvent, GotoR, OthersKeep, Event, rows, TypeOK,
    DecidersDecide, Ops, RequestRows, TargetsHaveRows
<1>8. ASSUME NEW r \in Requests, AbortRequest(r)
      PROVE  RequestRows'
  BY <1>8, <1>F DEF AbortRequest, GotoR, OthersKeep, Ended, rows, TypeOK,
    DecidersDecide, Ops, RequestRows, TargetsHaveRows
<1>9. ASSUME NEW d \in Decisions, NEW o \in Ops, NEW c \in Requests \cup {NoCall},
             Decide(d, o, c)
      PROVE  RequestRows'
  BY <1>9, <1>F DEF Decide, GotoD, rows, TypeOK, DecidersDecide, Ops, RequestRows,
    TargetsHaveRows
<1>10. ASSUME NEW d \in Decisions, UpdateApproval(d)
      PROVE  RequestRows'
  BY <1>10, <1>F DEF UpdateApproval, GotoD, RequestsKeep, StatusOf, TypeOK,
    DecidersDecide, Ops, RequestRows, TargetsHaveRows
<1>11. ASSUME NEW d \in Decisions, UpdateCall(d)
      PROVE  RequestRows'
  BY <1>11, <1>F DEF UpdateCall, GotoD, RequestsKeep, StatusOf, TypeOK, DecidersDecide,
    Ops, RequestRows, TargetsHaveRows
<1>12. ASSUME NEW d \in Decisions, DecisionEvent(d)
      PROVE  RequestRows'
  BY <1>12, <1>F DEF DecisionEvent, GotoD, RequestsKeep, Event, TypeOK, DecidersDecide,
    Ops, RequestRows, TargetsHaveRows
<1>13. ASSUME NEW d \in Decisions, AbortDecision(d)
      PROVE  RequestRows'
  BY <1>13, <1>F DEF AbortDecision, GotoD, Ended, rows, TypeOK, DecidersDecide, Ops,
    RequestRows, TargetsHaveRows
<1>14. CASE UNCHANGED vars
  BY <1>14, <1>F DEF vars, rows, RequestRows
<1>15. QED
  BY <1>1, <1>2, <1>3, <1>4, <1>5, <1>6, <1>7, <1>8, <1>9, <1>10, <1>11, <1>12, <1>13,
    <1>14 DEF Next, RequestStep, DecisionStep

\* A decision knows what its earlier statements wrote.
LEMMA DecisionRowsStep ==
    ASSUME CallInv, [Next]_vars
    PROVE  DecisionRows'
<1> USE CallsAssumption, GuardAssumption
<1>F. TypeOK /\ DecidersDecide /\ DecisionRows /\ RequestRows /\ TargetsHaveRows
  BY DEF CallInv, TypeInv
<1>1. ASSUME NEW r \in Requests, Request(r)
      PROVE  DecisionRows'
  BY <1>1, <1>F DEF Request, GotoR, OthersKeep, rows, TypeOK, DecidersDecide, Ops,
    DecisionRows, RequestRows, TargetsHaveRows
<1>2. ASSUME NEW r \in Requests, SelectTool(r)
      PROVE  DecisionRows'
  BY <1>2, <1>F DEF SelectTool, GotoR, OthersKeep, Evaluate, rows, TypeOK,
    DecidersDecide, Ops, DecisionRows, RequestRows, TargetsHaveRows
<1>3. ASSUME NEW r \in Requests, InsertTool(r)
      PROVE  DecisionRows'
  BY <1>3, <1>F DEF InsertTool, GotoR, OthersKeep, Evaluate, TypeOK, DecidersDecide,
    Ops, DecisionRows, RequestRows, TargetsHaveRows
<1>4. ASSUME NEW r \in Requests, InsertCall(r)
      PROVE  DecisionRows'
  BY <1>4, <1>F DEF InsertCall, GotoR, OthersKeep, TypeOK, DecidersDecide, Ops,
    DecisionRows, RequestRows, TargetsHaveRows
<1>5. ASSUME NEW r \in Requests, InsertApproval(r)
      PROVE  DecisionRows'
  BY <1>5, <1>F DEF InsertApproval, GotoR, OthersKeep, TypeOK, DecidersDecide, Ops,
    DecisionRows, RequestRows, TargetsHaveRows
<1>6. ASSUME NEW r \in Requests, LinkApproval(r)
      PROVE  DecisionRows'
  BY <1>6, <1>F DEF LinkApproval, GotoR, OthersKeep, TypeOK, DecidersDecide, Ops,
    DecisionRows, RequestRows, TargetsHaveRows
<1>7. ASSUME NEW r \in Requests, RequestEvent(r)
      PROVE  DecisionRows'
  BY <1>7, <1>F DEF RequestEvent, GotoR, OthersKeep, Event, rows, TypeOK,
    DecidersDecide, Ops, DecisionRows, RequestRows, TargetsHaveRows
<1>8. ASSUME NEW r \in Requests, AbortRequest(r)
      PROVE  DecisionRows'
  BY <1>8, <1>F DEF AbortRequest, GotoR, OthersKeep, Ended, rows, TypeOK,
    DecidersDecide, Ops, DecisionRows, RequestRows, TargetsHaveRows
<1>9. ASSUME NEW d \in Decisions, NEW o \in Ops, NEW c \in Requests \cup {NoCall},
             Decide(d, o, c)
      PROVE  DecisionRows'
  BY <1>9, <1>F DEF Decide, GotoD, rows, TypeOK, DecidersDecide, Ops, DecisionRows,
    RequestRows, TargetsHaveRows
<1>10. ASSUME NEW d \in Decisions, UpdateApproval(d)
      PROVE  DecisionRows'
  BY <1>10, <1>F DEF UpdateApproval, GotoD, RequestsKeep, StatusOf, TypeOK,
    DecidersDecide, Ops, DecisionRows, RequestRows, TargetsHaveRows
<1>11. ASSUME NEW d \in Decisions, UpdateCall(d)
      PROVE  DecisionRows'
  <2>1. /\ dpc' = [dpc EXCEPT ![d] = "event"] /\ applied' = applied \cup {d}
        /\ UNCHANGED <<approval_request, op, target, want>>
        /\ \A r \in Requests : result'[r] =
              IF r = target[d] /\ op[d] = "record" THEN {d} ELSE result[r]
    BY <1>11 DEF UpdateCall, GotoD, RequestsKeep
  <2>2. \A r \in Requests : result[r] # {} => result'[r] # {}
    BY <2>1
  <2>3. dpc[d] = "update_call"
    BY <1>11 DEF UpdateCall
  <2> SUFFICES ASSUME NEW e \in Decisions
               PROVE  (/\ dpc[e] = "idle" => target[e] = NoCall
                       /\ dpc[e] \in {"idle", "update_approval", "update_call"} => e \notin applied
                       /\ (/\ dpc[e] \in {"update_call", "event"} /\ op[e] # "record"
                           /\ target[e] \in Requests
                           /\ Guard[want[target[e]]] = "require_approval") =>
                             approval_request[target[e]] \in {"approved", "denied"}
                       /\ (dpc[e] = "event" /\ op[e] = "record" /\ target[e] \in Requests) =>
                             result[target[e]] # {})'
    BY DEF DecisionRows
  <2>4. CASE e = d
    BY <1>F, <2>1, <2>3, <2>4 DEF DecisionRows, TypeOK
  <2>5. CASE e # d
    BY <1>F, <2>1, <2>2, <2>5 DEF DecisionRows, TypeOK
  <2>6. QED
    BY <2>4, <2>5
<1>12. ASSUME NEW d \in Decisions, DecisionEvent(d)
      PROVE  DecisionRows'
  BY <1>12, <1>F DEF DecisionEvent, GotoD, RequestsKeep, Event, TypeOK, DecidersDecide,
    Ops, DecisionRows, RequestRows, TargetsHaveRows
<1>13. ASSUME NEW d \in Decisions, AbortDecision(d)
      PROVE  DecisionRows'
  BY <1>13, <1>F DEF AbortDecision, GotoD, Ended, rows, TypeOK, DecidersDecide, Ops,
    DecisionRows, RequestRows, TargetsHaveRows
<1>14. CASE UNCHANGED vars
  BY <1>14, <1>F DEF vars, rows, DecisionRows
<1>15. QED
  BY <1>1, <1>2, <1>3, <1>4, <1>5, <1>6, <1>7, <1>8, <1>9, <1>10, <1>11, <1>12, <1>13,
    <1>14 DEF Next, RequestStep, DecisionStep

\* Only visible calls are decided about.
LEMMA TargetsHaveRowsStep ==
    ASSUME CallInv, [Next]_vars
    PROVE  TargetsHaveRows'
<1> USE CallsAssumption, GuardAssumption
<1>F. TypeOK /\ DecidersDecide /\ TargetsHaveRows /\ RequestRows /\ AnnouncedIsDone
  BY DEF CallInv, TypeInv
<1>1. ASSUME NEW r \in Requests, Request(r)
      PROVE  TargetsHaveRows'
  BY <1>1, <1>F DEF Request, GotoR, OthersKeep, rows, TypeOK, DecidersDecide, Ops,
    TargetsHaveRows, RequestRows, AnnouncedIsDone
<1>2. ASSUME NEW r \in Requests, SelectTool(r)
      PROVE  TargetsHaveRows'
  BY <1>2, <1>F DEF SelectTool, GotoR, OthersKeep, Evaluate, rows, TypeOK,
    DecidersDecide, Ops, TargetsHaveRows, RequestRows, AnnouncedIsDone
<1>3. ASSUME NEW r \in Requests, InsertTool(r)
      PROVE  TargetsHaveRows'
  BY <1>3, <1>F DEF InsertTool, GotoR, OthersKeep, Evaluate, TypeOK, DecidersDecide,
    Ops, TargetsHaveRows, RequestRows, AnnouncedIsDone
<1>4. ASSUME NEW r \in Requests, InsertCall(r)
      PROVE  TargetsHaveRows'
  BY <1>4, <1>F DEF InsertCall, GotoR, OthersKeep, TypeOK, DecidersDecide, Ops,
    TargetsHaveRows, RequestRows, AnnouncedIsDone
<1>5. ASSUME NEW r \in Requests, InsertApproval(r)
      PROVE  TargetsHaveRows'
  BY <1>5, <1>F DEF InsertApproval, GotoR, OthersKeep, TypeOK, DecidersDecide, Ops,
    TargetsHaveRows, RequestRows, AnnouncedIsDone
<1>6. ASSUME NEW r \in Requests, LinkApproval(r)
      PROVE  TargetsHaveRows'
  BY <1>6, <1>F DEF LinkApproval, GotoR, OthersKeep, TypeOK, DecidersDecide, Ops,
    TargetsHaveRows, RequestRows, AnnouncedIsDone
<1>7. ASSUME NEW r \in Requests, RequestEvent(r)
      PROVE  TargetsHaveRows'
  BY <1>7, <1>F DEF RequestEvent, GotoR, OthersKeep, Event, rows, TypeOK,
    DecidersDecide, Ops, TargetsHaveRows, RequestRows, AnnouncedIsDone
<1>8. ASSUME NEW r \in Requests, AbortRequest(r)
      PROVE  TargetsHaveRows'
  BY <1>8, <1>F DEF AbortRequest, GotoR, OthersKeep, Ended, rows, TypeOK,
    DecidersDecide, Ops, TargetsHaveRows, RequestRows, AnnouncedIsDone
<1>9. ASSUME NEW d \in Decisions, NEW o \in Ops, NEW c \in Requests \cup {NoCall},
             Decide(d, o, c)
      PROVE  TargetsHaveRows'
  BY <1>9, <1>F DEF Decide, GotoD, rows, TypeOK, DecidersDecide, Ops, TargetsHaveRows,
    RequestRows, AnnouncedIsDone, Visible
<1>10. ASSUME NEW d \in Decisions, UpdateApproval(d)
      PROVE  TargetsHaveRows'
  BY <1>10, <1>F DEF UpdateApproval, GotoD, RequestsKeep, StatusOf, TypeOK,
    DecidersDecide, Ops, TargetsHaveRows, RequestRows, AnnouncedIsDone
<1>11. ASSUME NEW d \in Decisions, UpdateCall(d)
      PROVE  TargetsHaveRows'
  BY <1>11, <1>F DEF UpdateCall, GotoD, RequestsKeep, StatusOf, TypeOK, DecidersDecide,
    Ops, TargetsHaveRows, RequestRows, AnnouncedIsDone
<1>12. ASSUME NEW d \in Decisions, DecisionEvent(d)
      PROVE  TargetsHaveRows'
  BY <1>12, <1>F DEF DecisionEvent, GotoD, RequestsKeep, Event, TypeOK, DecidersDecide,
    Ops, TargetsHaveRows, RequestRows, AnnouncedIsDone
<1>13. ASSUME NEW d \in Decisions, AbortDecision(d)
      PROVE  TargetsHaveRows'
  BY <1>13, <1>F DEF AbortDecision, GotoD, Ended, rows, TypeOK, DecidersDecide, Ops,
    TargetsHaveRows, RequestRows, AnnouncedIsDone
<1>14. CASE UNCHANGED vars
  BY <1>14, <1>F DEF vars, rows, TargetsHaveRows
<1>15. QED
  BY <1>1, <1>2, <1>3, <1>4, <1>5, <1>6, <1>7, <1>8, <1>9, <1>10, <1>11, <1>12, <1>13,
    <1>14 DEF Next, RequestStep, DecisionStep

\* No statement but a decision's decides an approval row.
LEMMA DecidedBySomeoneStep ==
    ASSUME CallInv, [Next]_vars
    PROVE  DecidedBySomeone'
<1> USE CallsAssumption, GuardAssumption
<1>F. TypeOK /\ DecidersDecide /\ DecidedBySomeone /\ DecisionRows
  BY DEF CallInv, TypeInv
<1>1. ASSUME NEW r \in Requests, Request(r)
      PROVE  DecidedBySomeone'
  BY <1>1, <1>F DEF Request, GotoR, OthersKeep, rows, TypeOK, DecidersDecide, Ops,
    DecidedBySomeone, DecisionRows
<1>2. ASSUME NEW r \in Requests, SelectTool(r)
      PROVE  DecidedBySomeone'
  BY <1>2, <1>F DEF SelectTool, GotoR, OthersKeep, Evaluate, rows, TypeOK,
    DecidersDecide, Ops, DecidedBySomeone, DecisionRows
<1>3. ASSUME NEW r \in Requests, InsertTool(r)
      PROVE  DecidedBySomeone'
  BY <1>3, <1>F DEF InsertTool, GotoR, OthersKeep, Evaluate, TypeOK, DecidersDecide,
    Ops, DecidedBySomeone, DecisionRows
<1>4. ASSUME NEW r \in Requests, InsertCall(r)
      PROVE  DecidedBySomeone'
  BY <1>4, <1>F DEF InsertCall, GotoR, OthersKeep, TypeOK, DecidersDecide, Ops,
    DecidedBySomeone, DecisionRows
<1>5. ASSUME NEW r \in Requests, InsertApproval(r)
      PROVE  DecidedBySomeone'
  BY <1>5, <1>F DEF InsertApproval, GotoR, OthersKeep, TypeOK, DecidersDecide, Ops,
    DecidedBySomeone, DecisionRows
<1>6. ASSUME NEW r \in Requests, LinkApproval(r)
      PROVE  DecidedBySomeone'
  BY <1>6, <1>F DEF LinkApproval, GotoR, OthersKeep, TypeOK, DecidersDecide, Ops,
    DecidedBySomeone, DecisionRows
<1>7. ASSUME NEW r \in Requests, RequestEvent(r)
      PROVE  DecidedBySomeone'
  BY <1>7, <1>F DEF RequestEvent, GotoR, OthersKeep, Event, rows, TypeOK,
    DecidersDecide, Ops, DecidedBySomeone, DecisionRows
<1>8. ASSUME NEW r \in Requests, AbortRequest(r)
      PROVE  DecidedBySomeone'
  BY <1>8, <1>F DEF AbortRequest, GotoR, OthersKeep, Ended, rows, TypeOK,
    DecidersDecide, Ops, DecidedBySomeone, DecisionRows
<1>9. ASSUME NEW d \in Decisions, NEW o \in Ops, NEW c \in Requests \cup {NoCall},
             Decide(d, o, c)
      PROVE  DecidedBySomeone'
  BY <1>9, <1>F DEF Decide, GotoD, rows, TypeOK, DecidersDecide, Ops, DecidedBySomeone,
    DecisionRows
<1>10. ASSUME NEW d \in Decisions, UpdateApproval(d)
      PROVE  DecidedBySomeone'
  BY <1>10, <1>F DEF UpdateApproval, GotoD, RequestsKeep, StatusOf, TypeOK,
    DecidersDecide, Ops, DecidedBySomeone, DecisionRows
<1>11. ASSUME NEW d \in Decisions, UpdateCall(d)
      PROVE  DecidedBySomeone'
  BY <1>11, <1>F DEF UpdateCall, GotoD, RequestsKeep, StatusOf, TypeOK, DecidersDecide,
    Ops, DecidedBySomeone, DecisionRows
<1>12. ASSUME NEW d \in Decisions, DecisionEvent(d)
      PROVE  DecidedBySomeone'
  BY <1>12, <1>F DEF DecisionEvent, GotoD, RequestsKeep, Event, TypeOK, DecidersDecide,
    Ops, DecidedBySomeone, DecisionRows
<1>13. ASSUME NEW d \in Decisions, AbortDecision(d)
      PROVE  DecidedBySomeone'
  BY <1>13, <1>F DEF AbortDecision, GotoD, Ended, rows, TypeOK, DecidersDecide, Ops,
    DecidedBySomeone, DecisionRows
<1>14. CASE UNCHANGED vars
  BY <1>14, <1>F DEF vars, rows, DecidedBySomeone
<1>15. QED
  BY <1>1, <1>2, <1>3, <1>4, <1>5, <1>6, <1>7, <1>8, <1>9, <1>10, <1>11, <1>12, <1>13,
    <1>14 DEF Next, RequestStep, DecisionStep

\* A lone decision finds the approval row pending.
LEMMA LoneApprovalStep ==
    ASSUME CallInv, [Next]_vars
    PROVE  LoneApproval'
<1> USE CallsAssumption, GuardAssumption
<1>F. /\ TypeOK /\ DecidersDecide /\ LoneApproval /\ DecisionRows
      /\ DecidedBySomeone /\ TargetsHaveRows /\ RequestRows
  BY DEF CallInv, TypeInv
<1>1. ASSUME NEW r \in Requests, Request(r)
      PROVE  LoneApproval'
  BY <1>1, <1>F DEF Request, GotoR, OthersKeep, rows, TypeOK, DecidersDecide, Ops,
    LoneApproval, Lone, DecisionRows, DecidedBySomeone, TargetsHaveRows, RequestRows,
    StatusOf
<1>2. ASSUME NEW r \in Requests, SelectTool(r)
      PROVE  LoneApproval'
  BY <1>2, <1>F DEF SelectTool, GotoR, OthersKeep, Evaluate, rows, TypeOK,
    DecidersDecide, Ops, LoneApproval, Lone, DecisionRows, DecidedBySomeone,
    TargetsHaveRows, RequestRows, StatusOf
<1>3. ASSUME NEW r \in Requests, InsertTool(r)
      PROVE  LoneApproval'
  BY <1>3, <1>F DEF InsertTool, GotoR, OthersKeep, Evaluate, TypeOK, DecidersDecide,
    Ops, LoneApproval, Lone, DecisionRows, DecidedBySomeone, TargetsHaveRows, RequestRows,
    StatusOf
<1>4. ASSUME NEW r \in Requests, InsertCall(r)
      PROVE  LoneApproval'
  BY <1>4, <1>F DEF InsertCall, GotoR, OthersKeep, TypeOK, DecidersDecide, Ops,
    LoneApproval, Lone, DecisionRows, DecidedBySomeone, TargetsHaveRows, RequestRows,
    StatusOf
<1>5. ASSUME NEW r \in Requests, InsertApproval(r)
      PROVE  LoneApproval'
  BY <1>5, <1>F DEF InsertApproval, GotoR, OthersKeep, TypeOK, DecidersDecide, Ops,
    LoneApproval, Lone, DecisionRows, DecidedBySomeone, TargetsHaveRows, RequestRows,
    StatusOf
<1>6. ASSUME NEW r \in Requests, LinkApproval(r)
      PROVE  LoneApproval'
  BY <1>6, <1>F DEF LinkApproval, GotoR, OthersKeep, TypeOK, DecidersDecide, Ops,
    LoneApproval, Lone, DecisionRows, DecidedBySomeone, TargetsHaveRows, RequestRows,
    StatusOf
<1>7. ASSUME NEW r \in Requests, RequestEvent(r)
      PROVE  LoneApproval'
  BY <1>7, <1>F DEF RequestEvent, GotoR, OthersKeep, Event, rows, TypeOK,
    DecidersDecide, Ops, LoneApproval, Lone, DecisionRows, DecidedBySomeone,
    TargetsHaveRows, RequestRows, StatusOf
<1>8. ASSUME NEW r \in Requests, AbortRequest(r)
      PROVE  LoneApproval'
  BY <1>8, <1>F DEF AbortRequest, GotoR, OthersKeep, Ended, rows, TypeOK,
    DecidersDecide, Ops, LoneApproval, Lone, DecisionRows, DecidedBySomeone,
    TargetsHaveRows, RequestRows, StatusOf
<1>9. ASSUME NEW d \in Decisions, NEW o \in Ops, NEW c \in Requests \cup {NoCall},
             Decide(d, o, c)
      PROVE  LoneApproval'
  BY <1>9, <1>F DEF Decide, GotoD, rows, TypeOK, DecidersDecide, Ops, LoneApproval,
    Lone, DecisionRows, DecidedBySomeone, TargetsHaveRows, RequestRows, StatusOf
<1>10. ASSUME NEW d \in Decisions, UpdateApproval(d)
      PROVE  LoneApproval'
  BY <1>10, <1>F DEF UpdateApproval, GotoD, RequestsKeep, StatusOf, TypeOK,
    DecidersDecide, Ops, LoneApproval, Lone, DecisionRows, DecidedBySomeone,
    TargetsHaveRows, RequestRows
<1>11. ASSUME NEW d \in Decisions, UpdateCall(d)
      PROVE  LoneApproval'
  BY <1>11, <1>F DEF UpdateCall, GotoD, RequestsKeep, StatusOf, TypeOK, DecidersDecide,
    Ops, LoneApproval, Lone, DecisionRows, DecidedBySomeone, TargetsHaveRows, RequestRows
<1>12. ASSUME NEW d \in Decisions, DecisionEvent(d)
      PROVE  LoneApproval'
  BY <1>12, <1>F DEF DecisionEvent, GotoD, RequestsKeep, Event, TypeOK, DecidersDecide,
    Ops, LoneApproval, Lone, DecisionRows, DecidedBySomeone, TargetsHaveRows, RequestRows,
    StatusOf
<1>13. ASSUME NEW d \in Decisions, AbortDecision(d)
      PROVE  LoneApproval'
  BY <1>13, <1>F DEF AbortDecision, GotoD, Ended, rows, TypeOK, DecidersDecide, Ops,
    LoneApproval, Lone, DecisionRows, DecidedBySomeone, TargetsHaveRows, RequestRows,
    StatusOf
<1>14. CASE UNCHANGED vars
  BY <1>14, <1>F DEF vars, rows, LoneApproval, Lone, StatusOf
<1>15. QED
  BY <1>1, <1>2, <1>3, <1>4, <1>5, <1>6, <1>7, <1>8, <1>9, <1>10, <1>11, <1>12, <1>13,
    <1>14 DEF Next, RequestStep, DecisionStep

\* Every status was written by the command it names.
LEMMA StatusHasACauseStep ==
    ASSUME CallInv, [Next]_vars
    PROVE  StatusHasACause'
<1> USE CallsAssumption, GuardAssumption
<1>F. /\ TypeOK /\ DecidersDecide /\ StatusHasACause
      /\ DecisionRows /\ RequestRows /\ TargetsHaveRows
  BY DEF CallInv, TypeInv
<1>1. ASSUME NEW r \in Requests, Request(r)
      PROVE  StatusHasACause'
  BY <1>1, <1>F DEF Request, GotoR, OthersKeep, rows, TypeOK, DecidersDecide, Ops,
    StatusHasACause, Did, Verdicts, DecisionRows, RequestRows, TargetsHaveRows
<1>2. ASSUME NEW r \in Requests, SelectTool(r)
      PROVE  StatusHasACause'
  BY <1>2, <1>F DEF SelectTool, GotoR, OthersKeep, Evaluate, rows, TypeOK,
    DecidersDecide, Ops, StatusHasACause, Did, Verdicts, DecisionRows, RequestRows,
    TargetsHaveRows
<1>3. ASSUME NEW r \in Requests, InsertTool(r)
      PROVE  StatusHasACause'
  BY <1>3, <1>F DEF InsertTool, GotoR, OthersKeep, Evaluate, TypeOK, DecidersDecide,
    Ops, StatusHasACause, Did, Verdicts, DecisionRows, RequestRows, TargetsHaveRows
<1>4. ASSUME NEW r \in Requests, InsertCall(r)
      PROVE  StatusHasACause'
  BY <1>4, <1>F DEF InsertCall, GotoR, OthersKeep, TypeOK, DecidersDecide, Ops,
    StatusHasACause, Did, Verdicts, DecisionRows, RequestRows, TargetsHaveRows
<1>5. ASSUME NEW r \in Requests, InsertApproval(r)
      PROVE  StatusHasACause'
  BY <1>5, <1>F DEF InsertApproval, GotoR, OthersKeep, TypeOK, DecidersDecide, Ops,
    StatusHasACause, Did, Verdicts, DecisionRows, RequestRows, TargetsHaveRows
<1>6. ASSUME NEW r \in Requests, LinkApproval(r)
      PROVE  StatusHasACause'
  BY <1>6, <1>F DEF LinkApproval, GotoR, OthersKeep, TypeOK, DecidersDecide, Ops,
    StatusHasACause, Did, Verdicts, DecisionRows, RequestRows, TargetsHaveRows
<1>7. ASSUME NEW r \in Requests, RequestEvent(r)
      PROVE  StatusHasACause'
  BY <1>7, <1>F DEF RequestEvent, GotoR, OthersKeep, Event, rows, TypeOK,
    DecidersDecide, Ops, StatusHasACause, Did, Verdicts, DecisionRows, RequestRows,
    TargetsHaveRows
<1>8. ASSUME NEW r \in Requests, AbortRequest(r)
      PROVE  StatusHasACause'
  BY <1>8, <1>F DEF AbortRequest, GotoR, OthersKeep, Ended, rows, TypeOK,
    DecidersDecide, Ops, StatusHasACause, Did, Verdicts, DecisionRows, RequestRows,
    TargetsHaveRows
<1>9. ASSUME NEW d \in Decisions, NEW o \in Ops, NEW c \in Requests \cup {NoCall},
             Decide(d, o, c)
      PROVE  StatusHasACause'
  BY <1>9, <1>F DEF Decide, GotoD, rows, TypeOK, DecidersDecide, Ops, StatusHasACause,
    Did, Verdicts, DecisionRows, RequestRows, TargetsHaveRows
<1>10. ASSUME NEW d \in Decisions, UpdateApproval(d)
      PROVE  StatusHasACause'
  BY <1>10, <1>F DEF UpdateApproval, GotoD, RequestsKeep, StatusOf, TypeOK,
    DecidersDecide, Ops, StatusHasACause, Did, Verdicts, DecisionRows, RequestRows,
    TargetsHaveRows
<1>11. ASSUME NEW d \in Decisions, UpdateCall(d)
      PROVE  StatusHasACause'
  BY <1>11, <1>F DEF UpdateCall, GotoD, RequestsKeep, StatusOf, TypeOK, DecidersDecide,
    Ops, StatusHasACause, Did, Verdicts, DecisionRows, RequestRows, TargetsHaveRows
<1>12. ASSUME NEW d \in Decisions, DecisionEvent(d)
      PROVE  StatusHasACause'
  BY <1>12, <1>F DEF DecisionEvent, GotoD, RequestsKeep, Event, TypeOK, DecidersDecide,
    Ops, StatusHasACause, Did, Verdicts, DecisionRows, RequestRows, TargetsHaveRows
<1>13. ASSUME NEW d \in Decisions, AbortDecision(d)
      PROVE  StatusHasACause'
  BY <1>13, <1>F DEF AbortDecision, GotoD, Ended, rows, TypeOK, DecidersDecide, Ops,
    StatusHasACause, Did, Verdicts, DecisionRows, RequestRows, TargetsHaveRows
<1>14. CASE UNCHANGED vars
  BY <1>14, <1>F DEF vars, rows, StatusHasACause, Did
<1>15. QED
  BY <1>1, <1>2, <1>3, <1>4, <1>5, <1>6, <1>7, <1>8, <1>9, <1>10, <1>11, <1>12, <1>13,
    <1>14 DEF Next, RequestStep, DecisionStep

\* Nothing undoes a lone decision.
LEMMA LoneDecisionSticksStep ==
    ASSUME CallInv, [Next]_vars
    PROVE  LoneDecisionSticks'
<1> USE CallsAssumption, GuardAssumption
<1>F. /\ TypeOK /\ DecidersDecide /\ LoneDecisionSticks /\ LoneApproval
      /\ DecisionRows /\ TargetsHaveRows /\ RequestRows
  BY DEF CallInv, TypeInv
<1>1. ASSUME NEW r \in Requests, Request(r)
      PROVE  LoneDecisionSticks'
  BY <1>1, <1>F DEF Request, GotoR, OthersKeep, rows, TypeOK, DecidersDecide, Ops,
    LoneDecisionSticks, LoneApproval, Lone, DecisionRows, TargetsHaveRows, RequestRows,
    StatusOf
<1>2. ASSUME NEW r \in Requests, SelectTool(r)
      PROVE  LoneDecisionSticks'
  BY <1>2, <1>F DEF SelectTool, GotoR, OthersKeep, Evaluate, rows, TypeOK,
    DecidersDecide, Ops, LoneDecisionSticks, LoneApproval, Lone, DecisionRows,
    TargetsHaveRows, RequestRows, StatusOf
<1>3. ASSUME NEW r \in Requests, InsertTool(r)
      PROVE  LoneDecisionSticks'
  BY <1>3, <1>F DEF InsertTool, GotoR, OthersKeep, Evaluate, TypeOK, DecidersDecide,
    Ops, LoneDecisionSticks, LoneApproval, Lone, DecisionRows, TargetsHaveRows,
    RequestRows, StatusOf
<1>4. ASSUME NEW r \in Requests, InsertCall(r)
      PROVE  LoneDecisionSticks'
  BY <1>4, <1>F DEF InsertCall, GotoR, OthersKeep, TypeOK, DecidersDecide, Ops,
    LoneDecisionSticks, LoneApproval, Lone, DecisionRows, TargetsHaveRows, RequestRows,
    StatusOf
<1>5. ASSUME NEW r \in Requests, InsertApproval(r)
      PROVE  LoneDecisionSticks'
  BY <1>5, <1>F DEF InsertApproval, GotoR, OthersKeep, TypeOK, DecidersDecide, Ops,
    LoneDecisionSticks, LoneApproval, Lone, DecisionRows, TargetsHaveRows, RequestRows,
    StatusOf
<1>6. ASSUME NEW r \in Requests, LinkApproval(r)
      PROVE  LoneDecisionSticks'
  BY <1>6, <1>F DEF LinkApproval, GotoR, OthersKeep, TypeOK, DecidersDecide, Ops,
    LoneDecisionSticks, LoneApproval, Lone, DecisionRows, TargetsHaveRows, RequestRows,
    StatusOf
<1>7. ASSUME NEW r \in Requests, RequestEvent(r)
      PROVE  LoneDecisionSticks'
  BY <1>7, <1>F DEF RequestEvent, GotoR, OthersKeep, Event, rows, TypeOK,
    DecidersDecide, Ops, LoneDecisionSticks, LoneApproval, Lone, DecisionRows,
    TargetsHaveRows, RequestRows, StatusOf
<1>8. ASSUME NEW r \in Requests, AbortRequest(r)
      PROVE  LoneDecisionSticks'
  BY <1>8, <1>F DEF AbortRequest, GotoR, OthersKeep, Ended, rows, TypeOK,
    DecidersDecide, Ops, LoneDecisionSticks, LoneApproval, Lone, DecisionRows,
    TargetsHaveRows, RequestRows, StatusOf
<1>9. ASSUME NEW d \in Decisions, NEW o \in Ops, NEW c \in Requests \cup {NoCall},
             Decide(d, o, c)
      PROVE  LoneDecisionSticks'
  BY <1>9, <1>F DEF Decide, GotoD, rows, TypeOK, DecidersDecide, Ops,
    LoneDecisionSticks, LoneApproval, Lone, DecisionRows, TargetsHaveRows, RequestRows,
    StatusOf
<1>10. ASSUME NEW d \in Decisions, UpdateApproval(d)
      PROVE  LoneDecisionSticks'
  BY <1>10, <1>F DEF UpdateApproval, GotoD, RequestsKeep, StatusOf, TypeOK,
    DecidersDecide, Ops, LoneDecisionSticks, LoneApproval, Lone, DecisionRows,
    TargetsHaveRows, RequestRows
<1>11. ASSUME NEW d \in Decisions, UpdateCall(d)
      PROVE  LoneDecisionSticks'
  BY <1>11, <1>F DEF UpdateCall, GotoD, RequestsKeep, StatusOf, TypeOK, DecidersDecide,
    Ops, LoneDecisionSticks, LoneApproval, Lone, DecisionRows, TargetsHaveRows,
    RequestRows
<1>12. ASSUME NEW d \in Decisions, DecisionEvent(d)
      PROVE  LoneDecisionSticks'
  BY <1>12, <1>F DEF DecisionEvent, GotoD, RequestsKeep, Event, TypeOK, DecidersDecide,
    Ops, LoneDecisionSticks, LoneApproval, Lone, DecisionRows, TargetsHaveRows,
    RequestRows, StatusOf
<1>13. ASSUME NEW d \in Decisions, AbortDecision(d)
      PROVE  LoneDecisionSticks'
  BY <1>13, <1>F DEF AbortDecision, GotoD, Ended, rows, TypeOK, DecidersDecide, Ops,
    LoneDecisionSticks, LoneApproval, Lone, DecisionRows, TargetsHaveRows, RequestRows,
    StatusOf
<1>14. CASE UNCHANGED vars
  BY <1>14, <1>F DEF vars, rows, LoneDecisionSticks, Lone, StatusOf
<1>15. QED
  BY <1>1, <1>2, <1>3, <1>4, <1>5, <1>6, <1>7, <1>8, <1>9, <1>10, <1>11, <1>12, <1>13,
    <1>14 DEF Next, RequestStep, DecisionStep

\* How the log grows: by one event, or not at all.
LEMMA LogGrows ==
    ASSUME TypeOK, NEW e \in EventRec, agent_event' = Append(agent_event, e)
    PROVE  /\ Len(agent_event) \in Nat
           /\ Len(agent_event') = Len(agent_event) + 1
           /\ agent_event'[Len(agent_event) + 1] = e
           /\ \A i \in 1..Len(agent_event) : agent_event'[i] = agent_event[i]
<1>1. agent_event \in Seq(EventRec)
  BY DEF TypeOK, EventRec
<1>2. QED
  BY <1>1, AppendTypes

\* Only its last statement announces a request.
LEMMA AnnouncedIsDoneStep ==
    ASSUME CallInv, [Next]_vars
    PROVE  AnnouncedIsDone'
<1> USE CallsAssumption
<1>F. TypeOK /\ AnnouncedIsDone
  BY DEF CallInv, TypeInv
<1>1. ASSUME NEW r \in Requests, Request(r)
      PROVE  AnnouncedIsDone'
  BY <1>1, <1>F DEF Request, GotoR, OthersKeep, rows, TypeOK, Ended, AnnouncedIsDone
<1>2. ASSUME NEW r \in Requests, SelectTool(r)
      PROVE  AnnouncedIsDone'
  BY <1>2, <1>F DEF SelectTool, GotoR, OthersKeep, Evaluate, rows, TypeOK, Ended,
    AnnouncedIsDone
<1>3. ASSUME NEW r \in Requests, InsertTool(r)
      PROVE  AnnouncedIsDone'
  BY <1>3, <1>F DEF InsertTool, GotoR, OthersKeep, Evaluate, TypeOK, Ended,
    AnnouncedIsDone
<1>4. ASSUME NEW r \in Requests, InsertCall(r)
      PROVE  AnnouncedIsDone'
  BY <1>4, <1>F DEF InsertCall, GotoR, OthersKeep, TypeOK, Ended, AnnouncedIsDone
<1>5. ASSUME NEW r \in Requests, InsertApproval(r)
      PROVE  AnnouncedIsDone'
  BY <1>5, <1>F DEF InsertApproval, GotoR, OthersKeep, TypeOK, Ended, AnnouncedIsDone
<1>6. ASSUME NEW r \in Requests, LinkApproval(r)
      PROVE  AnnouncedIsDone'
  BY <1>6, <1>F DEF LinkApproval, GotoR, OthersKeep, TypeOK, Ended, AnnouncedIsDone
<1>7. ASSUME NEW r \in Requests, RequestEvent(r)
      PROVE  AnnouncedIsDone'
  <2> DEFINE n == Len(agent_event)
             e == Event("tool_call_requested", r)
  <2>1. e \in EventRec
    BY <1>F DEF Event, EventRec, EventTypes, EventOf, TypeOK
  <2>2. /\ n \in Nat /\ Len(agent_event') = n + 1 /\ agent_event'[n + 1] = e
        /\ \A i \in 1..n : agent_event'[i] = agent_event[i]
    BY <1>7, <1>F, <2>1, LogGrows DEF RequestEvent
  <2> SUFFICES ASSUME NEW q \in Requests, NEW i \in 1..Len(agent_event'),
                      agent_event'[i] = Event("tool_call_requested", q)
               PROVE  pc'[q] = "done"
    BY DEF AnnouncedIsDone, Event
  <2>3. CASE i = n + 1
    BY <1>7, <1>F, <2>2, <2>3 DEF RequestEvent, GotoR, Event, TypeOK
  <2>4. CASE i \in 1..n
    BY <1>7, <1>F, <2>2, <2>4 DEF RequestEvent, GotoR, AnnouncedIsDone, TypeOK
  <2>5. QED
    BY <2>2, <2>3, <2>4
<1>8. ASSUME NEW r \in Requests, AbortRequest(r)
      PROVE  AnnouncedIsDone'
  BY <1>8, <1>F DEF AbortRequest, GotoR, OthersKeep, Ended, rows, TypeOK,
    AnnouncedIsDone
<1>9. ASSUME NEW d \in Decisions, NEW o \in Ops, NEW c \in Requests \cup {NoCall},
             Decide(d, o, c)
      PROVE  AnnouncedIsDone'
  BY <1>9, <1>F DEF Decide, GotoD, rows, TypeOK, Ended, AnnouncedIsDone
<1>10. ASSUME NEW d \in Decisions, UpdateApproval(d)
      PROVE  AnnouncedIsDone'
  BY <1>10, <1>F DEF UpdateApproval, GotoD, RequestsKeep, StatusOf, TypeOK, Ended,
    AnnouncedIsDone
<1>11. ASSUME NEW d \in Decisions, UpdateCall(d)
      PROVE  AnnouncedIsDone'
  BY <1>11, <1>F DEF UpdateCall, GotoD, RequestsKeep, StatusOf, TypeOK, Ended,
    AnnouncedIsDone
<1>12. ASSUME NEW d \in Decisions, DecisionEvent(d)
      PROVE  AnnouncedIsDone'
  <2> DEFINE n == Len(agent_event)
             e == Event(EventOf(op[d]), target[d])
  <2>1. e \in EventRec
    BY <1>F DEF Event, EventRec, EventTypes, EventOf, TypeOK
  <2>2. /\ n \in Nat /\ Len(agent_event') = n + 1 /\ agent_event'[n + 1] = e
        /\ \A i \in 1..n : agent_event'[i] = agent_event[i]
    BY <1>12, <1>F, <2>1, LogGrows DEF DecisionEvent
  <2> SUFFICES ASSUME NEW q \in Requests, NEW i \in 1..Len(agent_event'),
                      agent_event'[i] = Event("tool_call_requested", q)
               PROVE  pc'[q] = "done"
    BY DEF AnnouncedIsDone, Event
  <2>3. CASE i = n + 1
    BY <1>12, <1>F, <2>2, <2>3 DEF Event, EventOf, TypeOK, Ops
  <2>4. CASE i \in 1..n
    BY <1>12, <1>F, <2>2, <2>4 DEF DecisionEvent, RequestsKeep, AnnouncedIsDone, TypeOK
  <2>5. QED
    BY <2>2, <2>3, <2>4
<1>13. ASSUME NEW d \in Decisions, AbortDecision(d)
      PROVE  AnnouncedIsDone'
  BY <1>13, <1>F DEF AbortDecision, GotoD, Ended, rows, TypeOK, AnnouncedIsDone
<1>14. CASE UNCHANGED vars
  BY <1>14, <1>F DEF vars, rows, AnnouncedIsDone
<1>15. QED
  BY <1>1, <1>2, <1>3, <1>4, <1>5, <1>6, <1>7, <1>8, <1>9, <1>10, <1>11, <1>12, <1>13,
    <1>14 DEF Next, RequestStep, DecisionStep

\* Rows are written before the event that announces them, and kept.
LEMMA EventsAreBackedStep ==
    ASSUME CallInv, [Next]_vars
    PROVE  EventsAreBacked'
<1> USE CallsAssumption
<1>F. TypeOK /\ RequestRows /\ DecisionRows /\ EventsAreBacked
  BY DEF CallInv, TypeInv
<1>1. ASSUME NEW r \in Requests, Request(r)
      PROVE  EventsAreBacked'
  BY <1>1, <1>F DEF Request, GotoR, OthersKeep, rows, EventsAreBacked
<1>2. ASSUME NEW r \in Requests, SelectTool(r)
      PROVE  EventsAreBacked'
  BY <1>2, <1>F DEF SelectTool, GotoR, OthersKeep, Evaluate, rows, EventsAreBacked
<1>3. ASSUME NEW r \in Requests, InsertTool(r)
      PROVE  EventsAreBacked'
  BY <1>3, <1>F DEF InsertTool, GotoR, OthersKeep, Evaluate, EventsAreBacked
<1>4. ASSUME NEW r \in Requests, InsertCall(r)
      PROVE  EventsAreBacked'
  BY <1>4, <1>F DEF InsertCall, GotoR, OthersKeep, EventsAreBacked
<1>5. ASSUME NEW r \in Requests, InsertApproval(r)
      PROVE  EventsAreBacked'
  <2>1. UNCHANGED <<agent_event, want>>
    BY <1>5 DEF InsertApproval, RequestsKeep, OthersKeep
  <2>2. result' = result
    BY <1>5 DEF InsertApproval
  <2>3. \A q \in Requests : approval_request[q] \in {"approved", "denied"} =>
          approval_request'[q] = approval_request[q]
    BY <1>5, <1>F DEF InsertApproval, RequestRows, TypeOK
  <2>4. QED
    BY <1>F, <2>1, <2>2, <2>3 DEF EventsAreBacked
<1>6. ASSUME NEW r \in Requests, LinkApproval(r)
      PROVE  EventsAreBacked'
  BY <1>6, <1>F DEF LinkApproval, GotoR, OthersKeep, EventsAreBacked
<1>7. ASSUME NEW r \in Requests, RequestEvent(r)
      PROVE  EventsAreBacked'
  <2> DEFINE n == Len(agent_event)
             e == Event("tool_call_requested", r)
  <2>1. e \in EventRec
    BY <1>F DEF Event, EventRec, EventTypes, EventOf, TypeOK
  <2>2. /\ n \in Nat /\ Len(agent_event') = n + 1 /\ agent_event'[n + 1] = e
        /\ \A i \in 1..n : agent_event'[i] = agent_event[i]
    BY <1>7, <1>F, <2>1, LogGrows DEF RequestEvent
  <2> SUFFICES ASSUME NEW i \in 1..Len(agent_event')
               PROVE  (agent_event[i].call \in Requests =>
                         /\ (/\ agent_event[i].type \in {"tool_call_approved", "tool_call_denied"}
                             /\ Guard[want[agent_event[i].call]] = "require_approval") =>
                               approval_request[agent_event[i].call] \in {"approved", "denied"}
                         /\ agent_event[i].type = "tool_call_finished" =>
                               result[agent_event[i].call] # {})'
    BY DEF EventsAreBacked
  <2>3. CASE i = n + 1
    BY <2>2, <2>3 DEF Event
  <2>4. CASE i \in 1..n
    BY <1>7, <1>F, <2>2, <2>4 DEF RequestEvent, rows, OthersKeep, EventsAreBacked
  <2>5. QED
    BY <2>2, <2>3, <2>4
<1>8. ASSUME NEW r \in Requests, AbortRequest(r)
      PROVE  EventsAreBacked'
  BY <1>8, <1>F DEF AbortRequest, GotoR, OthersKeep, Ended, rows, EventsAreBacked
<1>9. ASSUME NEW d \in Decisions, NEW o \in Ops, NEW c \in Requests \cup {NoCall},
             Decide(d, o, c)
      PROVE  EventsAreBacked'
  BY <1>9, <1>F DEF Decide, GotoD, rows, EventsAreBacked
<1>10. ASSUME NEW d \in Decisions, UpdateApproval(d)
      PROVE  EventsAreBacked'
  <2>1. UNCHANGED <<agent_event, want>>
    BY <1>10 DEF UpdateApproval, RequestsKeep, OthersKeep
  <2>2. result' = result
    BY <1>10 DEF UpdateApproval
  <2>3. \A r \in Requests : approval_request[r] \in {"approved", "denied"} =>
          approval_request'[r] = approval_request[r]
    BY <1>10 DEF UpdateApproval
  <2>4. QED
    BY <1>F, <2>1, <2>2, <2>3 DEF EventsAreBacked
<1>11. ASSUME NEW d \in Decisions, UpdateCall(d)
      PROVE  EventsAreBacked'
  <2>1. UNCHANGED <<agent_event, want>>
    BY <1>11 DEF UpdateCall, RequestsKeep, OthersKeep
  <2>2. approval_request' = approval_request
    BY <1>11 DEF UpdateCall
  <2>3. \A r \in Requests : result[r] # {} => result'[r] # {}
    BY <1>11 DEF UpdateCall
  <2>4. QED
    BY <1>F, <2>1, <2>2, <2>3 DEF EventsAreBacked
<1>12. ASSUME NEW d \in Decisions, DecisionEvent(d)
      PROVE  EventsAreBacked'
  <2> DEFINE n == Len(agent_event)
             e == Event(EventOf(op[d]), target[d])
  <2>1. e \in EventRec
    BY <1>F DEF Event, EventRec, EventTypes, EventOf, TypeOK
  <2>2. /\ n \in Nat /\ Len(agent_event') = n + 1 /\ agent_event'[n + 1] = e
        /\ \A i \in 1..n : agent_event'[i] = agent_event[i]
    BY <1>12, <1>F, <2>1, LogGrows DEF DecisionEvent
  <2> SUFFICES ASSUME NEW i \in 1..Len(agent_event')
               PROVE  (agent_event[i].call \in Requests =>
                         /\ (/\ agent_event[i].type \in {"tool_call_approved", "tool_call_denied"}
                             /\ Guard[want[agent_event[i].call]] = "require_approval") =>
                               approval_request[agent_event[i].call] \in {"approved", "denied"}
                         /\ agent_event[i].type = "tool_call_finished" =>
                               result[agent_event[i].call] # {})'
    BY DEF EventsAreBacked
  <2>3. CASE i = n + 1
    BY <1>12, <1>F, <2>2, <2>3
       DEF DecisionEvent, RequestsKeep, Event, EventOf, DecisionRows, TypeOK, Ops
  <2>4. CASE i \in 1..n
    BY <1>12, <1>F, <2>2, <2>4 DEF DecisionEvent, RequestsKeep, EventsAreBacked
  <2>5. QED
    BY <2>2, <2>3, <2>4
<1>13. ASSUME NEW d \in Decisions, AbortDecision(d)
      PROVE  EventsAreBacked'
  BY <1>13, <1>F DEF AbortDecision, GotoD, Ended, rows, EventsAreBacked
<1>14. CASE UNCHANGED vars
  BY <1>14, <1>F DEF vars, rows, EventsAreBacked
<1>15. QED
  BY <1>1, <1>2, <1>3, <1>4, <1>5, <1>6, <1>7, <1>8, <1>9, <1>10, <1>11, <1>12, <1>13,
    <1>14 DEF Next, RequestStep, DecisionStep

\* The empty tables satisfy the invariant.
LEMMA CallInit == Init => CallInv
<1> SUFFICES ASSUME Init PROVE CallInv
  OBVIOUS
<1>1. TypeInv
  BY TypeInit
<1>2. RequestRows /\ DecidedBySomeone /\ LoneApproval /\ StatusHasACause
  BY DEF Init, RequestRows, DecidedBySomeone, LoneApproval, StatusHasACause
<1>3. AnnouncedIsDone /\ EventsAreBacked
  BY DEF Init, AnnouncedIsDone, EventsAreBacked
<1>4. TargetsHaveRows /\ DecisionRows /\ LoneDecisionSticks
  BY CallsAssumption DEF Init, TargetsHaveRows, DecisionRows, LoneDecisionSticks
<1>5. QED
  BY <1>1, <1>2, <1>3, <1>4 DEF CallInv

\* The inductive invariant of the tool-call commands.
THEOREM CallInvariant == Spec => []CallInv
<1>1. CallInv /\ [Next]_vars => CallInv'
  <2> SUFFICES ASSUME CallInv, [Next]_vars PROVE CallInv'
    OBVIOUS
  <2>1. TypeInv'
    BY TypeStep DEF CallInv
  <2>2. QED
    BY <2>1, RequestRowsStep, AnnouncedIsDoneStep, TargetsHaveRowsStep, DecisionRowsStep,
       DecidedBySomeoneStep, LoneApprovalStep, StatusHasACauseStep,
       LoneDecisionSticksStep, EventsAreBackedStep
       DEF CallInv
<1>2. QED
  BY <1>1, CallInit, PTL DEF Spec

\* No interleaving, failure or dropped call gives a tool call a status its
\* policy verdict or a command did not ask for.
THEOREM StatusCause == Spec => []StatusHasACause
<1>1. CallInv => StatusHasACause
  BY DEF CallInv
<1>2. QED
  BY <1>1, CallInvariant, PTL

\* A decision that nobody contests is kept in both rows, even when it
\* overtakes the request it is about.
THEOREM LoneDecision == Spec => []LoneDecisionSticks
<1>1. CallInv => LoneDecisionSticks
  BY DEF CallInv
<1>2. QED
  BY <1>1, CallInvariant, PTL

\* The Chronicle announces decisions and results only after the rows.
THEOREM EventBacking == Spec => []EventsAreBacked
<1>1. CallInv => EventsAreBacked
  BY DEF CallInv
<1>2. QED
  BY <1>1, CallInvariant, PTL

\* A step leaves decided approval rows alone.
LEMMA FinalStep ==
    ASSUME CallInv, [Next]_vars
    PROVE  \A r \in Requests : approval_request[r] \in {"approved", "denied"} =>
              approval_request'[r] = approval_request[r]
<1>F. TypeOK /\ RequestRows
  BY DEF CallInv, TypeInv
<1>1. ASSUME NEW r \in Requests, InsertApproval(r)
      PROVE  \A q \in Requests : approval_request[q] \in {"approved", "denied"} =>
                approval_request'[q] = approval_request[q]
  BY <1>F, <1>1 DEF InsertApproval, RequestRows, TypeOK
<1>2. ASSUME NEW d \in Decisions, UpdateApproval(d)
      PROVE  \A q \in Requests : approval_request[q] \in {"approved", "denied"} =>
                approval_request'[q] = approval_request[q]
  BY <1>2 DEF UpdateApproval
<1>3. QED
  BY <1>1, <1>2 DEF Next, RequestStep, DecisionStep, Request, SelectTool, InsertTool,
    InsertCall, LinkApproval, RequestEvent, AbortRequest, Decide, UpdateCall,
    DecisionEvent, AbortDecision, rows, vars

\* An approval is decided once, whatever is sent again or races.
THEOREM ApprovalFinality == Spec => ApprovalIsFinal
<1>1. CallInv /\ [Next]_vars =>
        [\A r \in Requests : approval_request[r] \in {"approved", "denied"} =>
            approval_request'[r] = approval_request[r]]_vars
  BY FinalStep
<1>2. QED
  BY <1>1, CallInvariant, PTL DEF Spec, ApprovalIsFinal
=============================================================================
