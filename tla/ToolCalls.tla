----------------------------- MODULE ToolCalls -----------------------------
(***************************************************************************)
(* The tool-call commands of Engine (crates/actant-command/src/lib.rs):    *)
(* request_tool_call, approve_tool_call, deny_tool_call and                *)
(* record_tool_result.  One SQL statement per step, no transaction; module *)
(* Dispatch models what surrounds a command.                               *)
(*                                                                         *)
(* A request stands for the tool_call id it creates.  Where Faults is TRUE *)
(* a statement may fail and a call may be dropped between two statements.  *)
(***************************************************************************)
EXTENDS Naturals, Sequences, FiniteSets

CONSTANTS
    Requests,   \* calls of request_tool_call
    Tools,      \* tools a request may name; one stands for name and arguments
    Guard,      \* the engine's policy: what evaluate says of each of them
    Decisions,  \* calls of approve_, deny_tool_call and record_tool_result
    NoCall,     \* a tool_call_id that names no row
    Faults      \* TRUE when statements may fail and calls be dropped

Ops == {"approve", "deny", "record"}

\* Allow and Constrain are treated alike, and so are Block and Halt.
Verdicts == {"allow", "require_approval", "block"}

ASSUME GuardAssumption == Guard \in [Tools -> Verdicts]
ASSUME CallsAssumption == NoCall \notin Requests /\ Faults \in BOOLEAN

VARIABLES
    tool,               \* tool rows, by name
    tool_call,          \* per request: status of its row, or "none"
    approval_request,   \* per request: status of its approval row, or "none"
    linked,             \* requests whose row has approval_request_id
    result,             \* per request: the Decisions whose result it holds
    agent_event,        \* appended events, in order
    pc,                 \* per request: its next statement
    want,               \* per request: tool_name
    dpc,                \* per decision: its next statement
    op,                 \* per decision: which command it is
    target,             \* per decision: tool_call_id
    applied             \* history: decisions whose tool_call UPDATE ran

rows == <<tool, tool_call, approval_request, linked, result>>
vars == <<rows, agent_event, pc, want, dpc, op, target, applied>>

GotoR(r, next) == pc' = [pc EXCEPT ![r] = next]
GotoD(d, next) == dpc' = [dpc EXCEPT ![d] = next]

\* What a statement of request_tool_call, or of a decision, leaves alone.
OthersKeep == UNCHANGED <<want, dpc, op, target, applied>>
RequestsKeep == UNCHANGED <<tool, linked, pc, want, op, target>>

Event(type, call) == [type |-> type, call |-> call]

Init ==
    /\ tool = {}
    /\ tool_call = [r \in Requests |-> "none"]
    /\ approval_request = [r \in Requests |-> "none"]
    /\ linked = {}
    /\ result = [r \in Requests |-> {}]
    /\ agent_event = <<>>
    /\ pc = [r \in Requests |-> "idle"]
    /\ want \in [Requests -> Tools]
    /\ dpc = [d \in Decisions |-> "idle"]
    /\ op = [d \in Decisions |-> "approve"]
    /\ target = [d \in Decisions |-> NoCall]
    /\ applied = {}

-----------------------------------------------------------------------------
(* request_tool_call                                                       *)

Request(r) ==
    /\ pc[r] = "idle"
    /\ GotoR(r, "select_tool")
    /\ UNCHANGED <<rows, agent_event>> /\ OthersKeep

\* evaluate follows upsert_tool: Block and Halt return before any call row.
Evaluate(r) == IF Guard[want[r]] = "block" THEN "refused" ELSE "insert_call"

SelectTool(r) ==
    /\ pc[r] = "select_tool"
    /\ GotoR(r, IF want[r] \in tool THEN Evaluate(r) ELSE "insert_tool")
    /\ UNCHANGED <<rows, agent_event>> /\ OthersKeep

\* A racing insert of the same name fails on UNIQUE (workspace_id, name).
InsertTool(r) ==
    /\ pc[r] = "insert_tool"
    /\ GotoR(r, IF want[r] \in tool THEN "failed" ELSE Evaluate(r))
    /\ tool' = tool \cup {want[r]}
    /\ UNCHANGED <<tool_call, approval_request, linked, result, agent_event>> /\ OthersKeep

\* Fault: every verdict that is not Block is stored as approved.
ApprovesAll(r) ==
    /\ pc[r] = "insert_call"
    /\ tool_call' = [tool_call EXCEPT ![r] = "approved"]
    /\ GotoR(r, IF Guard[want[r]] = "require_approval" THEN "insert_approval" ELSE "event")
    /\ UNCHANGED <<tool, approval_request, linked, result, agent_event>> /\ OthersKeep

\* Fault: the approval row is only made for calls that are not pending.
ForgetsApproval(r) ==
    /\ pc[r] = "insert_call"
    /\ tool_call' = [tool_call EXCEPT ![r] =
          IF Guard[want[r]] = "require_approval" THEN "pending_approval" ELSE "approved"]
    /\ GotoR(r, "event")
    /\ UNCHANGED <<tool, approval_request, linked, result, agent_event>> /\ OthersKeep

InsertCall(r) ==
    /\ pc[r] = "insert_call"
    /\ tool_call' = [tool_call EXCEPT ![r] =
          IF Guard[want[r]] = "require_approval" THEN "pending_approval" ELSE "approved"]
    /\ GotoR(r, IF Guard[want[r]] = "require_approval" THEN "insert_approval" ELSE "event")
    /\ UNCHANGED <<tool, approval_request, linked, result, agent_event>> /\ OthersKeep

InsertApproval(r) ==
    /\ pc[r] = "insert_approval"
    /\ approval_request' = [approval_request EXCEPT ![r] = "pending"]
    /\ GotoR(r, "link")
    /\ UNCHANGED <<tool, tool_call, linked, result, agent_event>> /\ OthersKeep

\* Fault: the UPDATE writes the status it was inserted with once more.
RewritesStatus(r) ==
    /\ pc[r] = "link"
    /\ linked' = linked \cup {r}
    /\ tool_call' = [tool_call EXCEPT ![r] = "pending_approval"]
    /\ GotoR(r, "event")
    /\ UNCHANGED <<tool, approval_request, result, agent_event>> /\ OthersKeep

\* set_tool_call_approval_request: by now the approval may have been decided.
LinkApproval(r) ==
    /\ pc[r] = "link"
    /\ linked' = linked \cup {r}
    /\ GotoR(r, "event")
    /\ UNCHANGED <<tool, tool_call, approval_request, result, agent_event>> /\ OthersKeep

RequestEvent(r) ==
    /\ pc[r] = "event"
    /\ agent_event' = Append(agent_event, Event("tool_call_requested", r))
    /\ GotoR(r, "done")
    /\ UNCHANGED rows /\ OthersKeep

-----------------------------------------------------------------------------
(* approve_tool_call, deny_tool_call, record_tool_result                   *)

\* A caller learns a tool_call_id from GET /v1/approvals, from the event or
\* from the answer that follows it.
Visible(r) ==
    \/ approval_request[r] # "none"
    \/ \E i \in 1..Len(agent_event) : agent_event[i] = Event("tool_call_requested", r)

\* session_for_tool_call reads a column nothing changes; a missing row is
\* no error.
Decide(d, o, c) ==
    /\ dpc[d] = "idle"
    /\ c \in {r \in Requests : Visible(r)} \cup {NoCall}
    /\ op' = [op EXCEPT ![d] = o]
    /\ target' = [target EXCEPT ![d] = c]
    /\ GotoD(d, IF o = "record" THEN "update_call" ELSE "update_approval")
    /\ UNCHANGED <<rows, agent_event, pc, want, applied>>

\* Fault: the name of the command is stored.
VerbAsStatus(o) == o

StatusOf(o) ==
    CASE o = "approve" -> "approved" [] o = "deny" -> "denied" [] OTHER -> "completed"

\* Fault: AND status='pending' is missing.
DecidesAgain(d) ==
    /\ dpc[d] = "update_approval"
    /\ approval_request' = [r \in Requests |->
          IF r = target[d] /\ approval_request[r] # "none"
          THEN StatusOf(op[d]) ELSE approval_request[r]]
    /\ GotoD(d, "update_call")
    /\ UNCHANGED <<tool_call, result, agent_event, applied>> /\ RequestsKeep

\* UPDATE approval_request ... WHERE tool_call_id=? AND status='pending'; the
\* number of rows it changed is not looked at.
UpdateApproval(d) ==
    /\ dpc[d] = "update_approval"
    /\ approval_request' = [r \in Requests |->
          IF r = target[d] /\ approval_request[r] = "pending"
          THEN StatusOf(op[d]) ELSE approval_request[r]]
    /\ GotoD(d, "update_call")
    /\ UNCHANGED <<tool_call, result, agent_event, applied>> /\ RequestsKeep

\* UPDATE tool_call SET status ... WHERE id=?, whatever the status was.
UpdateCall(d) ==
    /\ dpc[d] = "update_call"
    /\ tool_call' = [r \in Requests |-> IF r = target[d] THEN StatusOf(op[d]) ELSE tool_call[r]]
    /\ result' = [r \in Requests |->
          IF r = target[d] /\ op[d] = "record" THEN {d} ELSE result[r]]
    /\ applied' = applied \cup {d}
    /\ GotoD(d, "event")
    /\ UNCHANGED <<approval_request, agent_event>> /\ RequestsKeep

EventOf(o) ==
    CASE o = "approve" -> "tool_call_approved"
      [] o = "deny" -> "tool_call_denied"
      [] OTHER -> "tool_call_finished"

\* Fault: a record_tool_result announced before its UPDATE.
AnnouncesFirst(d) ==
    /\ dpc[d] \in {"update_call", "event"}
    /\ agent_event' = Append(agent_event, Event(EventOf(op[d]), target[d]))
    /\ GotoD(d, "done")
    /\ UNCHANGED <<tool_call, approval_request, result, applied>> /\ RequestsKeep

DecisionEvent(d) ==
    /\ dpc[d] = "event"
    /\ agent_event' = Append(agent_event, Event(EventOf(op[d]), target[d]))
    /\ GotoD(d, "done")
    /\ UNCHANGED <<tool_call, approval_request, result, applied>> /\ RequestsKeep

-----------------------------------------------------------------------------

Ended == {"done", "refused", "failed"}

\* A statement fails (`?`), or the server drops the call between two.
AbortRequest(r) ==
    /\ Faults
    /\ pc[r] \notin Ended \cup {"idle"}
    /\ GotoR(r, "failed")
    /\ UNCHANGED <<rows, agent_event>> /\ OthersKeep

AbortDecision(d) ==
    /\ Faults
    /\ dpc[d] \notin Ended \cup {"idle"}
    /\ GotoD(d, "failed")
    /\ UNCHANGED <<rows, agent_event, pc, want, op, target, applied>>

RequestStep(r) ==
    SelectTool(r) \/ InsertTool(r) \/ InsertCall(r) \/ InsertApproval(r)
    \/ LinkApproval(r) \/ RequestEvent(r)
DecisionStep(d) == UpdateApproval(d) \/ UpdateCall(d) \/ DecisionEvent(d)

Next ==
    \/ \E r \in Requests : Request(r) \/ RequestStep(r) \/ AbortRequest(r)
    \/ \E d \in Decisions :
          \/ \E o \in Ops, c \in Requests \cup {NoCall} : Decide(d, o, c)
          \/ DecisionStep(d)
          \/ AbortDecision(d)

Spec == Init /\ [][Next]_vars

\* The runtime polls every call under way; nothing forces one to be made.
FairSpec ==
    /\ Spec
    /\ \A r \in Requests : WF_vars(RequestStep(r))
    /\ \A d \in Decisions : WF_vars(DecisionStep(d))

-----------------------------------------------------------------------------
(* Properties                                                              *)

Pcs == {"idle", "select_tool", "insert_tool", "insert_call", "insert_approval",
        "link", "event"} \cup Ended
Dpcs == {"idle", "update_approval", "update_call", "event"} \cup Ended
Statuses == {"none", "pending_approval", "approved", "denied", "completed"}
EventTypes == {"tool_call_requested", "tool_call_approved", "tool_call_denied",
               "tool_call_finished"}

TypeOK ==
    /\ tool \subseteq Tools
    /\ tool_call \in [Requests -> Statuses]
    /\ approval_request \in [Requests -> {"none", "pending", "approved", "denied"}]
    /\ linked \subseteq Requests
    /\ result \in [Requests -> SUBSET Decisions]
    /\ agent_event \in Seq([type : EventTypes, call : Requests \cup {NoCall}])
    /\ pc \in [Requests -> Pcs]
    /\ want \in [Requests -> Tools]
    /\ dpc \in [Decisions -> Dpcs]
    /\ op \in [Decisions -> Ops]
    /\ target \in [Decisions -> Requests \cup {NoCall}]
    /\ applied \subseteq Decisions

\* Some decision of kind o updated call r.
Did(o, r) == \E d \in applied : op[d] = o /\ target[d] = r

\* A blocked call has no row; a call is approved only by a policy that allows
\* it or by an approve_tool_call, denied only by a deny_tool_call, and
\* completed only by a reported result, however the commands interleave.
StatusHasACause ==
    \A r \in Requests :
        /\ tool_call[r] # "none" => Guard[want[r]] # "block"
        /\ tool_call[r] = "pending_approval" => Guard[want[r]] = "require_approval"
        /\ tool_call[r] = "approved" => Guard[want[r]] = "allow" \/ Did("approve", r)
        /\ tool_call[r] = "denied" => Did("deny", r)
        /\ tool_call[r] = "completed" => Did("record", r)

\* An approval row once decided keeps its decision: the approver it names is
\* never overwritten by a second, racing or repeated one.
ApprovalIsFinal ==
    [][\A r \in Requests :
          approval_request[r] \in {"approved", "denied"} =>
              approval_request'[r] = approval_request[r]]_vars

\* When one decision is ever made about a call, its outcome stays in both
\* rows, even if it arrived before request_tool_call had finished.
LoneDecisionSticks ==
    \A d \in applied : \A r \in Requests :
        (target[d] = r /\ \A e \in Decisions \ {d} : target[e] # r) =>
            /\ tool_call[r] = StatusOf(op[d])
            /\ (op[d] # "record" /\ Guard[want[r]] = "require_approval") =>
                  approval_request[r] = StatusOf(op[d])

\* The Chronicle never announces what the rows do not hold yet: a decision
\* about a call that needs approval finds its approval row decided, and a
\* finished call has a result.
EventsAreBacked ==
    \A i \in 1..Len(agent_event) : LET e == agent_event[i] IN
        e.call \in Requests =>
            /\ e.type \in {"tool_call_approved", "tool_call_denied"}
                  /\ Guard[want[e.call]] = "require_approval" =>
                  approval_request[e.call] \in {"approved", "denied"}
            /\ e.type = "tool_call_finished" => result[e.call] # {}

\* A call that waits for approval gets the approval row an approver sees,
\* unless its request_tool_call itself fails on the way.
PendingIsDecidable ==
    \A r \in Requests :
        (tool_call[r] = "pending_approval") ~>
            (approval_request[r] # "none" \/ pc[r] = "failed")

\* specs/03-command-spec.md:243: approve_tool_call requires that "The associated
\* `approval_request` is `pending`": a denied request does not end approved.
DeniedIsNotApproved ==
    \A r \in Requests :
        (approval_request[r] = "denied" /\ \A d \in Decisions : dpc[d] \in Ended \cup {"idle"})
            => tool_call[r] # "approved"
=============================================================================
