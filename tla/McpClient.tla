----------------------------- MODULE McpClient -----------------------------
(***************************************************************************)
(* One mcp.call effect (crates/actant-workers/src/mcp.rs): McpHandler      *)
(* spawns the server, sends initialize and tools/call over its stdin,      *)
(* reads frames from its stdout until the wanted id, and waits for it to   *)
(* exit, all under one timeout.  The server is another program: it may     *)
(* answer late, twice, out of order, with noise, or not at all.            *)
(***************************************************************************)
EXTENDS Naturals, Sequences

CONSTANTS MaxLines   \* bound on lines the server writes

VARIABLES
    call,      \* the client: place, and what handle returns
    stdin,     \* ids of the requests written, and whether the pipe is open
    stdout,    \* lines not yet read: id (0 for a notification) and kind
    written,   \* lines the server has written
    server     \* "none", "running" or "exited"

vars == <<call, stdin, stdout, written, server>>

Initialize == 1
ToolsCall == 2
Over == {"returned", "failed", "timed out"}
NoLine == [id |-> 0, kind |-> "none"]

Init ==
    /\ call = [pc |-> "input", got |-> NoLine, answer |-> NoLine]
    /\ stdin = [sent |-> {}, open |-> FALSE]
    /\ stdout = <<>> /\ written = 0
    /\ server = "none"

Goto(pc) == call' = [call EXCEPT !.pc = pc]

-----------------------------------------------------------------------------
\* A missing program or tool, or a program that does not start.
Refused ==
    /\ call.pc = "input"
    /\ Goto("failed")
    /\ UNCHANGED <<stdin, stdout, written, server>>

Spawn ==
    /\ call.pc = "input"
    /\ server' = "running" /\ stdin' = [stdin EXCEPT !.open = TRUE]
    /\ Goto("send 1")
    /\ UNCHANGED <<stdout, written>>

Send(id) ==
    /\ call.pc = <<"send 1", "send 2">>[id]
    /\ IF server = "running"
       THEN stdin' = [stdin EXCEPT !.sent = @ \cup {id}] /\ Goto(<<"read 1", "read 2">>[id])
       ELSE UNCHANGED stdin /\ Goto("failed")
    /\ UNCHANGED <<stdout, written, server>>

\* Fault: the next frame is the answer.
TakesNext(line, id) == TRUE

Wanted(line, id) == line.id = id

\* Empty lines and other ids are skipped; a line that is no frame is an error.
ReadResponse(id) ==
    /\ call.pc = <<"read 1", "read 2">>[id]
    /\ IF stdout = <<>>
       THEN server = "exited" /\ Goto("failed") /\ UNCHANGED stdout
       ELSE LET line == Head(stdout) IN
            /\ stdout' = Tail(stdout)
            /\ \/ line.kind = "garbled" /\ Goto("failed")
               \/ line.kind # "garbled" /\ ~Wanted(line, id) /\ UNCHANGED call
               \/ line.kind = "error" /\ Wanted(line, id) /\ Goto("failed")
               \/ line.kind = "result" /\ Wanted(line, id)
                  /\ call' = [call EXCEPT !.pc = <<"send 2", "close">>[id], !.got = line]
    /\ UNCHANGED <<stdin, written, server>>

CloseStdin ==
    /\ call.pc = "close"
    /\ stdin' = [stdin EXCEPT !.open = FALSE]
    /\ Goto("wait")
    /\ UNCHANGED <<stdout, written, server>>

Wait ==
    /\ call.pc = "wait" /\ server = "exited"
    /\ call' = [call EXCEPT !.pc = "returned", !.answer = call.got]
    /\ UNCHANGED <<stdin, stdout, written, server>>

\* Fault: the timeout is around each read.
TimesReads ==
    /\ call.pc \in {"read 1", "read 2"}
    /\ Goto("timed out")
    /\ stdin' = [stdin EXCEPT !.open = FALSE]
    /\ UNCHANGED <<stdout, written, server>>

\* The dropped future closes the pipes; the server is not killed.
Timeout ==
    /\ call.pc \notin {"input"} \cup Over
    /\ Goto("timed out")
    /\ stdin' = [stdin EXCEPT !.open = FALSE]
    /\ UNCHANGED <<stdout, written, server>>

-----------------------------------------------------------------------------
\* The server answers what it was sent, in its own time, among other lines.
Writes(line) ==
    /\ server = "running" /\ written < MaxLines
    /\ line.id # 0 => line.id \in stdin.sent
    /\ stdout' = Append(stdout, line) /\ written' = written + 1
    /\ UNCHANGED <<call, stdin, server>>

Exits ==
    /\ server = "running"
    /\ server' = "exited"
    /\ UNCHANGED <<call, stdin, stdout, written>>

Lines == [id : {0, Initialize, ToolsCall}, kind : {"result", "error", "garbled"}]

CallStep ==
    \/ Spawn \/ CloseStdin \/ Wait \/ Timeout
    \/ \E id \in {Initialize, ToolsCall} : Send(id) \/ ReadResponse(id)

Next == CallStep \/ Refused \/ Exits \/ \E line \in Lines : Writes(line)

Spec == Init /\ [][Next]_vars /\ WF_vars(CallStep)

-----------------------------------------------------------------------------
TypeOK ==
    /\ call.pc \in {"input", "send 1", "read 1", "send 2", "read 2", "close", "wait"} \cup Over
    /\ stdin.sent \subseteq {Initialize, ToolsCall}
    /\ written \in 0..MaxLines /\ server \in {"none", "running", "exited"}

(* handle returns the server's result for tools/call and nothing else: not
   the second answer to initialize, a notification or an error, whatever
   stands before it in the pipe; and by then the server has exited.        *)
ResultIsOfTheCall ==
    call.pc = "returned" =>
        /\ call.answer.id = ToolsCall /\ call.answer.kind = "result"
        /\ stdin.sent = {Initialize, ToolsCall} /\ server = "exited"

(* The handler comes back, even from a server that answers but does not
   exit: the timeout is over the wait as well, and then the result is lost. *)
CallReturns == <>(call.pc \in Over)
=============================================================================
