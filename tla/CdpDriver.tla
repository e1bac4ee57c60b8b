----------------------------- MODULE CdpDriver -----------------------------
(***************************************************************************)
(* The headless-browser driver (crates/actant-workers/src/browser/cdp.rs): *)
(* launch_headless, request/reply over one socket with a receive pump,     *)
(* navigate, click, type_text, screenshot, close and Drop.  The browser    *)
(* answers in any order, late, or not at all.                              *)
(***************************************************************************)
EXTENDS Naturals, FiniteSets

CONSTANTS
    Callers,     \* tasks holding a clone of the driver; one call each
    Operations,  \* what they call: navigate, click, screenshot, close
    BootCalls,   \* requests launch_headless makes before it is ready
    MaxPolls,    \* readyState polls that fit into navigate's deadline
    MaxId        \* bound on request ids

VARIABLES
    driver,      \* "down", "spawned", "boot", "ready", "dropping", "dropped" or how launch failed
    child,       \* the browser process
    dir,         \* the temporary user-data-dir exists
    sink,        \* the send half is there
    pump,        \* the receive task
    nextId,
    pending,     \* <<id, caller>>: oneshots the pump resolves
    wire,        \* requests the browser has still to answer
    inbox,       \* replies the pump has still to read
    call,        \* per caller: operation, request of it, place, id, polls, reply
    dropped      \* history: awaited replies read while nobody was registered for them

vars == <<driver, child, dir, sink, pump, nextId, pending, wire, inbox, call, dropped>>

Boot == "boot"
Tasks == Callers \cup {Boot}
Ended == {"done", "failed"}

\* Requests of each operation: type_text makes the same as click, and close
\* tears down after its one request.
Requests == [none |-> 0, boot |-> BootCalls, navigate |-> 3, click |-> 1, screenshot |-> 2, close |-> 1]
NoReply == [id |-> 0, from |-> Boot, step |-> 0, kind |-> "none"]
Rest(op) == [op |-> op, step |-> 1, pc |-> "idle", id |-> 0, polls |-> 0, reply |-> NoReply]

Init ==
    /\ driver = "down" /\ child = "none" /\ dir = FALSE /\ sink = FALSE /\ pump = "none"
    /\ nextId = 1
    /\ pending = {} /\ wire = {} /\ inbox = {} /\ dropped = {}
    /\ call = [c \in Tasks |-> Rest("none")]

-----------------------------------------------------------------------------
(* launch_headless.  Spawn and connect errors leave the directory.         *)

\* resolve_chrome_binary found none.
NoBinary ==
    /\ driver = "down"
    /\ driver' = "no binary"
    /\ UNCHANGED <<child, dir, sink, pump, nextId, pending, wire, inbox, call, dropped>>

Spawn(ok) ==
    /\ driver = "down"
    /\ dir' = TRUE
    /\ child' = IF ok THEN "running" ELSE child
    /\ driver' = IF ok THEN "spawned" ELSE "no spawn"
    /\ UNCHANGED <<sink, pump, nextId, pending, wire, inbox, call, dropped>>

\* parse_devtools_url failed or timed out.
NoPort ==
    /\ driver = "spawned"
    /\ driver' = "no port" /\ child' = "killed" /\ dir' = FALSE
    /\ UNCHANGED <<sink, pump, nextId, pending, wire, inbox, call, dropped>>

Connect(ok) ==
    /\ driver = "spawned"
    /\ driver' = IF ok THEN "boot" ELSE "no socket"
    /\ child' = IF ok THEN child ELSE "killed"
    /\ sink' = ok /\ pump' = IF ok THEN "running" ELSE pump
    /\ call' = IF ok THEN [call EXCEPT ![Boot] = [Rest("boot") EXCEPT !.pc = "next"]] ELSE call
    /\ UNCHANGED <<dir, nextId, pending, wire, inbox, dropped>>

\* Fault: an error of a bootstrap request returns at once.
ReturnsAtOnce ==
    /\ driver = "boot" /\ call[Boot].pc = "failed"
    /\ driver' = "no target" /\ child' = "killed" /\ sink' = FALSE
    /\ UNCHANGED <<dir, pump, nextId, pending, wire, inbox, call, dropped>>

\* bootstrap_try!
BootFails ==
    /\ driver = "boot" /\ call[Boot].pc = "failed"
    /\ driver' = "no target" /\ child' = "killed" /\ dir' = FALSE /\ sink' = FALSE
    /\ pump' = "ended"
    /\ UNCHANGED <<nextId, pending, wire, inbox, call, dropped>>

Ready ==
    /\ driver = "boot" /\ call[Boot].pc = "done"
    /\ driver' = "ready"
    /\ UNCHANGED <<child, dir, sink, pump, nextId, pending, wire, inbox, call, dropped>>

-----------------------------------------------------------------------------
(* rpc and boot_rpc.                                                       *)

Begin(c, op) ==
    /\ driver = "ready" /\ call[c].op = "none"
    /\ call' = [call EXCEPT ![c] = [Rest(op) EXCEPT !.pc = "next"]]
    /\ UNCHANGED <<driver, child, dir, sink, pump, nextId, pending, wire, inbox, dropped>>

Frame(c) == [id |-> call[c].id, from |-> c, step |-> call[c].step]

\* Fault: the id is loaded, and stored back by whoever is last.
LoadsId(c) ==
    /\ call[c].pc = "next" /\ nextId <= MaxId
    /\ nextId' = IF \E d \in Tasks \ {c} : call[d].pc = "insert" THEN nextId ELSE nextId + 1
    /\ call' = [call EXCEPT ![c].pc = "insert", ![c].id = IF nextId' = nextId THEN nextId - 1 ELSE nextId]
    /\ UNCHANGED <<driver, child, dir, sink, pump, pending, wire, inbox, dropped>>

\* Fault: the frame is on its way before the oneshot is registered.
SendsFirst(c) ==
    /\ call[c].pc = "next" /\ nextId <= MaxId
    /\ nextId' = nextId + 1
    /\ call' = [call EXCEPT ![c].pc = "insert", ![c].id = nextId]
    /\ wire' = wire \cup {[Frame(c) EXCEPT !.id = nextId]}
    /\ UNCHANGED <<driver, child, dir, sink, pump, pending, inbox, dropped>>

FetchAdd(c) ==
    /\ call[c].pc = "next" /\ nextId <= MaxId
    /\ nextId' = nextId + 1
    /\ call' = [call EXCEPT ![c].pc = "insert", ![c].id = nextId]
    /\ UNCHANGED <<driver, child, dir, sink, pump, pending, wire, inbox, dropped>>

Insert(c) ==
    /\ call[c].pc = "insert"
    /\ pending' = {p \in pending : p[1] # call[c].id} \cup {<<call[c].id, c>>}
    /\ call' = [call EXCEPT ![c].pc = "send"]
    /\ UNCHANGED <<driver, child, dir, sink, pump, nextId, wire, inbox, dropped>>

\* A closed send half or a failing send leaves the entry in the map.
Send(c) ==
    /\ call[c].pc = "send"
    /\ \/ /\ sink /\ child = "running"
          /\ wire' = wire \cup {Frame(c)}
          /\ call' = [call EXCEPT ![c].pc = "wait"]
       \/ /\ ~sink \/ child # "running"
          /\ call' = [call EXCEPT ![c].pc = "answered", ![c].reply = [NoReply EXCEPT !.kind = "error"]]
          /\ UNCHANGED wire
    /\ UNCHANGED <<driver, child, dir, sink, pump, nextId, pending, inbox, dropped>>

Awaited == {call[c].id : c \in {d \in Tasks : call[d].pc \in {"insert", "send", "wait"}}}

Pump(m) ==
    /\ pump = "running" /\ m \in inbox
    /\ inbox' = inbox \ {m}
    /\ LET owners == {p[2] : p \in {q \in pending : q[1] = m.id}} IN
       /\ pending' = {p \in pending : p[1] # m.id}
       /\ call' = [c \in Tasks |-> IF c \in owners /\ call[c].pc = "wait" /\ call[c].id = m.id
                                   THEN [call[c] EXCEPT !.pc = "answered", !.reply = m] ELSE call[c]]
       /\ dropped' = {i \in Awaited : i \in dropped \/ (i = m.id /\ owners = {})}
    /\ UNCHANGED <<driver, child, dir, sink, pump, nextId, wire>>

\* Fault: only the end of the socket wakes a waiting request.
WaitsForSocket(c) ==
    /\ call[c].pc = "wait" /\ pump = "ended"
    /\ call' = [call EXCEPT ![c].pc = "answered", ![c].reply = [NoReply EXCEPT !.kind = "error"]]
    /\ UNCHANGED <<driver, child, dir, sink, pump, nextId, pending, wire, inbox, dropped>>

Timeout(c) ==
    /\ call[c].pc = "wait"
    /\ call' = [call EXCEPT ![c].pc = "answered", ![c].reply = [NoReply EXCEPT !.kind = "error"]]
    /\ UNCHANGED <<driver, child, dir, sink, pump, nextId, pending, wire, inbox, dropped>>

\* Fault: navigate asks until the page is complete.
AsksForEver(c) == call[c].reply.kind = "loading"

\* The page may never be complete; the deadline ends the polling.
PollsAgain(c) == call[c].reply.kind = "loading" /\ call[c].polls < MaxPolls

Continue(c) ==
    LET s == call[c] IN
    /\ s.pc = "answered"
    /\ call' = [call EXCEPT ![c] =
          IF s.op = "close" THEN [Rest(s.op) EXCEPT !.pc = "sink"]
          ELSE IF s.reply.kind = "error" THEN [Rest(s.op) EXCEPT !.pc = "failed"]
          ELSE IF PollsAgain(c)
               THEN [s EXCEPT !.pc = "next", !.polls = s.polls + 1, !.reply = NoReply]
          ELSE IF s.step = Requests[s.op] THEN [Rest(s.op) EXCEPT !.pc = "done"]
          ELSE [s EXCEPT !.pc = "next", !.step = s.step + 1, !.reply = NoReply]]
    /\ UNCHANGED <<driver, child, dir, sink, pump, nextId, pending, wire, inbox, dropped>>

-----------------------------------------------------------------------------
(* close, after its request whatever came of it, and Drop for Inner.       *)

TakeSink(c) ==
    /\ call[c].pc = "sink"
    /\ sink' = FALSE
    /\ call' = [call EXCEPT ![c].pc = "pump"]
    /\ UNCHANGED <<driver, child, dir, pump, nextId, pending, wire, inbox, dropped>>

\* Fault: the directory goes first.
AbortsLast(c) ==
    /\ call[c].pc = "pump"
    /\ pump' = "ended" /\ dir' = FALSE
    /\ call' = [call EXCEPT ![c].pc = "kill"]
    /\ UNCHANGED <<driver, child, sink, nextId, pending, wire, inbox, dropped>>

AbortPump(c) ==
    /\ call[c].pc = "pump"
    /\ pump' = "ended"
    /\ call' = [call EXCEPT ![c].pc = "kill"]
    /\ UNCHANGED <<driver, child, dir, sink, nextId, pending, wire, inbox, dropped>>

Kill(c) ==
    /\ call[c].pc = "kill"
    /\ child' = "killed"
    /\ call' = [call EXCEPT ![c].pc = "rmdir"]
    /\ UNCHANGED <<driver, dir, sink, pump, nextId, pending, wire, inbox, dropped>>

RemoveDir(c) ==
    /\ call[c].pc = "rmdir"
    /\ dir' = FALSE
    /\ call' = [call EXCEPT ![c].pc = "done"]
    /\ UNCHANGED <<driver, child, sink, pump, nextId, pending, wire, inbox, dropped>>

\* The last clone goes: first the directory, then kill_on_drop.
Drop ==
    /\ driver = "ready" /\ \A c \in Callers : call[c].pc \in Ended
    /\ driver' = "dropping" /\ dir' = FALSE
    /\ UNCHANGED <<child, sink, pump, nextId, pending, wire, inbox, call, dropped>>

KillOnDrop ==
    /\ driver = "dropping"
    /\ driver' = "dropped" /\ child' = "killed" /\ sink' = FALSE
    /\ UNCHANGED <<dir, pump, nextId, pending, wire, inbox, call, dropped>>

-----------------------------------------------------------------------------
(* The browser.                                                            *)

Kinds(f) == IF f.step = 2 /\ call[f.from].op = "navigate" THEN {"result", "error", "loading"} ELSE {"result", "error"}

Answer(f, kind) ==
    /\ child = "running" /\ f \in wire /\ kind \in Kinds(f)
    /\ wire' = wire \ {f}
    /\ inbox' = inbox \cup {[id |-> f.id, from |-> f.from, step |-> f.step, kind |-> kind]}
    /\ UNCHANGED <<driver, child, dir, sink, pump, nextId, pending, call, dropped>>

Crash ==
    /\ child = "running" /\ driver \in {"boot", "ready"}
    /\ child' = "dead"
    /\ UNCHANGED <<driver, dir, sink, pump, nextId, pending, wire, inbox, call, dropped>>

\* The pump's stream ends.
Disconnect ==
    /\ child \in {"dead", "killed"} /\ pump = "running"
    /\ pump' = "ended"
    /\ UNCHANGED <<driver, child, dir, sink, nextId, pending, wire, inbox, call, dropped>>

-----------------------------------------------------------------------------
TaskStep(c) ==
    \/ FetchAdd(c) \/ Insert(c) \/ Send(c) \/ Timeout(c) \/ Continue(c)
    \/ TakeSink(c) \/ AbortPump(c) \/ Kill(c) \/ RemoveDir(c)

Next ==
    \/ \E ok \in BOOLEAN : Spawn(ok) \/ Connect(ok)
    \/ NoBinary \/ NoPort \/ BootFails \/ Ready \/ Drop \/ KillOnDrop \/ Crash \/ Disconnect
    \/ \E c \in Callers, op \in Operations : Begin(c, op)
    \/ \E c \in Tasks : TaskStep(c)
    \/ \E m \in inbox : Pump(m)
    \/ \E f \in wire, kind \in {"result", "error", "loading"} : Answer(f, kind)

Spec == Init /\ [][Next]_vars /\ \A c \in Tasks : WF_vars(TaskStep(c))

-----------------------------------------------------------------------------
TypeOK ==
    /\ child \in {"none", "running", "dead", "killed"}
    /\ dir \in BOOLEAN /\ sink \in BOOLEAN /\ pump \in {"none", "running", "ended"}
    /\ nextId \in 1..(MaxId + 1)
    /\ \A c \in Tasks : call[c].polls \in 0..MaxPolls

(* A call is answered with the reply to its own request: not another task's,
   and not the late reply to a request it gave up, since no id is used twice. *)
ReplyIsOwn ==
    \A c \in Tasks : call[c].reply.id # 0 =>
        /\ call[c].reply.id = call[c].id
        /\ call[c].reply.from = c /\ call[c].reply.step = call[c].step

(* The pump throws no reply away that a task is or will be waiting for: the
   oneshot is registered before the frame is sent.                         *)
NoReplyIsLost ==
    dropped \cap Awaited = {}

(* Once launch_headless has failed or close has returned, no browser and no
   pump are left, and a directory only by a failed spawn or connect.       *)
NothingIsLeft ==
    (driver \in {"no binary", "no spawn", "no port", "no socket", "no target"}
        \/ \E c \in Callers : call[c].op = "close" /\ call[c].pc = "done") =>
        /\ child # "running" /\ pump # "running"
        /\ dir => driver \in {"no spawn", "no socket"}

(* close and the launch errors delete the profile only when the browser that
   writes to it is gone; Drop does not wait for that.                      *)
ProfileOutlivesBrowser ==
    child = "running" /\ ~dir => driver = "dropping"

(* The driver mixes up no calls and leaves nothing behind: the five above. *)
DriverIsClean ==
    /\ TypeOK /\ ReplyIsOwn /\ NoReplyIsLost
    /\ NothingIsLeft /\ ProfileOutlivesBrowser

(* Every operation comes to an end, though the browser may have died, never
   answer, or never finish loading: requests time out and polling has a
   deadline.                                                               *)
CallsEnd == \A c \in Callers : call[c].pc # "idle" ~> call[c].pc \in Ended
=============================================================================
