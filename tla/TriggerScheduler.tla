-------------------------- MODULE TriggerScheduler --------------------------
(***************************************************************************)
(* Cron triggers (crates/actant-trigger/src/lib.rs): the in-memory registry*)
(* behind one mutex, tick and the run loop, and spawn_workflow_run for what*)
(* fires.  The wall clock the loop reads may stand still or be set back.   *)
(***************************************************************************)
EXTENDS Naturals, FiniteSets, FiniteSetsExt

CONSTANTS
    Triggers,     \* registration ids
    Schedule,     \* trigger -> times its cron expression names
    BadCron,      \* triggers whose expression does not parse
    MaxClock,     \* bound on time; 0 is the epoch
    MaxRegistrations

VARIABLES
    wall,         \* the wall clock
    reg,          \* per trigger: registered, enabled, last_fired_at
    since,        \* history: per trigger, times that fell due since registration
    covered,      \* history: per trigger, those of them a fire stands for
    lowest,       \* history: per trigger, the lowest clock since its last fire
    firing,       \* fires handed to on_fire and not yet spawned
    spawn,        \* per fire being spawned: next statement
    spawnEvent,   \* workflow_run_started events
    spawnRow,     \* workflow_run rows
    registrations

vars == <<wall, reg, since, covered, lowest, firing, spawn, spawnEvent, spawnRow, registrations>>

Never == 0
Absent == [present |-> FALSE, enabled |-> FALSE, last |-> Never]
Fires == Triggers \X (0..MaxClock)

Init ==
    /\ wall = 1
    /\ reg = [t \in Triggers |-> Absent]
    /\ since = [t \in Triggers |-> {}]
    /\ covered = [t \in Triggers |-> {}]
    /\ lowest = [t \in Triggers |-> 1]
    /\ firing = {}
    /\ spawn = [f \in Fires |-> "none"]
    /\ spawnEvent = {}
    /\ spawnRow = {}
    /\ registrations = 0

-----------------------------------------------------------------------------
\* Times come due for enabled triggers as the clock moves on; it may be set back.
SetClock(t) ==
    /\ wall' = t
    /\ since' = [x \in Triggers |->
          IF reg[x].enabled THEN since[x] \cup {s \in Schedule[x] : wall < s /\ s <= t} ELSE since[x]]
    /\ lowest' = [x \in Triggers |-> IF t < lowest[x] THEN t ELSE lowest[x]]
    /\ UNCHANGED <<reg, covered, firing, spawn, spawnEvent, spawnRow, registrations>>

\* register replaces the entry, last_fired_at included.
Register(x) ==
    /\ registrations < MaxRegistrations
    /\ reg' = [reg EXCEPT ![x] = [present |-> TRUE, enabled |-> TRUE, last |-> Never]]
    /\ since' = [since EXCEPT ![x] = {}]
    /\ covered' = [covered EXCEPT ![x] = {}]
    /\ lowest' = [lowest EXCEPT ![x] = wall]
    /\ registrations' = registrations + 1
    /\ UNCHANGED <<wall, firing, spawn, spawnEvent, spawnRow>>

Disable(x) ==
    /\ reg[x].present
    /\ reg' = [reg EXCEPT ![x].enabled = FALSE]
    /\ UNCHANGED <<wall, since, covered, lowest, firing, spawn, spawnEvent, spawnRow, registrations>>

\* Fault: a fire is skipped when the scheduled time is not the current one.
DueNow(x) == reg[x].enabled /\ x \notin BadCron /\ wall \in Schedule[x] /\ reg[x].last < wall

\* The first scheduled time after last_fired_at, if it has come.
Due(x) ==
    /\ reg[x].enabled /\ x \notin BadCron
    /\ \E s \in Schedule[x] : reg[x].last < s /\ s <= wall

\* Fault: last_fired_at is the scheduled time, not now.
StampsScheduled(x) == Min({s \in Schedule[x] : reg[x].last < s})

LastFired(x) == wall

\* tick: one fire per trigger however many times have passed.
Tick ==
    /\ \E x \in Triggers : Due(x)
    /\ reg' = [x \in Triggers |-> IF Due(x) THEN [reg[x] EXCEPT !.last = LastFired(x)] ELSE reg[x]]
    /\ covered' = [x \in Triggers |-> IF Due(x) THEN covered[x] \cup (since[x] \cap 0..wall) ELSE covered[x]]
    /\ lowest' = [x \in Triggers |-> IF Due(x) THEN wall ELSE lowest[x]]
    /\ firing' = firing \cup {<<x, wall>> : x \in {y \in Triggers : Due(y)}}
    /\ UNCHANGED <<wall, since, spawn, spawnEvent, spawnRow, registrations>>

-----------------------------------------------------------------------------
(* spawn_workflow_run: the event, then the row.                            *)

\* Fault: the row is inserted before the event.
RowFirst(f) ==
    /\ f \in firing
    /\ firing' = firing \ {f}
    /\ spawnRow' = spawnRow \cup {f}
    /\ spawn' = [spawn EXCEPT ![f] = "row"]
    /\ UNCHANGED <<wall, reg, since, covered, lowest, spawnEvent, registrations>>

AppendEvent(f) ==
    /\ f \in firing
    /\ firing' = firing \ {f}
    /\ spawnEvent' = spawnEvent \cup {f}
    /\ spawn' = [spawn EXCEPT ![f] = "row"]
    /\ UNCHANGED <<wall, reg, since, covered, lowest, spawnRow, registrations>>

InsertRun(f, ok) ==
    /\ spawn[f] = "row"
    /\ spawnRow' = IF ok THEN spawnRow \cup {f} ELSE spawnRow
    /\ spawn' = [spawn EXCEPT ![f] = IF ok THEN "done" ELSE "failed"]
    /\ UNCHANGED <<wall, reg, since, covered, lowest, firing, spawnEvent, registrations>>

-----------------------------------------------------------------------------
Next ==
    \/ \E t \in 1..MaxClock : SetClock(t)
    \/ \E x \in Triggers : Register(x) \/ Disable(x)
    \/ Tick
    \/ \E f \in firing : AppendEvent(f)
    \/ \E f \in Fires, ok \in BOOLEAN : InsertRun(f, ok)

Spec == Init /\ [][Next]_vars

-----------------------------------------------------------------------------
TypeOK ==
    /\ wall \in 1..MaxClock
    /\ \A x \in Triggers : reg[x].last \in 0..MaxClock
    /\ firing \cup spawnEvent \cup spawnRow \subseteq Fires

(* A scheduled time that has passed is never lost while its trigger stays
   enabled: it is covered by a fire or the next tick fires for it. The one
   exception is a clock set back behind it after a fire stamped past it:
   tick compares with last_fired_at, and stays silent until it is reached. *)
NoTimeIsLost ==
    \A x \in Triggers \ BadCron : reg[x].enabled =>
        \A s \in since[x] \ covered[x] : s <= wall =>
            Due(x) \/ (lowest[x] < s /\ s <= reg[x].last)

(* A fire is never repeated for the same times: after a tick the trigger is
   due again only when another scheduled time has come.                    *)
FireOncePerTime == [][Tick => \A x \in Triggers : ~Due(x)']_vars

(* Every workflow_run row has its workflow_run_started event, and an event
   without a row is one whose insert failed or is still to come.           *)
RunHasEvent ==
    /\ spawnRow \subseteq spawnEvent
    /\ \A f \in spawnEvent \ spawnRow : spawn[f] \in {"row", "failed"}
=============================================================================
