----------------------------- MODULE Retention ------------------------------
(***************************************************************************)
(* What is built on recorded events while retention deletes them:          *)
(* purge_by_policy (crates/actant-audit-export), replay checkpoints and    *)
(* runs (crates/actant-replay), and the server's setup reports and scout   *)
(* records, whose artifact row names the event that holds the content.     *)
(* Foreign keys are on: an event a checkpoint names cannot be deleted.     *)
(***************************************************************************)
EXTENDS Naturals, FiniteSets

CONSTANTS
    EventTypes,   \* event number -> event_type, in order of the table
    Protected,    \* events at or above always_keep_at_least
    ReplayModes   \* modes the replay route accepts

VARIABLES
    recorded,     \* events in the table
    written,      \* events ever written
    expired,      \* events past keep_days
    purge,        \* the pass of purge_by_policy: ids still to look at
    purged,       \* history: events deleted
    artifact,     \* events named by artifact rows
    report,       \* write_report_event_and_artifact: event awaiting its artifact
    pin,          \* checkpoint: its event, and whether the row is there
    run,          \* the replay run of that checkpoint
    catalog       \* list_setup_reports: artifacts still to look up, content shown

vars == <<recorded, written, expired, purge, purged, artifact, report, pin, run, catalog>>

Events == DOMAIN EventTypes
NoEvent == 0

Init ==
    /\ recorded = {}
    /\ written = {}
    /\ expired = {}
    /\ purge = {}
    /\ purged = {}
    /\ artifact = {}
    /\ report = NoEvent
    /\ pin = [event |-> NoEvent, row |-> FALSE]
    /\ run = [status |-> "none", mode |-> "recorded", entries |-> {}]
    /\ catalog = [open |-> FALSE, todo |-> {}, shown |-> {}, empty |-> {}]

-----------------------------------------------------------------------------
(* Events appear in order and grow old.                                    *)

NextEvent == Cardinality(written) + 1

Record ==
    /\ NextEvent \in Events
    /\ recorded' = recorded \cup {NextEvent}
    /\ written' = written \cup {NextEvent}
    /\ UNCHANGED <<expired, purge, purged, artifact, report, pin, run, catalog>>

Expire(e) ==
    /\ e \in written \ expired
    /\ expired' = expired \cup {e}
    /\ UNCHANGED <<recorded, written, purge, purged, artifact, report, pin, run, catalog>>

-----------------------------------------------------------------------------
(* Reports: the event first, then the artifact that points at it.          *)

\* Fault: the artifact row comes first, and the event may never.
ArtifactFirst ==
    /\ report = NoEvent /\ NextEvent \in Events
    /\ report' = NextEvent
    /\ artifact' = artifact \cup {NextEvent}
    /\ UNCHANGED <<recorded, written, expired, purge, purged, pin, run, catalog>>

WriteReport ==
    /\ report = NoEvent /\ NextEvent \in Events
    /\ recorded' = recorded \cup {NextEvent}
    /\ written' = written \cup {NextEvent}
    /\ report' = NextEvent
    /\ UNCHANGED <<expired, purge, purged, artifact, pin, run, catalog>>

\* The INSERT, or a failure that leaves the event without an artifact.
InsertArtifact(ok) ==
    /\ report # NoEvent
    /\ artifact' = IF ok THEN artifact \cup {report} ELSE artifact
    /\ report' = NoEvent
    /\ UNCHANGED <<recorded, written, expired, purge, purged, pin, run, catalog>>

ListReports ==
    /\ ~catalog.open /\ artifact # {}
    /\ catalog' = [open |-> TRUE, todo |-> artifact, shown |-> {}, empty |-> {}]
    /\ UNCHANGED <<recorded, written, expired, purge, purged, artifact, report, pin, run>>

\* One SELECT per artifact; a missing event shows as empty content.
ShowReport(e) ==
    /\ catalog.open /\ e \in catalog.todo
    /\ catalog' = [catalog EXCEPT !.todo = @ \ {e}, !.open = catalog.todo # {e},
                      !.shown = @ \cup {e},
                      !.empty = IF e \in recorded THEN @ ELSE @ \cup {e}]
    /\ UNCHANGED <<recorded, written, expired, purge, purged, artifact, report, pin, run>>

-----------------------------------------------------------------------------
(* Retention.                                                              *)

\* Fault: the level always kept is compared the wrong way round.
KeepsIt(e) == e \notin expired

ShouldRetain(e) == e \in Protected \/ e \notin expired

SelectAll ==
    /\ purge = {} /\ recorded # {}
    /\ purge' = recorded
    /\ UNCHANGED <<recorded, written, expired, purged, artifact, report, pin, run, catalog>>

\* The pass looks at the events it selected in order of the table.
IsNext(e) == e \in purge /\ \A d \in purge : e <= d

Pinned(e) == pin.row /\ pin.event = e

\* Fault: the DELETE runs with foreign keys off.
DeleteUnchecked(e) ==
    /\ IsNext(e)
    /\ purge' = purge \ {e}
    /\ recorded' = IF ShouldRetain(e) THEN recorded ELSE recorded \ {e}
    /\ purged' = IF ShouldRetain(e) THEN purged ELSE purged \cup {e}
    /\ UNCHANGED <<written, expired, artifact, report, pin, run, catalog>>

\* Fault: the pass ends at the first event it keeps.
StopsAtKept(e) ==
    LET kept == ShouldRetain(e) \/ Pinned(e) IN
    /\ IsNext(e)
    /\ purge' = IF kept THEN {} ELSE purge \ {e}
    /\ recorded' = IF kept THEN recorded ELSE recorded \ {e}
    /\ purged' = IF kept THEN purged ELSE purged \cup {e}
    /\ UNCHANGED <<written, expired, artifact, report, pin, run, catalog>>

\* DELETE of a pinned event is a constraint error, which ends the pass.
PurgeNext(e) ==
    /\ IsNext(e)
    /\ \/ ShouldRetain(e) /\ purge' = purge \ {e} /\ UNCHANGED <<recorded, purged>>
       \/ ~ShouldRetain(e) /\ Pinned(e) /\ purge' = {} /\ UNCHANGED <<recorded, purged>>
       \/ /\ ~ShouldRetain(e) /\ ~Pinned(e)
          /\ purge' = purge \ {e}
          /\ recorded' = recorded \ {e} /\ purged' = purged \cup {e}
    /\ UNCHANGED <<written, expired, artifact, report, pin, run, catalog>>

-----------------------------------------------------------------------------
(* Replay.  One session holds all events.                                  *)

FindEvent(e) ==
    /\ pin.event = NoEvent /\ e \in recorded
    /\ pin' = [event |-> e, row |-> FALSE]
    /\ UNCHANGED <<recorded, written, expired, purge, purged, artifact, report, run, catalog>>

\* The foreign key again: the event may have gone since it was found.
InsertCheckpoint ==
    /\ pin.event # NoEvent /\ ~pin.row
    /\ pin' = IF pin.event \in recorded THEN [pin EXCEPT !.row = TRUE]
              ELSE [pin EXCEPT !.event = NoEvent]
    /\ UNCHANGED <<recorded, written, expired, purge, purged, artifact, report, run, catalog>>

\* The event types each mode marks "changed"; run() passes memory_diff no
\* excluded ids, so that memory mode marks nothing.
ChangedIn(mode) ==
    CASE mode = "model"  -> {"model_call"}
      [] mode = "policy" -> {"tool_call_requested", "tool_call_approved", "tool_call_denied"}
      [] mode \in {"recorded", "memory"} -> {}
      [] mode \in {"tool", "experimental"} -> {"tool_call_started", "tool_call_finished", "effect_observed"}

InsertRun(mode) ==
    /\ pin.row /\ run.status \in {"none", "completed"}
    /\ run' = [status |-> "running", mode |-> mode, entries |-> {}]
    /\ UNCHANGED <<recorded, written, expired, purge, purged, artifact, report, pin, catalog>>

Compared(e, mode) ==
    [event |-> e, kind |-> IF EventTypes[e] \in ChangedIn(mode) THEN "changed" ELSE "identical"]

Diff ==
    /\ run.status = "running"
    /\ run' = [run EXCEPT !.status = "diffed", !.entries = {Compared(e, run.mode) : e \in recorded}]
    /\ UNCHANGED <<recorded, written, expired, purge, purged, artifact, report, pin, catalog>>

FinishRun ==
    /\ run.status = "diffed"
    /\ run' = [run EXCEPT !.status = "completed"]
    /\ UNCHANGED <<recorded, written, expired, purge, purged, artifact, report, pin, catalog>>

-----------------------------------------------------------------------------
Next ==
    \/ Record \/ WriteReport \/ ListReports \/ SelectAll
    \/ InsertCheckpoint \/ Diff \/ FinishRun
    \/ \E ok \in BOOLEAN : InsertArtifact(ok)
    \/ \E e \in Events : Expire(e) \/ ShowReport(e) \/ FindEvent(e) \/ PurgeNext(e)
    \/ \E mode \in ReplayModes : InsertRun(mode)

\* purge_by_policy is run periodically.
PurgePass == SelectAll \/ \E e \in Events : PurgeNext(e)

Spec == Init /\ [][Next]_vars /\ WF_vars(PurgePass)

-----------------------------------------------------------------------------
TypeOK ==
    /\ recorded \cup purged = written /\ written \subseteq Events
    /\ purge \subseteq written
    /\ artifact \cup {pin.event} \subseteq written \cup {NoEvent}

(* A completed replay shows the event its checkpoint names: the key that
   pins the event holds from the checkpoint to the end of every run.       *)
ReplayShowsAnchor ==
    /\ pin.row => pin.event \in recorded
    /\ run.status \in {"diffed", "completed"} =>
          \E entry \in run.entries : entry.event = pin.event

(* A report that lists without content lost it to retention and to nothing
   else: an artifact row never names an event that was not written.        *)
EmptyReportWasPurged == artifact \cup catalog.shown \subseteq written /\ catalog.empty \subseteq purged

(* Retention deletes only what is past its days and below the level always
   kept, however old the list is that the pass works through.              *)
PurgedWasDue == purged \cap Protected = {} /\ purged \subseteq expired

(* Retention takes only what nobody may still ask for: the four above.     *)
RetentionIsExact == TypeOK /\ ReplayShowsAnchor /\ EmptyReportWasPurged /\ PurgedWasDue

(* An expired event is deleted in the end, unless a checkpoint pins it or an
   expired event before it: a constraint error ends every pass there.      *)
DueIsPurged ==
    \A e \in Events :
        (e \in recorded /\ ~ShouldRetain(e)) ~>
            (e \notin recorded \/ (pin.row /\ pin.event <= e /\ ~ShouldRetain(pin.event)))
=============================================================================
