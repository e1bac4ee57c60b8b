------------------------------ MODULE Backup ------------------------------
(***************************************************************************)
(* Incremental backups: `actant backup --mode incremental` and `actant     *)
(* restore` (crates/actant-cli/src/main.rs) over wal_frames_since,         *)
(* apply_wal_frames and Manifest (crates/actant-storage/src/backup.rs).    *)
(* The database is its main file and its write-ahead log; other            *)
(* connections commit and checkpoint while a backup runs.                  *)
(***************************************************************************)
EXTENDS Naturals, Sequences, FiniteSets

CONSTANTS
    Writes,      \* what other connections commit, each once
    Runs,        \* backup processes; each runs any number of times
    MaxLsn       \* bound on increments

VARIABLES
    main,        \* main file: writes and actant_backup_state.last_lsn
    wal,         \* log: writes, last_lsn row (0: not in the log), fully checkpointed?
    committed,   \* history: all writes committed
    files,       \* increments on disk by lsn, the snapshot at 0
    manifest,    \* manifest.json: sequence of lsns, the snapshot's first
    run,         \* per process: place, manifest as read, and locals
    lost,        \* history: writes that left the log outside every capture
    promised,    \* history: writes committed when the last listed capture read
    overlap,     \* history: two backups have run at once
    target       \* the database restore writes

vars == <<main, wal, committed, files, manifest, run, lost, promised, overlap, target>>

Lsns == 0..MaxLsn
NoFile == [writes |-> {}, mark |-> 0, lsn |-> 0, previous |-> 0]
Idle == [pc |-> "idle", entries |-> <<>>, lsn |-> 0, writes |-> {}, mark |-> 0, due |-> {}]
Resting == [pc |-> "idle", entries |-> <<>>, stop |-> 0, writes |-> {}, lsn |-> 0, whole |-> TRUE]

Init ==
    /\ main = [writes |-> {}, mark |-> 0]
    /\ wal = [writes |-> {}, mark |-> 0, flushed |-> FALSE]
    /\ committed = {} /\ lost = {} /\ promised = {} /\ overlap = FALSE
    /\ files = [l \in Lsns |-> NoFile]
    /\ manifest = <<>>
    /\ run = [r \in Runs |-> Idle]
    /\ target = Resting

LastLsn == IF wal.mark > 0 THEN wal.mark ELSE main.mark
Merged == [writes |-> main.writes \cup wal.writes, mark |-> LastLsn]
EmptyLog == [writes |-> {}, mark |-> 0, flushed |-> FALSE]
LastEntry(entries) == IF entries = <<>> THEN 0 ELSE entries[Len(entries)]
Goto(r, pc) == run' = [run EXCEPT ![r].pc = pc]

\* Writes in the log that no capture under way has read.
Unread == wal.writes \ UNION {run[r].writes : r \in {q \in Runs : run[q].pc \in {"truncate", "number", "file", "list"}}}

-----------------------------------------------------------------------------
(* SQLite, for the other connections.  A log whose frames are all in the   *)
(* main file may be restarted by the next writer.                          *)

Commit(w) ==
    /\ w \notin committed
    /\ committed' = committed \cup {w}
    /\ \/ /\ wal' = [wal EXCEPT !.writes = @ \cup {w}, !.flushed = FALSE]
          /\ UNCHANGED lost
       \/ /\ wal.flushed
          /\ wal' = [writes |-> {w}, mark |-> 0, flushed |-> FALSE]
          /\ lost' = lost \cup Unread
    /\ UNCHANGED <<main, files, manifest, run, promised, overlap, target>>

\* The automatic checkpoint, or the last connection closing.
Checkpoint ==
    /\ wal # EmptyLog
    /\ main' = Merged /\ wal' = EmptyLog
    /\ lost' = lost \cup Unread
    /\ UNCHANGED <<committed, files, manifest, run, promised, overlap, target>>

-----------------------------------------------------------------------------
(* The backup command.                                                     *)

ReadManifest(r) ==
    /\ run[r].pc = "idle"
    /\ run' = [run EXCEPT ![r] = [Idle EXCEPT !.pc = IF manifest = <<>> THEN "flush" ELSE "check",
                                              !.entries = manifest]]
    /\ overlap' = (overlap \/ \E q \in Runs \ {r} : run[q].pc # "idle")
    /\ UNCHANGED <<main, wal, committed, files, manifest, lost, promised, target>>

Flush(r) ==
    /\ run[r].pc = "flush"
    /\ main' = Merged /\ wal' = EmptyLog
    /\ Goto(r, "lsn")
    /\ UNCHANGED <<committed, files, manifest, lost, promised, overlap, target>>

FullLsn(r) ==
    /\ run[r].pc = "lsn"
    /\ run' = [run EXCEPT ![r].pc = "snapshot", ![r].lsn = LastLsn]
    /\ UNCHANGED <<main, wal, committed, files, manifest, lost, promised, overlap, target>>

Snapshot(r) ==
    /\ run[r].pc = "snapshot"
    /\ files' = [files EXCEPT ![run[r].lsn] =
          [writes |-> main.writes, mark |-> main.mark, lsn |-> run[r].lsn, previous |-> run[r].lsn]]
    /\ run' = [run EXCEPT ![r].pc = "list", ![r].writes = main.writes, ![r].due = main.writes]
    /\ UNCHANGED <<main, wal, committed, manifest, lost, promised, overlap, target>>

\* Fault: the caller's lsn is not compared.
TrustsCaller(r) ==
    /\ run[r].pc = "check"
    /\ run' = [run EXCEPT ![r].pc = "passive", ![r].lsn = LastLsn]
    /\ UNCHANGED <<main, wal, committed, files, manifest, lost, promised, overlap, target>>

CheckLsn(r) ==
    /\ run[r].pc = "check"
    /\ run' = [run EXCEPT ![r] = IF LastEntry(run[r].entries) # LastLsn THEN Idle
                                 ELSE [@ EXCEPT !.pc = "passive", !.lsn = LastLsn]]
    /\ UNCHANGED <<main, wal, committed, files, manifest, lost, promised, overlap, target>>

\* Fault: the log is emptied before it is read.
EmptiesFirst(r) ==
    /\ run[r].pc = "passive" /\ run[r].lsn < MaxLsn
    /\ main' = Merged
    /\ wal' = EmptyLog
    /\ Goto(r, "read")
    /\ UNCHANGED <<committed, files, manifest, lost, promised, overlap, target>>

Passive(r) ==
    /\ run[r].pc = "passive" /\ run[r].lsn < MaxLsn
    /\ main' = Merged
    /\ wal' = [wal EXCEPT !.flushed = TRUE]
    /\ Goto(r, "read")
    /\ UNCHANGED <<committed, files, manifest, lost, promised, overlap, target>>

ReadWal(r) ==
    /\ run[r].pc = "read"
    /\ run' = [run EXCEPT ![r].pc = "truncate", ![r].writes = wal.writes, ![r].mark = wal.mark,
                          ![r].due = committed]
    /\ UNCHANGED <<main, wal, committed, files, manifest, lost, promised, overlap, target>>

Truncate(r) ==
    /\ run[r].pc = "truncate"
    /\ main' = Merged /\ wal' = EmptyLog
    /\ lost' = lost \cup Unread
    /\ Goto(r, "number")
    /\ UNCHANGED <<committed, files, manifest, promised, overlap, target>>

\* The row goes to the log: the next increment carries it.
NumberIncrement(r) ==
    /\ run[r].pc = "number"
    /\ wal' = [wal EXCEPT !.mark = run[r].lsn + 1, !.flushed = FALSE]
    /\ Goto(r, "file")
    /\ UNCHANGED <<main, committed, files, manifest, lost, promised, overlap, target>>

WriteIncrement(r) ==
    /\ run[r].pc = "file"
    /\ files' = [files EXCEPT ![run[r].lsn + 1] =
          [writes |-> run[r].writes, mark |-> run[r].mark, lsn |-> run[r].lsn + 1, previous |-> run[r].lsn]]
    /\ run' = [run EXCEPT ![r].pc = "list", ![r].lsn = @ + 1]
    /\ UNCHANGED <<main, wal, committed, manifest, lost, promised, overlap, target>>

\* Manifest::write renames a whole new file over the old one.
WriteManifest(r) ==
    /\ run[r].pc = "list"
    /\ manifest' = Append(run[r].entries, run[r].lsn)
    /\ promised' = run[r].due
    /\ run' = [run EXCEPT ![r] = Idle]
    /\ UNCHANGED <<main, wal, committed, files, lost, overlap, target>>

\* An error or a kill; what was read and not yet numbered is forgotten.
Abort(r) ==
    /\ run[r].pc # "idle"
    /\ run' = [run EXCEPT ![r] = Idle]
    /\ lost' = IF run[r].pc \in {"truncate", "number"} THEN lost \cup (run[r].writes \ wal.writes) ELSE lost
    /\ UNCHANGED <<main, wal, committed, files, manifest, promised, overlap, target>>

-----------------------------------------------------------------------------
(* restore [--at-lsn] overwrites the database; nothing else uses it then.  *)

RestoreFull(stop) ==
    /\ target.pc = "idle" /\ manifest # <<>> /\ \A r \in Runs : run[r].pc = "idle"
    /\ LET full == files[manifest[1]] IN
       target' = [pc |-> IF full.lsn > stop THEN "refused" ELSE "apply", entries |-> manifest,
                  stop |-> stop, writes |-> full.writes, lsn |-> full.mark, whole |-> TRUE]
    /\ UNCHANGED <<main, wal, committed, files, manifest, run, lost, promised, overlap>>

\* Fault: the increment named by --at-lsn is left out.
StopsBefore(taken) ==
    IF taken >= Len(target.entries) THEN TRUE ELSE target.entries[taken + 1] >= target.stop

Stops(taken) ==
    IF taken >= Len(target.entries) THEN TRUE ELSE target.entries[taken + 1] > target.stop

\* Whether SQLite replays a log staged under an open pool is its own affair.
\* A replayed log brings the last_lsn row the check then reads.
ApplyNext(taken, replayed) ==
    /\ target.pc = "apply"
    /\ taken = Cardinality({i \in DOMAIN target.entries : target.entries[i] <= target.lsn})
    /\ \/ Stops(taken) /\ target' = [target EXCEPT !.pc = "done"]
       \/ /\ ~Stops(taken)
          /\ LET inc == files[target.entries[taken + 1]]
                 empty == inc.writes = {} /\ inc.mark = 0
                 current == IF replayed /\ inc.mark > 0 THEN inc.mark ELSE target.lsn IN
             /\ empty => ~replayed
             /\ target' = IF inc.previous # current THEN [target EXCEPT !.pc = "rejected"]
                          ELSE [target EXCEPT !.lsn = inc.lsn, !.whole = @ /\ (replayed \/ empty),
                                   !.writes = IF replayed THEN @ \cup inc.writes ELSE @]
    /\ UNCHANGED <<main, wal, committed, files, manifest, run, lost, promised, overlap>>

-----------------------------------------------------------------------------
BackupStep(r) ==
    \/ ReadManifest(r) \/ Flush(r) \/ FullLsn(r) \/ Snapshot(r) \/ CheckLsn(r) \/ Passive(r)
    \/ ReadWal(r) \/ Truncate(r) \/ NumberIncrement(r) \/ WriteIncrement(r) \/ WriteManifest(r) \/ Abort(r)

Next ==
    \/ target.pc = "idle" /\ \E w \in Writes : Commit(w)
    \/ target.pc = "idle" /\ Checkpoint
    \/ target.pc = "idle" /\ \E r \in Runs : BackupStep(r)
    \/ \E stop \in Lsns : RestoreFull(stop)
    \/ \E taken \in 0..(MaxLsn + 1), replayed \in BOOLEAN : ApplyNext(taken, replayed)

Spec == Init /\ [][Next]_vars

-----------------------------------------------------------------------------
TypeOK ==
    /\ main.writes \cup wal.writes \cup lost \cup promised \subseteq committed
    /\ manifest \in Seq(Lsns) /\ Len(manifest) <= MaxLsn + 1
    /\ \A r \in Runs : run[r].lsn \in Lsns
    /\ target.pc \in {"idle", "apply", "done", "refused", "rejected"}

(* The increments of manifest.json follow one another without a gap, and
   each is on disk under its own lsn, whatever backups overlap or are
   killed: wal_frames_since compares the manifest's lsn with the stored one. *)
ManifestIsAChain ==
    /\ \A i \in 1..(Len(manifest) - 1) : manifest[i + 1] = manifest[i] + 1
    /\ \A i \in DOMAIN manifest : files[manifest[i]].lsn = manifest[i]

(* Backups that do not overlap miss a write only if it left the log unread:
   checkpointed by another connection, committed between the read and the
   TRUNCATE, or forgotten by a run killed before it stored its lsn.  A run
   killed later stops the chain, and nothing is listed past the gap.       *)
ChainCoversCommitted ==
    ~overlap => promised \subseteq lost \cup UNION {files[manifest[i]].writes : i \in DOMAIN manifest}

(* A restore from such backups is never turned away by apply_wal_frames,
   though the increment it has just staged carries the last_lsn row of the
   capture before it, and when every log is replayed it holds exactly what
   the entries up to --at-lsn hold.                                        *)
RestoreIsExact ==
    ~overlap =>
        /\ target.pc # "rejected"
        /\ target.pc = "done" /\ target.whole =>
              target.writes = UNION {files[target.entries[i]].writes :
                  i \in {j \in DOMAIN target.entries : target.entries[j] <= target.stop}}
=============================================================================
