----------------------------- MODULE SyncRunner -----------------------------
(***************************************************************************)
(* Export of the chronicle to a bucket: SyncRunner (crates/actant-sync/src/*)
(* runner.rs), events_after (storage_query.rs) and the five destinations.  *)
(* An event is its place in the order (created_at, id); rows may appear out*)
(* of that order.  Several runners may export the same workspace.          *)
(***************************************************************************)
EXTENDS Naturals, FiniteSets, FiniteSetsExt

CONSTANTS
    Exports,      \* agent_event rows of the workspace: a set of positive numbers
    Runners,      \* processes in run_tail
    Backends,     \* destinations explored
    BatchSize,    \* SyncRunnerConfig::batch_size
    MaxFaults     \* bound on failed calls, restarts and purged rows

VARIABLES
    backend,      \* the destination of this behaviour
    ledger,       \* rows of agent_event
    bucket,       \* events written to the destination
    cursorObject, \* content of _cursor.txt, 0 when there is none
    runner,       \* per runner: statement, cursor read, batch, cursor in memory
    late,         \* history: rows that appeared below a row already selected
    faults

vars == <<backend, ledger, bucket, cursorObject, runner, late, faults>>

NoCursor == 0
Idle(memory) == [pc |-> "cursor", cursor |-> NoCursor, batch |-> {}, memory |-> memory]

Init ==
    /\ backend \in Backends
    /\ ledger = {}
    /\ bucket = {}
    /\ cursorObject = NoCursor
    /\ runner = [r \in Runners |-> Idle(NoCursor)]
    /\ late = {}
    /\ faults = 0

-----------------------------------------------------------------------------
(* The destinations.  Filesystem, S3, GCS and Azure read _cursor.txt back; *)
(* the IPFS destination writes it too but reads only its own memory.       *)

Filesystem == [name |-> "filesystem", durable |-> TRUE]
S3 == [name |-> "s3", durable |-> TRUE]
Gcs == [name |-> "gcs", durable |-> TRUE]
Azure == [name |-> "azure", durable |-> TRUE]
Ipfs == [name |-> "ipfs", durable |-> FALSE]
Destinations == {Filesystem, S3, Gcs, Azure, Ipfs}

Cursor(r) == IF backend.durable THEN cursorObject ELSE runner[r].memory

-----------------------------------------------------------------------------
(* The source.  A row is late when a greater one was selected before it.   *)

\* What somebody selected, or may still take for a cursor.
Reached ==
    {cursorObject} \cup UNION {runner[r].batch \cup {runner[r].cursor, Cursor(r)} : r \in Runners}

Append(e) ==
    /\ e \notin ledger \cup late \cup bucket
    /\ ledger' = ledger \cup {e}
    /\ late' = IF \E x \in Reached : e < x THEN late \cup {e} ELSE late
    /\ UNCHANGED <<backend, bucket, cursorObject, runner, faults>>

\* Retention deletes a row, possibly the one the cursor names.
Purge(e) ==
    /\ e \in ledger /\ faults < MaxFaults
    /\ ledger' = ledger \ {e}
    /\ faults' = faults + 1
    /\ UNCHANGED <<backend, bucket, cursorObject, runner, late>>

-----------------------------------------------------------------------------
(* A round of run_tail.                                                    *)

ReadCursor(r) ==
    /\ runner[r].pc = "cursor"
    /\ runner' = [runner EXCEPT ![r] =
          [pc |-> "select", cursor |-> Cursor(r), batch |-> {}, memory |-> runner[r].memory]]
    /\ UNCHANGED <<backend, ledger, bucket, cursorObject, late, faults>>

\* Fault: without the cursor's row the comparison with it finds nothing.
EventsAbove(cursor) ==
    LET rows == {e \in ledger : cursor \in ledger \cup {NoCursor} /\ e > cursor}
    IN  {e \in rows : Cardinality({x \in rows : x <= e}) <= BatchSize}

\* events_after: rows above the cursor's row; all rows when that row is gone.
EventsAfter(cursor) ==
    LET rows == IF cursor \in ledger THEN {e \in ledger : e > cursor} ELSE ledger
    IN  {e \in rows : Cardinality({x \in rows : x <= e}) <= BatchSize}

\* An empty batch ends the round; run_tail sleeps and begins another.
SelectBatch(r) ==
    /\ runner[r].pc = "select"
    /\ LET batch == EventsAfter(runner[r].cursor) IN
       runner' = [runner EXCEPT ![r] =
          [pc |-> IF batch = {} THEN "cursor" ELSE "push",
           cursor |-> runner[r].cursor, batch |-> batch, memory |-> runner[r].memory]]
    /\ UNCHANGED <<backend, ledger, bucket, cursorObject, late, faults>>

Unwritten(r) == runner[r].batch \ bucket

\* push: the events in order, overwriting what an earlier attempt left.
PutEvent(r) ==
    /\ runner[r].pc = "push" /\ Unwritten(r) # {}
    /\ bucket' = bucket \cup {Min(Unwritten(r))}
    /\ UNCHANGED <<backend, ledger, cursorObject, runner, late, faults>>

\* Fault: the cursor moves with the first event of the batch.
CursorFirst(r) ==
    /\ runner[r].pc = "push" /\ runner[r].batch # {}
    /\ cursorObject' = Max(runner[r].batch)
    /\ runner' = [runner EXCEPT ![r].memory = Max(runner[r].batch),
                                ![r].pc = IF Unwritten(r) = {} THEN "cursor" ELSE "push"]
    /\ UNCHANGED <<backend, ledger, bucket, late, faults>>

\* The cursor once the whole batch is there.
PutCursor(r) ==
    /\ runner[r].pc = "push" /\ Unwritten(r) = {}
    /\ cursorObject' = Max(runner[r].batch)
    /\ runner' = [runner EXCEPT ![r] = Idle(Max(runner[r].batch))]
    /\ UNCHANGED <<backend, ledger, bucket, late, faults>>

\* A call fails: run_tail warns, sleeps and starts over.
RoundFails(r) ==
    /\ faults < MaxFaults
    /\ faults' = faults + 1
    /\ runner' = [runner EXCEPT ![r] = Idle(runner[r].memory)]
    /\ UNCHANGED <<backend, ledger, bucket, cursorObject, late>>

Restart(r) ==
    /\ faults < MaxFaults
    /\ faults' = faults + 1
    /\ runner' = [runner EXCEPT ![r] = Idle(NoCursor)]
    /\ UNCHANGED <<backend, ledger, bucket, cursorObject, late>>

-----------------------------------------------------------------------------
RunTail(r) == ReadCursor(r) \/ SelectBatch(r) \/ PutEvent(r) \/ PutCursor(r)

Next ==
    \/ \E e \in Exports : Append(e) \/ Purge(e)
    \/ \E r \in Runners : RunTail(r) \/ RoundFails(r) \/ Restart(r)

Spec == Init /\ [][Next]_vars /\ \A r \in Runners : WF_vars(RunTail(r))

-----------------------------------------------------------------------------
TypeOK ==
    /\ backend \in Destinations
    /\ ledger \cup bucket \cup late \subseteq Exports
    /\ cursorObject \in Exports \cup {NoCursor}
    /\ \A r \in Runners : runner[r].pc \in {"cursor", "select", "push"}
    /\ faults \in 0..MaxFaults

(* The cursor promises what is behind it: an event at or below _cursor.txt
   is in the bucket unless its row appeared out of order, through crashes
   mid-batch, retries, a second runner that moves the cursor back, and rows
   purged under it.                                                        *)
CursorCovers ==
    /\ cursorObject # NoCursor => cursorObject \in bucket
    /\ \A e \in ledger : e <= cursorObject => e \in bucket \cup late

(* Every event that did not appear out of order is exported in the end, or
   purged: a failed round, a restart or a purged cursor only repeats work.  *)
ExportCatchesUp ==
    \A e \in Exports : (e \in ledger /\ e \notin late) ~> (e \in bucket \/ e \notin ledger)
=============================================================================
