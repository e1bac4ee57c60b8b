---------------------------- MODULE Replication -----------------------------
(***************************************************************************)
(* Replicated events: Storage::ingest_events (crates/actant-storage/src/   *)
(* repo.rs), the ids of EventId::content_derived, the embedded handle's    *)
(* ingest and events_since (crates/actant-ffi), the server's sync_since    *)
(* and ConflictPolicy::resolve (crates/actant-replay/src/conflict.rs).     *)
(* Batches arrive in any order, twice, altered, or are cut short.  A stamp *)
(* is one number here: how a clock advances is module HlcClock's subject.  *)
(***************************************************************************)
EXTENDS Naturals, Sequences, FiniteSets

CONSTANTS
    Devices,      \* stores; a device writes under one actor
    ActorOf,      \* device -> actor, a number; actors may share several devices
    Source,       \* the device whose pages are read
    Rank(_),      \* place of an event's content hash among the ids
    Defects,      \* how a message may differ from the row it was made from
    PageSize,     \* limit of events_since and sync_since
    MaxStamp,     \* bound on clock values
    MaxRows,      \* bound on events written
    MaxBatches    \* bound on batches received

VARIABLES
    store,        \* per device: rows of agent_event
    clock,        \* per device: the last stamp given out or observed
    intake,       \* per device: the batch being ingested
    batches,      \* batches received so far
    winner,       \* per device: the row that last-writer-wins shows
    unobserved,   \* per device, history: rows of batches the clock never saw
    reader        \* a peer that pages through Source

vars == <<store, clock, intake, batches, winner, unobserved, reader>>

None == [actor |-> 0, stamp |-> 0, text |-> 0]
NoBatch == [todo |-> <<>>, seen |-> 0, taken |-> {}, clocked |-> FALSE, open |-> FALSE]

Written == UNION {store[d] : d \in Devices}

Init ==
    /\ store = [d \in Devices |-> {}]
    /\ clock = [d \in Devices |-> 0]
    /\ intake = [d \in Devices |-> NoBatch]
    /\ batches = 0
    /\ winner = [d \in Devices |-> None]
    /\ unobserved = [d \in Devices |-> {}]
    /\ reader = [how |-> "none", cursor |-> 0, got |-> {}, excused |-> {}]

-----------------------------------------------------------------------------
(* Conflict resolution and the two page orders.                            *)

\* Fault: a tie goes to the newcomer.
StampOnly(a, b) == a.stamp >= b.stamp

\* resolve: the stamp decides, then the actor; TRUE when a wins.
Resolve(a, b) == a.stamp > b.stamp \/ (a.stamp = b.stamp /\ a.actor > b.actor)

\* events_since orders by stamp, sync_since by id.
KeyOf(how, ev) == IF how = "hlc" THEN ev.stamp ELSE Rank(ev)

\* What the reader's cursor has passed before it came is not owed to it.
Passed(d, ev) ==
    IF d = Source /\ reader.how # "none" /\ KeyOf(reader.how, ev) <= reader.cursor
    THEN [reader EXCEPT !.excused = @ \cup {ev}] ELSE reader

\* A row arrives; a projection keeps the winner.
Arrive(d, ev) ==
    /\ store' = [store EXCEPT ![d] = @ \cup {ev}]
    /\ winner' = [winner EXCEPT ![d] = IF ev \notin store[d] /\ Resolve(ev, @) THEN ev ELSE @]
    /\ reader' = IF ev \in store[d] THEN reader ELSE Passed(d, ev)

-----------------------------------------------------------------------------
\* A local command: the row is stamped with the next tick.
Write(d) ==
    /\ clock[d] < MaxStamp /\ Cardinality(Written) < MaxRows
    /\ clock' = [clock EXCEPT ![d] = @ + 1]
    /\ Arrive(d, [actor |-> ActorOf[d], stamp |-> clock[d] + 1, text |-> d])
    /\ UNCHANGED <<intake, batches, unobserved>>

Messages(d) == [ev : UNION {store[e] : e \in Devices \ {d}}, defect : Defects]

\* Storage::ingest_events with a clock, or ActantHandle::ingest, which has none.
Receive(d, msgs, clocked) ==
    /\ ~intake[d].open /\ batches < MaxBatches
    /\ batches' = batches + 1
    /\ intake' = [intake EXCEPT ![d] =
          [todo |-> msgs, seen |-> 0, taken |-> {}, clocked |-> clocked, open |-> TRUE]]
    /\ UNCHANGED <<store, clock, winner, unobserved, reader>>

\* The event as the row is built: the handle fills in its own actor.
Content(d, m, clocked) ==
    LET ev == IF m.defect = "altered" THEN [m.ev EXCEPT !.stamp = (@ % MaxStamp) + 1] ELSE m.ev
    IN  IF clocked THEN ev ELSE [ev EXCEPT !.actor = ActorOf[d]]

\* Fault: an id that is present is taken for the content's own.
AnyId(d, m, clocked) == TRUE

\* content_derived over payload, stamp and actor is the id the message carries.
IdMatches(d, m, clocked) == Content(d, m, clocked) = m.ev

\* missing_fields, hash_mismatch, workspace_unknown, in this order.
Rejected(d, m, clocked) ==
    m.defect = "no_device" \/ ~IdMatches(d, m, clocked) \/ m.defect = "no_workspace"

\* Fault: only rows that were new count for the clock.
Counts(d, m) == m.ev \notin store[d]

\* A row already there is skipped and counts all the same.
Tracked(d, m) == TRUE

IngestRow(d) ==
    LET m == Head(intake[d].todo)
        ev == Content(d, m, intake[d].clocked)
        taken == ~Rejected(d, m, intake[d].clocked)
    IN  /\ intake[d].open /\ intake[d].todo # <<>>
        /\ intake' = [intake EXCEPT ![d].todo = Tail(@),
              ![d].seen = IF taken /\ Tracked(d, m) /\ ev.stamp > @ THEN ev.stamp ELSE @,
              ![d].taken = IF taken THEN @ \cup {ev} ELSE @]
        /\ IF taken
           THEN /\ Arrive(d, ev)
                /\ unobserved' = [unobserved EXCEPT ![d] = @ \cup ({ev} \ store[d])]
           ELSE UNCHANGED <<store, winner, reader, unobserved>>
        /\ UNCHANGED <<clock, batches>>

\* After the last row: observe the highest stamp.
Observe(d) ==
    /\ intake[d].open /\ intake[d].todo = <<>>
    /\ clock' = [clock EXCEPT ![d] =
          IF intake[d].clocked /\ intake[d].seen > @ THEN intake[d].seen ELSE @]
    /\ unobserved' = [unobserved EXCEPT ![d] =
          IF intake[d].clocked THEN @ \ intake[d].taken ELSE @]
    /\ intake' = [intake EXCEPT ![d] = NoBatch]
    /\ UNCHANGED <<store, batches, winner, reader>>

\* A statement fails or the task is dropped: the rows stay, the clock is not told.
CutShort(d) ==
    /\ intake[d].open
    /\ intake' = [intake EXCEPT ![d] = NoBatch]
    /\ UNCHANGED <<store, clock, batches, winner, unobserved, reader>>

-----------------------------------------------------------------------------
(* Pages of Source's rows.                                                 *)

Above(how, cursor) == {ev \in store[Source] : KeyOf(how, ev) > cursor}
Before(how, a, b) ==
    \/ KeyOf(how, a) < KeyOf(how, b)
    \/ KeyOf(how, a) = KeyOf(how, b) /\ Rank(a) <= Rank(b)
FirstOf(how, S) == {ev \in S : Cardinality({x \in S : Before(how, x, ev)}) <= PageSize}
IsLast(how, S, ev) == \A x \in S : Before(how, x, ev)

ReadPage(how) ==
    LET page == FirstOf(how, Above(how, reader.cursor)) IN
    /\ reader.how \in {"none", how}
    /\ \E last \in page :
          /\ IsLast(how, page, last)
          /\ reader' = [how |-> how, cursor |-> KeyOf(how, last), got |-> reader.got \cup page,
                excused |-> reader.excused
                    \cup {ev \in store[Source] \ page : KeyOf(how, ev) = KeyOf(how, last)}]

\* Fault: the page is cut before it is sorted.
UnsortedPage ==
    /\ reader.how \in {"none", "hlc"}
    /\ \E page \in SUBSET Above("hlc", reader.cursor) : \E last \in page :
          /\ Cardinality(page) = PageSize /\ IsLast("hlc", page, last)
          /\ reader' = [reader EXCEPT !.how = "hlc", !.got = @ \cup page, !.cursor = KeyOf("hlc", last)]
    /\ UNCHANGED <<store, clock, intake, batches, winner, unobserved>>

\* events_since of the embedded handle.
EventsSince == ReadPage("hlc") /\ UNCHANGED <<store, clock, intake, batches, winner, unobserved>>

\* sync_since of the server, SQLite and Postgres alike.
SyncSince == ReadPage("id") /\ UNCHANGED <<store, clock, intake, batches, winner, unobserved>>

-----------------------------------------------------------------------------
Next ==
    \/ \E d \in Devices : Write(d) \/ IngestRow(d) \/ Observe(d) \/ CutShort(d)
    \/ \E d \in Devices : \E a, b \in Messages(d), clocked \in BOOLEAN :
          Receive(d, <<a, b>>, clocked)
    \/ EventsSince \/ SyncSince

Spec == Init /\ [][Next]_vars

-----------------------------------------------------------------------------
TypeOK ==
    /\ \A ev \in Written : ev.stamp \in 1..MaxStamp /\ ev.text \in Devices
    /\ \A d \in Devices : clock[d] \in 0..MaxStamp /\ unobserved[d] \subseteq store[d]
    /\ reader.got \cup reader.excused \subseteq store[Source]

(* A row is what its author wrote: whatever was altered on the way is
   refused, and a store shows under an actor only that actor's events.     *)
RowsAreAuthentic == \A ev \in Written : ev \in store[ev.text] /\ ev.actor = ActorOf[ev.text]

(* The next local stamp is above every row the store holds, except rows of a
   batch that was cut short or ingested without a clock: a batch sent again
   after that repairs it, because skipped rows are tracked as well.        *)
ClockCoversRows ==
    \A d \in Devices : \A ev \in store[d] : ev.stamp <= clock[d] \/ ev \in unobserved[d]

(* Two stores with the same rows show the same writer and stamp, in whatever
   order, however often and in whatever batches the rows came.             *)
SameRowsSameWinner ==
    \A d, e \in Devices : store[d] = store[e] =>
        winner[d].stamp = winner[e].stamp /\ winner[d].actor = winner[e].actor

(* A peer that pages through the rows has everything up to its cursor, except
   rows that came in below it later and, for events_since, rows with the very
   stamp a page ended on: its cursor is the stamp alone.                   *)
PagesCover ==
    reader.how # "none" =>
        \A ev \in store[Source] :
            KeyOf(reader.how, ev) <= reader.cursor => ev \in reader.got \cup reader.excused
=============================================================================
