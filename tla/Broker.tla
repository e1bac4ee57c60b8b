------------------------------- MODULE Broker -------------------------------
(***************************************************************************)
(* Live delivery: the named-topic Broker (crates/actant-subscribe/src/     *)
(* broker.rs) and its socket route in crates/actant-server.                *)
(* One topic.  A publisher allocates an id, inserts the row and then sends *)
(* to the live channel; a subscriber attaches to the channel, queries the  *)
(* rows after its cursor and bridges both into one bounded queue.          *)
(***************************************************************************)
EXTENDS Naturals, Sequences, FiniteSets, SequencesExt

CONSTANTS
    Publishers,   \* tasks in Broker::publish
    Subscribers,  \* clients of GET /v1/pubsub
    Capacity,     \* of a broadcast channel
    PageLimit,    \* the LIMIT of replay_since
    MaxId,        \* bound on the ids the generator hands out
    MaxConnects   \* bound on a client's connections

VARIABLES
    lastId,       \* last id of the monotonic generator
    pubsubRow,    \* ids in pubsub_message
    fanned,       \* ids whose publish call has returned Ok
    publisher,    \* per task: next statement and id
    client,       \* per subscriber: connection and everything it received
    overtaken     \* history: ids still unsent when a greater one got its row

vars == <<lastId, pubsubRow, fanned, publisher, client, overtaken>>

Ids == 1..MaxId
Live == 0         \* subscribe(since = None), and a cursor below every id

\* A broadcast channel keeps its newest Capacity messages; the receiver
\* learns of the rest as Lagged, which both loops of the broker ignore.
Overflow(q) == IF Len(q) > Capacity THEN SubSeq(q, 1, Len(q) - Capacity) ELSE <<>>

\* Fault: a channel without a bound.
KeepsAll(q) == q

Kept(q) == IF Len(q) > Capacity THEN SubSeq(q, Len(q) - Capacity + 1, Len(q)) ELSE q

\* A client: its connection (pc, since, the two channels, and the history
\* fanned when it attached), its connections so far, and what it received.
\* History of all its connections: where it last came in without a cursor,
\* what lagged, what a backfill cut off and what it may see twice.
NewClient == [pc |-> "off", since |-> Live, live |-> <<>>, bridge |-> <<>>, before |-> {},
              connects |-> 0, got |-> <<>>, base |-> 0, lagged |-> {}, cut |-> {}, window |-> {}]

Init ==
    /\ lastId = 0
    /\ pubsubRow = {}
    /\ fanned = {}
    /\ publisher = [p \in Publishers |-> [pc |-> "idle", id |-> 0]]
    /\ client = [s \in Subscribers |-> NewClient]
    /\ overtaken = {}

-----------------------------------------------------------------------------
(* Broker::publish.                                                        *)

Allocate(p) ==
    /\ publisher[p].pc = "idle" /\ lastId < MaxId
    /\ lastId' = lastId + 1
    /\ publisher' = [publisher EXCEPT ![p] = [pc |-> "insert", id |-> lastId + 1]]
    /\ UNCHANGED <<pubsubRow, fanned, client, overtaken>>

\* Fault: a failed INSERT is logged and the envelope sent all the same.
SendsAnyway(p) ==
    /\ publisher[p].pc = "insert"
    /\ pubsubRow' \in {pubsubRow, pubsubRow \cup {publisher[p].id}}
    /\ publisher' = [publisher EXCEPT ![p].pc = "send"]
    /\ UNCHANGED <<lastId, fanned, client, overtaken>>

\* The row comes first: a failed INSERT ends the call and nothing is sent.
InsertRow(p) ==
    /\ publisher[p].pc = "insert"
    /\ \/ /\ pubsubRow' = pubsubRow \cup {publisher[p].id}
          /\ publisher' = [publisher EXCEPT ![p].pc = "send"]
          /\ overtaken' = overtaken \cup ((1..publisher[p].id - 1) \ fanned)
       \/ /\ publisher' = [publisher EXCEPT ![p].pc = "idle"]
          /\ UNCHANGED <<pubsubRow, overtaken>>
    /\ UNCHANGED <<lastId, fanned, client>>

Send(c, id) ==
    [c EXCEPT !.live = Kept(Append(c.live, id)),
              !.lagged = c.lagged \cup Range(Overflow(Append(c.live, id)))]

FanOut(p) ==
    /\ publisher[p].pc = "send"
    /\ client' = [s \in Subscribers |->
          IF client[s].pc = "off" THEN client[s] ELSE Send(client[s], publisher[p].id)]
    /\ fanned' = fanned \cup {publisher[p].id}
    /\ publisher' = [publisher EXCEPT ![p].pc = "idle"]
    /\ UNCHANGED <<lastId, pubsubRow, overtaken>>

-----------------------------------------------------------------------------
(* Broker::subscribe and run_broker_socket.  The client names the greatest *)
(* id it has seen, or no cursor at all.                                    *)

Attach(s, since) ==
    LET seen == Range(client[s].got) \cup {client[s].base} IN
    /\ client[s].pc = "off" /\ client[s].connects < MaxConnects
    /\ since.cursor => since.id \in seen /\ \A i \in seen : i <= since.id
    /\ client' = [client EXCEPT ![s] =
          [@ EXCEPT !.pc = IF since.cursor THEN "attached" ELSE "live", !.since = since.id,
                    !.connects = client[s].connects + 1, !.before = fanned,
                    !.base = IF since.cursor THEN client[s].base ELSE lastId]]
    /\ UNCHANGED <<lastId, pubsubRow, fanned, publisher, overtaken>>

\* The answers to SELECT ... ORDER BY id ASC LIMIT over the ids due.
Pages(due) ==
    {rows \in UNION {[1..n -> due] : n \in 0..PageLimit} :
        /\ \A j, k \in DOMAIN rows : j < k => rows[j] < rows[k]
        /\ \A i \in due \ Range(rows) : Len(rows) = PageLimit /\ \A k \in DOMAIN rows : rows[k] < i}

\* Fault: the cursor itself is replayed.
ReplayFrom(cursor) == Pages({i \in pubsubRow : i >= cursor})

\* replay_since: id > cursor, in order of id.
ReplaySince(cursor) == Pages({i \in pubsubRow : i > cursor})

\* Fault: the live receiver is taken only when the query has returned.
BackfillsFirst(s) ==
    /\ client[s].pc = "attached"
    /\ \E rows \in Pages({i \in client[s].before : i > client[s].since}) :
          client' = [client EXCEPT ![s] =
              [@ EXCEPT !.pc = "bridged", !.bridge = Kept(rows), !.live = <<>>,
                        !.lagged = client[s].lagged \cup Range(Overflow(rows)),
                        !.window = client[s].window \cup (pubsubRow \ client[s].before)]]
    /\ UNCHANGED <<lastId, pubsubRow, fanned, publisher, overtaken>>

\* What is past the limit is neither in the answer nor, if it was sent before
\* the client attached, on the live channel.
Backfill(s) ==
    /\ client[s].pc = "attached"
    /\ \E rows \in ReplaySince(client[s].since) :
          client' = [client EXCEPT ![s] =
              [@ EXCEPT !.pc = "bridged", !.bridge = Kept(rows),
                        !.lagged = client[s].lagged \cup Range(Overflow(rows)),
                        !.cut = client[s].cut \cup
                                    ({i \in pubsubRow : i > client[s].since} \ Range(rows)),
                        !.window = client[s].window \cup (pubsubRow \ client[s].before)]]
    /\ UNCHANGED <<lastId, pubsubRow, fanned, publisher, overtaken>>

\* The spawned task that moves the live receiver's messages to the bridge.
Forward(s) ==
    LET q == Append(client[s].bridge, Head(client[s].live)) IN
    /\ client[s].pc = "bridged" /\ client[s].live # <<>>
    /\ client' = [client EXCEPT ![s] =
          [@ EXCEPT !.live = Tail(client[s].live), !.bridge = Kept(q),
                    !.lagged = client[s].lagged \cup Range(Overflow(q))]]
    /\ UNCHANGED <<lastId, pubsubRow, fanned, publisher, overtaken>>

\* The socket loop: recv, serialise, send.
Deliver(s) ==
    /\ \/ /\ client[s].pc = "bridged" /\ client[s].bridge # <<>>
          /\ client' = [client EXCEPT ![s] =
                [@ EXCEPT !.bridge = Tail(client[s].bridge),
                          !.got = Append(client[s].got, Head(client[s].bridge))]]
       \/ /\ client[s].pc = "live" /\ client[s].live # <<>>
          /\ client' = [client EXCEPT ![s] =
                [@ EXCEPT !.live = Tail(client[s].live),
                          !.got = Append(client[s].got, Head(client[s].live))]]
    /\ UNCHANGED <<lastId, pubsubRow, fanned, publisher, overtaken>>

\* The socket closes: whatever the queues held is gone.
Disconnect(s) ==
    /\ client[s].pc # "off"
    /\ client' = [client EXCEPT ![s] =
          [@ EXCEPT !.pc = "off", !.since = Live, !.live = <<>>, !.bridge = <<>>, !.before = {}]]
    /\ UNCHANGED <<lastId, pubsubRow, fanned, publisher, overtaken>>

-----------------------------------------------------------------------------
Since == [cursor : {TRUE}, id : 0..MaxId] \cup [cursor : {FALSE}, id : {Live}]

Next ==
    \/ \E p \in Publishers : Allocate(p) \/ InsertRow(p) \/ FanOut(p)
    \/ \E s \in Subscribers, since \in Since : Attach(s, since)
    \/ \E s \in Subscribers : Backfill(s) \/ Forward(s) \/ Deliver(s) \/ Disconnect(s)

Spec == Init /\ [][Next]_vars

-----------------------------------------------------------------------------
Pending(s) == Range(client[s].live) \cup Range(client[s].bridge)
Received(s) == Range(client[s].got)

\* What a client misses without fault of the broker's order: it lagged, or
\* was past the limit of a backfill.
Excused(s) == client[s].lagged \cup client[s].cut

TypeOK ==
    /\ lastId \in 0..MaxId
    /\ pubsubRow \cup fanned \cup overtaken \subseteq Ids
    /\ \A s \in Subscribers :
          /\ client[s].pc \in {"off", "attached", "live", "bridged"}
          /\ Len(client[s].live) <= Capacity /\ Len(client[s].bridge) <= Capacity
          /\ Received(s) \subseteq Ids

(* While a subscription with a cursor is up, every message whose publish
   returned is delivered, queued, lagged or cut off by the limit: the live
   receiver is taken before the backfill query so that no publish falls
   between them.                                                           *)
ConnectedMissesNothing ==
    \A s \in Subscribers : client[s].pc = "bridged" =>
        \A i \in fanned : i > client[s].since =>
            i \in Received(s) \cup Pending(s) \cup Excused(s)

(* Across reconnects a client that resumes from its greatest id has every
   message up to it, except one that lagged or was cut off, and one that was
   not sent yet when a greater id got its row: ids are allocated before rows
   appear. What it was never sent it does not lose by a disconnect either: a
   message still queued is behind all it has received.                     *)
ResumeSkipsOnlyOvertaken ==
    \A s \in Subscribers : \A i \in fanned \ overtaken :
        (client[s].base < i /\ \E j \in Received(s) : i < j) => i \in Received(s) \cup Excused(s)

(* A message is received twice only if its row appeared before the backfill
   query and its fan-out came after the live receiver was taken; a cursor is
   exclusive, so a reconnect repeats nothing.                              *)
TwiceOnlyInTheWindow ==
    \A s \in Subscribers : \A j, k \in DOMAIN client[s].got :
        (j # k /\ client[s].got[j] = client[s].got[k]) => client[s].got[j] \in client[s].window

(* What a subscriber saw survives: it is in pubsub_message, so another one
   that reconnects can be sent it.                                         *)
ReceivedIsPersisted == \A s \in Subscribers : Received(s) \cup Pending(s) \subseteq pubsubRow
=============================================================================
