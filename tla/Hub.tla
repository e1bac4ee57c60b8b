--------------------------------- MODULE Hub --------------------------------
(***************************************************************************)
(* SubscribeHub (crates/actant-subscribe/src/lib.rs) behind GET /v1/ws and *)
(* the client's end of the socket (sdks/rust/src/subscribe.rs).  Nothing is*)
(* stored: a message reaches the sockets open when it is published.  The   *)
(* server's loop ends at the first error of recv, a lag included.          *)
(***************************************************************************)
EXTENDS Naturals, Sequences, SequencesExt

CONSTANTS
    Frames,       \* number of messages published to the topic
    Buffer,       \* of the topic's broadcast channel
    Selected,     \* messages the subscription's predicate lets through
    Garbled       \* messages whose text the client cannot decode

VARIABLES
    published,    \* messages published so far
    socket,       \* the server's end: "open" or "closed"
    unread,       \* messages its receiver has not read
    joined,       \* messages published before it was opened
    wire,         \* frames sent and not yet read by the client
    reader,       \* the client's reader task
    items,        \* what its stream returned, by the message
    failed        \* the messages it returned as errors

vars == <<published, socket, unread, joined, wire, reader, items, failed>>

Close == 0     \* the close frame; messages are numbered from 1

Init ==
    /\ published = 0
    /\ socket = "closed" /\ unread = <<>> /\ joined = 0
    /\ wire = <<>>
    /\ reader = "none" /\ items = <<>> /\ failed = {}

\* A topic without a channel, and a channel without receivers, drop the message.
Publish ==
    /\ published < Frames
    /\ published' = published + 1
    /\ unread' = IF socket = "open" THEN Append(unread, published + 1) ELSE unread
    /\ UNCHANGED <<socket, joined, wire, reader, items, failed>>

Subscribe ==
    /\ socket = "closed" /\ reader = "none"
    /\ socket' = "open" /\ unread' = <<>> /\ joined' = published
    /\ reader' = "run"
    /\ UNCHANGED <<published, wire, items, failed>>

Matches(m) == m \in Selected

\* FilteredSubscription::recv skips what the predicate refuses; run_subscription
\* sends what it gets and leaves its loop on Lagged.
RunSubscription ==
    /\ socket = "open" /\ unread # <<>>
    /\ IF Len(unread) > Buffer
       THEN socket' = "closed" /\ wire' = Append(wire, Close) /\ UNCHANGED unread
       ELSE /\ unread' = Tail(unread)
            /\ wire' = IF Matches(Head(unread)) THEN Append(wire, Head(unread)) ELSE wire
            /\ UNCHANGED socket
    /\ UNCHANGED <<published, joined, reader, items, failed>>

\* Fault: a frame that does not decode is dropped.
DropsGarbled ==
    /\ reader = "run" /\ wire # <<>>
    /\ wire' = Tail(wire)
    /\ reader' = IF Head(wire) = Close THEN "ended" ELSE "run"
    /\ items' = IF Head(wire) \in Garbled \cup {Close} THEN items ELSE Append(items, Head(wire))
    /\ UNCHANGED <<published, socket, unread, joined, failed>>

\* The client's reader task: a text that does not decode is an item of its own
\* and the task goes on; a close ends it.
ReadFrame ==
    /\ reader = "run" /\ wire # <<>>
    /\ wire' = Tail(wire)
    /\ IF Head(wire) = Close
       THEN reader' = "ended" /\ UNCHANGED <<items, failed>>
       ELSE /\ items' = Append(items, Head(wire))
            /\ failed' = failed \cup ({Head(wire)} \cap Garbled)
            /\ UNCHANGED reader
    /\ UNCHANGED <<published, socket, unread, joined>>

\* The connection fails, or the client drops its stream.
Drop ==
    /\ socket = "open"
    /\ socket' = "closed"
    /\ wire' = <<Close>>
    /\ UNCHANGED <<published, unread, joined, reader, items, failed>>

Next == Publish \/ Subscribe \/ RunSubscription \/ ReadFrame \/ Drop

Spec == Init /\ [][Next]_vars

-----------------------------------------------------------------------------
TypeOK ==
    /\ published \in 0..Frames
    /\ socket \in {"open", "closed"} /\ joined \in 0..published
    /\ reader \in {"none", "run", "ended"}

(* A client sees an unbroken run of the matching messages from its
   subscription on, in order, one item each, a garbled one as an error: the
   server closes a socket that lags instead of skipping, and the client's
   task outlives a frame it cannot decode.                                 *)
StreamHasNoGap ==
    /\ failed = Range(items) \cap Garbled
    /\ \A k \in DOMAIN items :
          LET earlier == {items[j] : j \in 1..k - 1}
          IN  /\ Matches(items[k]) /\ items[k] \in joined + 1..published
              /\ items[k] \notin earlier
              /\ {n \in joined + 1..items[k] - 1 : Matches(n)} = earlier
=============================================================================
