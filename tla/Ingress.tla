------------------------------ MODULE Ingress -------------------------------
(***************************************************************************)
(* Inbound events (crates/actant-reliability/src/ingress.rs): one INSERT   *)
(* against UNIQUE (workspace_id, source, dedupe_key).  Every error counts  *)
(* as a duplicate.  Senders repeat an event until they are answered.       *)
(***************************************************************************)
EXTENDS Naturals, FiniteSets

CONSTANTS
    Deliveries,   \* deliveries in flight
    DedupeKeys,   \* dedupe keys of one source
    MaxErrors     \* bound on failing statements

VARIABLES
    delivery,     \* per delivery: key, and answer "none", "accepted" or "duplicate"
    ingressRow,   \* per key: rows
    errors

vars == <<delivery, ingressRow, errors>>

Init ==
    /\ delivery = [d \in Deliveries |-> [key |-> "none", answer |-> "idle"]]
    /\ ingressRow = [k \in DedupeKeys |-> 0]
    /\ errors = 0

Send(d, k) ==
    /\ delivery[d].answer = "idle"
    /\ delivery' = [delivery EXCEPT ![d] = [key |-> k, answer |-> "none"]]
    /\ UNCHANGED <<ingressRow, errors>>

\* Fault: the table has no unique key.
InsertAlways(d) ==
    /\ delivery[d].answer = "none"
    /\ ingressRow' = [ingressRow EXCEPT ![delivery[d].key] = @ + 1]
    /\ delivery' = [delivery EXCEPT ![d].answer = "accepted"]
    /\ UNCHANGED errors

Ingest(d) ==
    LET k == delivery[d].key IN
    /\ delivery[d].answer = "none"
    /\ ingressRow' = [ingressRow EXCEPT ![k] = IF @ = 0 THEN 1 ELSE @]
    /\ delivery' = [delivery EXCEPT ![d].answer = IF ingressRow[k] = 0 THEN "accepted" ELSE "duplicate"]
    /\ UNCHANGED errors

\* Storage fails: answered like a duplicate.
IngestFails(d) ==
    /\ delivery[d].answer = "none" /\ errors < MaxErrors
    /\ delivery' = [delivery EXCEPT ![d].answer = "duplicate"]
    /\ errors' = errors + 1
    /\ UNCHANGED ingressRow

Next ==
    \/ \E d \in Deliveries, k \in DedupeKeys : Send(d, k)
    \/ \E d \in Deliveries : Ingest(d) \/ IngestFails(d)

Spec == Init /\ [][Next]_vars

-----------------------------------------------------------------------------
Answered(k, a) == {d \in Deliveries : delivery[d].key = k /\ delivery[d].answer = a}

TypeOK ==
    /\ \A d \in Deliveries : delivery[d].answer \in {"idle", "none", "accepted", "duplicate"}
    /\ ingressRow \in [DedupeKeys -> 0..1]

(* An event repeated by its sender is accepted once, and one that is answered
   as a duplicate without ever being accepted was lost to a storage error:
   there are never more of these than failed statements.                   *)
AcceptedOnce ==
    /\ \A k \in DedupeKeys : Cardinality(Answered(k, "accepted")) = ingressRow[k] /\ ingressRow[k] <= 1
    /\ Cardinality({k \in DedupeKeys : Answered(k, "accepted") = {} /\ Answered(k, "duplicate") # {}}) <= errors
=============================================================================
