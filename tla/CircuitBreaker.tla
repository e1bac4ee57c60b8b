--------------------------- MODULE CircuitBreaker ---------------------------
(***************************************************************************)
(* Breaker (crates/actant-reliability/src/circuit.rs) with calls that take *)
(* time: a call asks allow, and reports on_success or on_failure later,    *)
(* possibly after the circuit was opened by another one.                   *)
(***************************************************************************)
EXTENDS Naturals, FiniteSets

CONSTANTS
    Callers,
    FailureThreshold,
    OpenDuration,
    MaxInstant    \* bound on time

VARIABLES
    instant,      \* monotonic clock
    breaker,      \* state, failure_count, opened_at
    inFlight,     \* calls admitted and not yet reported
    trip,         \* history: when on_failure last opened the circuit, 0 for never
    healed,       \* history: a success was reported since then
    admitted      \* history: the last call let in: when, and trip and healed then

vars == <<instant, breaker, inFlight, trip, healed, admitted>>

Init ==
    /\ instant = 1
    /\ breaker = [state |-> "closed", failures |-> 0, opened |-> 0]
    /\ inFlight = {}
    /\ trip = 0
    /\ healed = TRUE
    /\ admitted = [at |-> 1, trip |-> 0, healed |-> TRUE]

Pass ==
    /\ instant < MaxInstant
    /\ instant' = instant + 1
    /\ UNCHANGED <<breaker, inFlight, trip, healed, admitted>>

\* current: an open circuit is half open once its time is over.
Current ==
    IF breaker.state = "open" /\ instant - breaker.opened >= OpenDuration
    THEN "half_open" ELSE breaker.state

Allow(c) ==
    /\ c \notin inFlight
    /\ breaker' = [breaker EXCEPT !.state = Current]
    /\ inFlight' = IF Current = "open" THEN inFlight ELSE inFlight \cup {c}
    /\ admitted' = IF Current = "open" THEN admitted
                   ELSE [at |-> instant, trip |-> trip, healed |-> healed]
    /\ UNCHANGED <<instant, trip, healed>>

OnSuccess(c) ==
    /\ c \in inFlight
    /\ breaker' = [state |-> "closed", failures |-> 0, opened |-> 0]
    /\ inFlight' = inFlight \ {c}
    /\ healed' = TRUE
    /\ UNCHANGED <<instant, trip, admitted>>

\* Fault: a circuit that opens again keeps its first opening time.
KeepsFirst(at) == IF breaker.opened = 0 THEN at ELSE breaker.opened

OpenedAt(at) == at

\* failure_count is reset by a success only: one failed probe opens again.
OnFailure(c) ==
    LET count == breaker.failures + 1 IN
    /\ c \in inFlight
    /\ inFlight' = inFlight \ {c}
    /\ IF count >= FailureThreshold
       THEN /\ breaker' = [state |-> "open", failures |-> count, opened |-> OpenedAt(instant)]
            /\ trip' = instant /\ healed' = FALSE
       ELSE /\ breaker' = [breaker EXCEPT !.failures = count]
            /\ UNCHANGED <<trip, healed>>
    /\ UNCHANGED <<instant, admitted>>

Next == Pass \/ \E c \in Callers : Allow(c) \/ OnSuccess(c) \/ OnFailure(c)

Spec == Init /\ [][Next]_vars

-----------------------------------------------------------------------------
TypeOK ==
    /\ breaker.state \in {"closed", "open", "half_open"}
    /\ inFlight \subseteq Callers

(* No call is let in within OpenDuration of a failure that opened the
   circuit, whichever call reported it, unless a success came in between:
   the late success of a call from before the trip does close it.          *)
OpenKeepsOut ==
    (admitted.trip > 0 /\ ~admitted.healed) => admitted.at >= admitted.trip + OpenDuration
=============================================================================
