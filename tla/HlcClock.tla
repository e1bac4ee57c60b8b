------------------------------ MODULE HlcClock ------------------------------
(***************************************************************************)
(* The lock-free hybrid logical clock of one process                       *)
(* (crates/actant-core/src/hlc.rs).                                        *)
(*                                                                         *)
(* Threads share one atomic word.  A thread reads the wall clock once,     *)
(* then loops: load the word, compute the next reading, compare-and-swap.  *)
(* The steps between the read, the load and the swap are interleaved with  *)
(* every other thread's.  The wall clock is whatever the system returns:   *)
(* it may stall or be stepped back, so each call reads any of WallTimes.   *)
(***************************************************************************)
EXTENDS Integers, Sequences, FiniteSets

CONSTANTS
    Threads,        \* callers that share the Arc<HlcClock>
    PhysicalMax,    \* PHYSICAL_MASK: largest physical_ms the word can hold
    LogicalMax,     \* LOGICAL_MAX: largest logical counter
    WallTimes,      \* what physical_now_ms() may return
    Remotes,        \* the readings observe() may be called with
    Initial,        \* the reading HlcClock::new is seeded with
    MaxIssued       \* bound: calls made in one behaviour

ASSUME LimitsAssumption == PhysicalMax \in Nat /\ LogicalMax \in Nat /\ MaxIssued \in Nat

\* Hlc as the callers see it: u64 and u32 fields, wider than the packed word.
Hlc == [physical_ms : Nat, logical : Nat]

\* What the packed word can hold.
Packed == [physical_ms : 0..PhysicalMax, logical : 0..LogicalMax]

ASSUME InputsAssumption ==
    WallTimes \subseteq Nat /\ Remotes \subseteq Hlc /\ Initial \in Packed

VARIABLES
    state,          \* the atomic word, unpacked
    pc,             \* per thread: "idle", "load" or "cas"
    op,             \* per thread: the call under way, "tick" or "observe"
    remote,         \* per thread: observe's argument
    physical_now,   \* per thread: the wall clock as read before the loop
    raw,            \* per thread: the word as last loaded
    issued,         \* history: the calls that returned, in swap order
    seen            \* history: the physical times any call was given

vars == <<state, pc, op, remote, physical_now, raw, issued, seen>>

\* The derived lexicographic order of Hlc.
Less(a, b) ==
    \/ a.physical_ms < b.physical_ms
    \/ a.physical_ms = b.physical_ms /\ a.logical < b.logical

LessEq(a, b) == a = b \/ Less(a, b)

\* Hlc::pack followed by Hlc::unpack keeps the low bits of each field.
Pack(h) == [physical_ms |-> h.physical_ms % (PhysicalMax + 1),
            logical     |-> h.logical % (LogicalMax + 1)]

MaxOf(a, b) == IF a >= b THEN a ELSE b

\* Fault: a full counter wraps to zero.
Wraps(c) == (c + 1) % (LogicalMax + 1)

\* saturating_add(1).min(LOGICAL_MAX)
Bump(c) == IF c < LogicalMax THEN c + 1 ELSE LogicalMax

\* The reading local_tick installs over prev.
LocalNext(prev, now) ==
    IF now > prev.physical_ms
    THEN [physical_ms |-> now, logical |-> 0]
    ELSE [physical_ms |-> prev.physical_ms, logical |-> Bump(prev.logical)]

\* Fault: the counter of the remote is forgotten when the remote is ahead.
ForgetsRemoteCounter(prev, r, now) ==
    LET l == MaxOf(MaxOf(prev.physical_ms, r.physical_ms), now)
    IN  [physical_ms |-> l,
         logical |-> IF l = prev.physical_ms THEN Bump(prev.logical) ELSE 0]

\* The reading observe installs over prev.
ObserveNext(prev, r, now) ==
    LET l_new == MaxOf(MaxOf(prev.physical_ms, r.physical_ms), now)
        c_new == CASE l_new = prev.physical_ms /\ l_new = r.physical_ms ->
                          Bump(MaxOf(prev.logical, r.logical))
                   [] l_new = prev.physical_ms /\ l_new # r.physical_ms ->
                          Bump(prev.logical)
                   [] l_new # prev.physical_ms /\ l_new = r.physical_ms ->
                          Bump(r.logical)
                   [] OTHER -> 0
    IN  [physical_ms |-> l_new, logical |-> c_new]

-----------------------------------------------------------------------------

Init ==
    /\ state = Initial
    /\ pc = [t \in Threads |-> "idle"]
    /\ op = [t \in Threads |-> "tick"]
    /\ remote = [t \in Threads |-> Initial]
    /\ physical_now = [t \in Threads |-> 0]
    /\ raw = [t \in Threads |-> Initial]
    /\ issued = <<>>
    /\ seen = {Initial.physical_ms}

Busy == {t \in Threads : pc[t] # "idle"}

\* Fault: the wall clock is used with all its bits.
ReadsUnmasked(t, wall) ==
    /\ pc[t] = "idle"
    /\ Len(issued) + Cardinality(Busy) < MaxIssued
    /\ physical_now' = [physical_now EXCEPT ![t] = wall]
    /\ pc' = [pc EXCEPT ![t] = "load"]
    /\ UNCHANGED <<state, raw, issued>>

\* Entering a call: the wall clock is read, masked, and not read again.
Begin(t, wall) ==
    /\ pc[t] = "idle"
    /\ Len(issued) + Cardinality(Busy) < MaxIssued
    /\ physical_now' = [physical_now EXCEPT ![t] = wall % (PhysicalMax + 1)]
    /\ pc' = [pc EXCEPT ![t] = "load"]
    /\ UNCHANGED <<state, raw, issued>>

\* local_tick up to its loop.
BeginTick(t, wall) ==
    /\ Begin(t, wall)
    /\ op' = [op EXCEPT ![t] = "tick"]
    /\ seen' = seen \cup {wall % (PhysicalMax + 1)}
    /\ UNCHANGED remote

\* observe(r) up to its loop.
BeginObserve(t, wall, r) ==
    /\ Begin(t, wall)
    /\ op' = [op EXCEPT ![t] = "observe"]
    /\ remote' = [remote EXCEPT ![t] = r]
    /\ seen' = seen \cup {wall % (PhysicalMax + 1), r.physical_ms}

\* The top of the loop: load the word.
Load(t) ==
    /\ pc[t] = "load"
    /\ raw' = [raw EXCEPT ![t] = state]
    /\ pc' = [pc EXCEPT ![t] = "cas"]
    /\ UNCHANGED <<state, op, remote, physical_now, issued, seen>>

\* The reading thread t tries to install.
NextOf(t) ==
    IF op[t] = "tick"
    THEN LocalNext(raw[t], physical_now[t])
    ELSE ObserveNext(raw[t], remote[t], physical_now[t])

\* Fault: a plain store in place of the compare-and-swap.
Stores(t) ==
    /\ pc[t] = "cas"
    /\ state' = Pack(NextOf(t))
    /\ issued' = Append(issued, [op |-> op[t], remote |-> remote[t], stamp |-> NextOf(t)])
    /\ pc' = [pc EXCEPT ![t] = "idle"]
    /\ UNCHANGED <<op, remote, physical_now, raw, seen>>

\* The swap succeeds and the call returns the unpacked reading.
CasOk(t) ==
    /\ pc[t] = "cas"
    /\ state = raw[t]
    /\ state' = Pack(NextOf(t))
    /\ issued' = Append(issued, [op |-> op[t], remote |-> remote[t], stamp |-> NextOf(t)])
    /\ pc' = [pc EXCEPT ![t] = "idle"]
    /\ UNCHANGED <<op, remote, physical_now, raw, seen>>

\* Fault: the loop retries the swap with the word it loaded the first time.
KeepsStaleRaw(t) ==
    /\ pc[t] = "cas"
    /\ state # raw[t]
    /\ UNCHANGED vars

\* The swap fails because another thread's succeeded: back to the load.
CasFail(t) ==
    /\ pc[t] = "cas"
    /\ state # raw[t]
    /\ pc' = [pc EXCEPT ![t] = "load"]
    /\ UNCHANGED <<state, op, remote, physical_now, raw, issued, seen>>

Step(t) == Load(t) \/ CasOk(t) \/ CasFail(t)

Next ==
    \E t \in Threads :
        \/ \E wall \in WallTimes :
              \/ BeginTick(t, wall)
              \/ \E r \in Remotes : BeginObserve(t, wall, r)
        \/ Load(t)
        \/ CasOk(t)
        \/ CasFail(t)

Spec == Init /\ [][Next]_vars

\* A thread inside a call is eventually scheduled; nothing forces a new call.
FairSpec == Spec /\ \A t \in Threads : WF_vars(Step(t))

-----------------------------------------------------------------------------
(* Properties                                                              *)

\* A call that returned, with its argument and its stamp.
Call == [op : {"tick", "observe"}, remote : Hlc, stamp : Hlc]

TypeOK ==
    /\ state \in Packed
    /\ pc \in [Threads -> {"idle", "load", "cas"}]
    /\ op \in [Threads -> {"tick", "observe"}]
    /\ remote \in [Threads -> Hlc]
    /\ physical_now \in [Threads -> 0..PhysicalMax]
    /\ raw \in [Threads -> Packed]
    /\ issued \in Seq(Call)
    /\ seen \in SUBSET Nat

\* The readings handed to observe fit the 48 physical bits of the word.
RemotesFit == \A r \in Remotes : r.physical_ms <= PhysicalMax

\* No step of any thread moves the shared word back, whatever the wall clock
\* did: a swap computed from a stale load never overwrites a newer reading.
ClockNeverGoesBack == [][LessEq(state, state')]_vars

\* Two calls return stamps in swap order, strictly, until the counter is full;
\* from then on they repeat the full stamp and nothing smaller.
StampsIncrease ==
    \A i, j \in 1..Len(issued) : i < j =>
        \/ Less(issued[i].stamp, issued[j].stamp)
        \/ /\ issued[i].stamp = issued[j].stamp
           /\ issued[j].stamp.logical = LogicalMax

\* Once a reading was observed, it and everything stamped after it by any
\* thread is later than that reading, unless the counter is full.
ObservedIsBehind ==
    \A i, j \in 1..Len(issued) :
        (i <= j /\ issued[i].op = "observe") =>
            \/ Less(issued[i].remote, issued[j].stamp)
            \/ issued[j].stamp.logical = LogicalMax

\* The clock never invents time: the physical part of every stamp was read
\* from the wall clock, observed from a remote or seeded, even when the
\* counter is full.
TimeIsNotInvented ==
    \A i \in 1..Len(issued) : issued[i].stamp.physical_ms \in seen

\* A call that competes with finitely many others (MaxIssued) returns: a swap
\* fails only because another one succeeded, and the retry uses the word the
\* failed swap returned.  The loop is lock-free, not wait-free: against an
\* endless stream of other calls it may lose for ever.
CallsReturn == \A t \in Threads : (pc[t] # "idle") ~> (pc[t] = "idle")
=============================================================================
