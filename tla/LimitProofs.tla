---------------------------- MODULE LimitProofs -----------------------------
(***************************************************************************)
(* Theorems about the hybrid logical clock and about the components whose  *)
(* promise is a limit in time: the lock table, and that it implements the  *)
(* abstract lease, the circuit breaker, the token bucket, the trigger      *)
(* scheduler and the key cache; and about what reads on from a cursor: the *)
(* MCP client, tail, the migration runner and the sync runner.  They hold  *)
(* for any number of threads, actors, resources and processes, any widths  *)
(* of the stamp's two fields, any durations, bounds on the clocks, scripts *)
(* and rows.                                                               *)
(***************************************************************************)
EXTENDS HlcClock, FiniteSets, FiniteSetTheorems, SequenceTheorems, TLAPS

---------------------------------------------------------------------------
(* The hybrid logical clock.                                               *)

\* prev was replaced by next: strictly later, or the full stamp repeated.
Advances(prev, next) ==
    Less(prev, next) \/ (prev = next /\ next.logical = LogicalMax)

\* The remote a thread is observing fits the word.
RemotesHeldFit == \A t \in Threads : remote[t].physical_ms <= PhysicalMax

\* Every stamp fits the word and none is later than the word.
IssuedBelow ==
    \A i \in 1..Len(issued) :
        issued[i].stamp \in Packed /\ LessEq(issued[i].stamp, state)

\* Every remote observed so far is behind the word, up to a full counter.
ObservedBelow ==
    \A i \in 1..Len(issued) : issued[i].op = "observe" =>
        /\ issued[i].remote.physical_ms <= state.physical_ms
        /\ Less(issued[i].remote, state) \/ state.logical = LogicalMax

\* What a call under way may install comes from times already seen.
TimesAreSeen ==
    /\ state.physical_ms \in seen
    /\ \A t \in Threads : pc[t] # "idle" =>
        /\ physical_now[t] \in seen
        /\ op[t] = "observe" => remote[t].physical_ms \in seen

ClockInv ==
    /\ TypeOK
    /\ RemotesHeldFit
    /\ IssuedBelow
    /\ StampsIncrease
    /\ ObservedBelow
    /\ ObservedIsBehind
    /\ TimesAreSeen
    /\ TimeIsNotInvented

-----------------------------------------------------------------------------

\* A reading packed into the word comes back unchanged when it fits; in any
\* case what is unpacked fits.
LEMMA PackFits ==
    ASSUME NEW h \in Hlc
    PROVE  Pack(h) \in Packed /\ (h \in Packed => Pack(h) = h)
BY LimitsAssumption DEF Pack, Packed, Hlc

\* local_tick installs a reading later than the one it replaces, whatever the
\* wall clock says, and takes its time from one of the two.
LEMMA TickAdvances ==
    ASSUME NEW prev \in Packed, NEW now \in 0..PhysicalMax
    PROVE  /\ LocalNext(prev, now) \in Packed
           /\ Advances(prev, LocalNext(prev, now))
           /\ LocalNext(prev, now).physical_ms \in {prev.physical_ms, now}
BY LimitsAssumption DEF LocalNext, Bump, Advances, Less, Packed

\* observe installs a reading later than the one it replaces and than the
\* remote, and takes its time from the word, the remote or the wall clock.
LEMMA ObserveAdvances ==
    ASSUME NEW prev \in Packed, NEW now \in 0..PhysicalMax,
           NEW r \in Hlc, r.physical_ms <= PhysicalMax
    PROVE  LET next == ObserveNext(prev, r, now)
           IN  /\ next \in Packed
               /\ Advances(prev, next)
               /\ r.physical_ms <= next.physical_ms
               /\ Less(r, next) \/ next.logical = LogicalMax
               /\ next.physical_ms \in {prev.physical_ms, r.physical_ms, now}
<1> DEFINE l == MaxOf(MaxOf(prev.physical_ms, r.physical_ms), now)
           next == ObserveNext(prev, r, now)
<1>1. /\ l \in 0..PhysicalMax
      /\ l >= prev.physical_ms /\ l >= r.physical_ms /\ l >= now
      /\ l \in {prev.physical_ms, r.physical_ms, now}
  BY LimitsAssumption DEF MaxOf, Packed, Hlc
<1>2. next.physical_ms = l /\ next = [physical_ms |-> l, logical |-> next.logical]
  BY DEF ObserveNext
<1> HIDE DEF l
<1>3. CASE l = prev.physical_ms /\ l = r.physical_ms
  <2>1. next.logical = Bump(MaxOf(prev.logical, r.logical))
    BY <1>3 DEF ObserveNext, l
  <2>2. /\ next.logical \in 0..LogicalMax
        /\ next.logical > prev.logical
           \/ (next.logical = LogicalMax /\ prev.logical = LogicalMax)
        /\ next.logical > r.logical \/ next.logical = LogicalMax
    BY <2>1, LimitsAssumption DEF Bump, MaxOf, Packed, Hlc
  <2>3. prev = [physical_ms |-> prev.physical_ms, logical |-> prev.logical]
    BY DEF Packed
  <2> HIDE DEF next
  <2>4. Advances(prev, next) /\ next \in Packed
    BY <1>1, <1>2, <1>3, <2>2, <2>3, LimitsAssumption DEF Advances, Less, Packed
  <2>5. QED
    BY <1>1, <1>2, <1>3, <2>2, <2>4, LimitsAssumption DEF Less, Hlc, next
<1>4. CASE l = prev.physical_ms /\ l # r.physical_ms
  <2>1. next.logical = Bump(prev.logical)
    BY <1>4 DEF ObserveNext, l
  <2>2. QED
    BY <1>1, <1>2, <1>4, <2>1, LimitsAssumption
       DEF Bump, Advances, Less, Packed, Hlc
<1>5. CASE l # prev.physical_ms /\ l = r.physical_ms
  <2>1. next.logical = Bump(r.logical)
    BY <1>5 DEF ObserveNext, l
  <2>2. QED
    BY <1>1, <1>2, <1>5, <2>1, LimitsAssumption
       DEF Bump, Advances, Less, Packed, Hlc
<1>6. CASE l # prev.physical_ms /\ l # r.physical_ms
  <2>1. next.logical = 0
    BY <1>6 DEF ObserveNext, l
  <2>2. QED
    BY <1>1, <1>2, <1>6, <2>1, LimitsAssumption
       DEF Advances, Less, Packed, Hlc
<1>7. QED
  BY <1>3, <1>4, <1>5, <1>6

-----------------------------------------------------------------------------

\* Every step preserves the types.
LEMMA TypeStep ==
    ASSUME TypeOK, [Next]_vars
    PROVE  TypeOK'
<1> USE LimitsAssumption, InputsAssumption
<1>1. ASSUME NEW t \in Threads, NEW wall \in WallTimes, BeginTick(t, wall)
      PROVE  TypeOK'
  <2>1. wall % (PhysicalMax + 1) \in 0..PhysicalMax
    OBVIOUS
  <2> DEFINE p == wall % (PhysicalMax + 1)
  <2>2. seen' \in SUBSET Nat
    <3>1. p \in Nat
      BY <2>1
    <3>2. seen' = seen \cup {p}
      BY <1>1 DEF BeginTick
    <3> HIDE DEF p
    <3>3. QED
      BY <2>1, <3>1, <3>2 DEF TypeOK
  <2>3. physical_now' \in [Threads -> 0..PhysicalMax]
    BY <1>1, <2>1 DEF BeginTick, Begin, TypeOK
  <2>4. QED
    BY <1>1, <2>2, <2>3 DEF BeginTick, Begin, TypeOK
<1>2. ASSUME NEW t \in Threads, NEW wall \in WallTimes, NEW r \in Remotes,
             BeginObserve(t, wall, r)
      PROVE  TypeOK'
  <2>1. wall % (PhysicalMax + 1) \in 0..PhysicalMax /\ r \in Hlc /\ r.physical_ms \in Nat
    BY DEF Hlc
  <2> DEFINE p == wall % (PhysicalMax + 1)
  <2>2. seen' \in SUBSET Nat
    <3>1. p \in Nat
      BY <2>1
    <3>2. seen' = seen \cup {p, r.physical_ms}
      BY <1>2 DEF BeginObserve
    <3> HIDE DEF p
    <3>3. QED
      BY <2>1, <3>1, <3>2 DEF TypeOK
  <2>3. physical_now' \in [Threads -> 0..PhysicalMax]
    BY <1>2, <2>1 DEF BeginObserve, Begin, TypeOK
  <2>4. QED
    BY <1>2, <2>1, <2>2, <2>3 DEF BeginObserve, Begin, TypeOK
<1>3. ASSUME NEW t \in Threads, Load(t) PROVE TypeOK'
  BY <1>3 DEF Load, TypeOK
<1>4. ASSUME NEW t \in Threads, CasOk(t) PROVE TypeOK'
  <2>1. NextOf(t) \in Hlc
    <3>1. raw[t] \in Packed /\ remote[t] \in Hlc /\ physical_now[t] \in Nat
      BY DEF TypeOK
    <3>2. LocalNext(raw[t], physical_now[t]) \in Hlc
      BY <3>1 DEF LocalNext, Bump, Packed, Hlc
    <3>3. ObserveNext(raw[t], remote[t], physical_now[t]) \in Hlc
      BY <3>1 DEF ObserveNext, MaxOf, Bump, Packed, Hlc
    <3>4. QED
      BY <3>2, <3>3 DEF NextOf
  <2>2. state' \in Packed
    BY <1>4, <2>1, PackFits DEF CasOk
  <2>3. [op |-> op[t], remote |-> remote[t], stamp |-> NextOf(t)]
           \in Call
    BY <2>1 DEF TypeOK, Call
  <2>4. QED
    BY <1>4, <2>2, <2>3 DEF CasOk, TypeOK
<1>5. ASSUME NEW t \in Threads, CasFail(t) PROVE TypeOK'
  BY <1>5 DEF CasFail, TypeOK
<1>6. CASE UNCHANGED vars
  BY <1>6 DEF vars, TypeOK
<1>7. QED
  BY <1>1, <1>2, <1>3, <1>4, <1>5, <1>6 DEF Next

\* Type correctness: in particular the word never holds more than its bits,
\* even when an observed remote does not fit.
THEOREM TypeCorrect == Spec => []TypeOK
<1>1. Init => TypeOK
  BY LimitsAssumption, InputsAssumption DEF Init, TypeOK, Hlc, Packed
<1>2. TypeOK /\ [Next]_vars => TypeOK'
  BY TypeStep
<1>3. QED
  BY <1>1, <1>2, PTL DEF Spec

\* What a successful swap does to the word: the stamp it returns is the new
\* word, it advances the old one, and it is ahead of the observed remote.
LEMMA SwapAdvances ==
    ASSUME TypeOK, RemotesHeldFit, TimesAreSeen, NEW t \in Threads, CasOk(t)
    PROVE  /\ NextOf(t) \in Packed
           /\ state' = NextOf(t)
           /\ Advances(state, state')
           /\ state'.physical_ms \in seen
           /\ op[t] = "observe" =>
                /\ remote[t].physical_ms <= state'.physical_ms
                /\ Less(remote[t], state') \/ state'.logical = LogicalMax
<1>1. /\ raw[t] = state /\ state \in Packed /\ physical_now[t] \in 0..PhysicalMax
      /\ remote[t] \in Hlc /\ remote[t].physical_ms <= PhysicalMax
      /\ op[t] \in {"tick", "observe"}
      /\ pc[t] # "idle" /\ state' = Pack(NextOf(t))
  BY DEF CasOk, TypeOK, RemotesHeldFit
<1>2. /\ state.physical_ms \in seen /\ physical_now[t] \in seen
      /\ op[t] = "observe" => remote[t].physical_ms \in seen
  BY <1>1 DEF TimesAreSeen
<1>3. Packed \subseteq Hlc
  BY LimitsAssumption DEF Packed, Hlc
<1>4. CASE op[t] = "tick"
  <2>1. NextOf(t) = LocalNext(state, physical_now[t])
    BY <1>1, <1>4 DEF NextOf
  <2>2. QED
    BY <1>1, <1>2, <1>3, <1>4, <2>1, TickAdvances, PackFits
<1>5. CASE op[t] = "observe"
  <2>1. NextOf(t) = ObserveNext(state, remote[t], physical_now[t])
    BY <1>1, <1>5 DEF NextOf
  <2>2. QED
    BY <1>1, <1>2, <1>3, <1>5, <2>1, ObserveAdvances, PackFits
<1>6. QED
  BY <1>1, <1>4, <1>5

\* The order facts the sequence arguments need.
LEMMA AdvanceOrder ==
    ASSUME NEW a \in Packed, NEW b \in Packed, NEW c \in Packed, Advances(b, c)
    PROVE  /\ LessEq(b, c)
           /\ LessEq(a, b) => LessEq(a, c)
           /\ LessEq(a, b) => Advances(a, c)
<1>1. CASE Less(b, c)
  BY <1>1 DEF Less, LessEq, Advances, Packed
<1>2. CASE b = c /\ c.logical = LogicalMax
  BY <1>2 DEF LessEq, Advances
<1>3. QED
  BY <1>1, <1>2 DEF Advances

LEMMA ObservedOrder ==
    ASSUME NEW r \in Hlc, NEW b \in Packed, NEW c \in Packed, Advances(b, c),
           r.physical_ms <= b.physical_ms,
           Less(r, b) \/ b.logical = LogicalMax
    PROVE  /\ r.physical_ms <= c.physical_ms
           /\ Less(r, c) \/ c.logical = LogicalMax
BY LimitsAssumption DEF Less, Advances, Packed, Hlc

-----------------------------------------------------------------------------

\* ClockInv is inductive while the remotes fit the word.
LEMMA ClockStep ==
    ASSUME RemotesFit, ClockInv, [Next]_vars
    PROVE  ClockInv' /\ LessEq(state, state')
<1> USE LimitsAssumption, InputsAssumption
<1>1. TypeOK'
  BY TypeStep DEF ClockInv
<1>2. ASSUME NEW t \in Threads, NEW wall \in WallTimes, BeginTick(t, wall)
      PROVE  ClockInv' /\ LessEq(state, state')
  <2>1. state' = state /\ issued' = issued /\ remote' = remote
    BY <1>2 DEF BeginTick, Begin
  <2>2. TimesAreSeen'
    BY <1>2 DEF BeginTick, Begin, TimesAreSeen, ClockInv, TypeOK
  <2>3. TimeIsNotInvented'
    BY <1>2, <2>1 DEF BeginTick, TimeIsNotInvented, ClockInv
  <2>4. QED
    BY <1>1, <2>1, <2>2, <2>3
       DEF ClockInv, RemotesHeldFit, IssuedBelow, StampsIncrease,
           ObservedBelow, ObservedIsBehind, LessEq
<1>3. ASSUME NEW t \in Threads, NEW wall \in WallTimes, NEW r \in Remotes,
             BeginObserve(t, wall, r)
      PROVE  ClockInv' /\ LessEq(state, state')
  <2>1. state' = state /\ issued' = issued
    BY <1>3 DEF BeginObserve, Begin
  <2>2. RemotesHeldFit'
    BY <1>3 DEF BeginObserve, RemotesHeldFit, RemotesFit, ClockInv, TypeOK
  <2>3. TimesAreSeen'
    BY <1>3 DEF BeginObserve, Begin, TimesAreSeen, ClockInv, TypeOK
  <2>4. TimeIsNotInvented'
    BY <1>3, <2>1 DEF BeginObserve, TimeIsNotInvented, ClockInv
  <2>5. QED
    BY <1>1, <2>1, <2>2, <2>3, <2>4
       DEF ClockInv, IssuedBelow, StampsIncrease,
           ObservedBelow, ObservedIsBehind, LessEq
<1>4. ASSUME NEW t \in Threads, Load(t)
      PROVE  ClockInv' /\ LessEq(state, state')
  <2>1. TimesAreSeen'
    BY <1>4 DEF Load, TimesAreSeen, ClockInv, TypeOK
  <2>2. QED
    BY <1>1, <1>4, <2>1
       DEF Load, ClockInv, RemotesHeldFit, IssuedBelow, StampsIncrease,
           ObservedBelow, ObservedIsBehind, TimeIsNotInvented, LessEq
<1>5. ASSUME NEW t \in Threads, CasFail(t)
      PROVE  ClockInv' /\ LessEq(state, state')
  <2>1. TimesAreSeen'
    BY <1>5 DEF CasFail, TimesAreSeen, ClockInv, TypeOK
  <2>2. QED
    BY <1>1, <1>5, <2>1
       DEF CasFail, ClockInv, RemotesHeldFit, IssuedBelow, StampsIncrease,
           ObservedBelow, ObservedIsBehind, TimeIsNotInvented, LessEq
<1>6. ASSUME NEW t \in Threads, CasOk(t)
      PROVE  ClockInv' /\ LessEq(state, state')
  <2> DEFINE entry == [op |-> op[t], remote |-> remote[t], stamp |-> NextOf(t)]
             n == Len(issued)
  <2>1. /\ NextOf(t) \in Packed
        /\ state' = NextOf(t)
        /\ Advances(state, state')
        /\ state'.physical_ms \in seen
        /\ op[t] = "observe" =>
             /\ remote[t].physical_ms <= state'.physical_ms
             /\ Less(remote[t], state') \/ state'.logical = LogicalMax
    BY <1>6, SwapAdvances DEF ClockInv
  <2>2. state \in Packed /\ state' \in Packed /\ n \in Nat
    BY <2>1 DEF ClockInv, TypeOK
  <2>3. /\ Len(issued') = n + 1
        /\ issued'[n + 1] = entry
        /\ \A i \in 1..n : issued'[i] = issued[i]
    BY <1>6 DEF CasOk, ClockInv, TypeOK
  <2>4. /\ entry.stamp = state' /\ entry.op = op[t] /\ entry.remote = remote[t]
        /\ UNCHANGED <<op, remote, physical_now, seen>>
        /\ \A s \in Threads : pc'[s] # "idle" => pc[s] # "idle"
    BY <1>6, <2>1 DEF CasOk, ClockInv, TypeOK
  <2> HIDE DEF entry, n
  <2>5. IssuedBelow'
    <3> SUFFICES ASSUME NEW i \in 1..(n + 1)
                 PROVE  issued'[i].stamp \in Packed /\ LessEq(issued'[i].stamp, state')
      BY <2>3 DEF IssuedBelow
    <3>1. CASE i = n + 1
      BY <2>2, <2>3, <2>4, <3>1 DEF LessEq
    <3>2. CASE i \in 1..n
      <4>1. issued[i].stamp \in Packed /\ LessEq(issued[i].stamp, state)
        BY <3>2 DEF ClockInv, IssuedBelow, n
      <4>2. QED
        BY <2>1, <2>2, <2>3, <3>2, <4>1, AdvanceOrder
    <3>3. QED
      BY <2>2, <3>1, <3>2
  <2>6. StampsIncrease'
    <3> SUFFICES ASSUME NEW i \in 1..(n + 1), NEW j \in 1..(n + 1), i < j
                 PROVE  Advances(issued'[i].stamp, issued'[j].stamp)
      BY <2>3 DEF StampsIncrease, Advances
    <3>1. i \in 1..n
      BY <2>2
    <3>2. CASE j = n + 1
      <4>1. issued[i].stamp \in Packed /\ LessEq(issued[i].stamp, state)
        BY <3>1 DEF ClockInv, IssuedBelow, n
      <4>2. QED
        BY <2>1, <2>2, <2>3, <2>4, <3>1, <3>2, <4>1, AdvanceOrder
    <3>3. CASE j \in 1..n
      BY <2>3, <3>1, <3>3 DEF ClockInv, StampsIncrease, Advances, n
    <3>4. QED
      BY <2>2, <3>2, <3>3
  <2>7. ObservedBelow'
    <3> SUFFICES ASSUME NEW i \in 1..(n + 1), issued'[i].op = "observe"
                 PROVE  /\ issued'[i].remote.physical_ms <= state'.physical_ms
                        /\ \/ Less(issued'[i].remote, state')
                           \/ state'.logical = LogicalMax
      BY <2>3 DEF ObservedBelow
    <3>1. CASE i = n + 1
      BY <2>1, <2>3, <2>4, <3>1
    <3>2. CASE i \in 1..n
      <4>1. issued[i].remote \in Hlc
        <5>1. issued[i] \in Call
          BY <3>2 DEF ClockInv, TypeOK, n
        <5>2. QED
          BY <5>1 DEF Call
      <4>2. i \in 1..Len(issued) /\ issued[i].op = "observe"
        BY <2>3, <3>2 DEF n
      <4>3. /\ issued[i].remote.physical_ms <= state.physical_ms
            /\ Less(issued[i].remote, state) \/ state.logical = LogicalMax
        BY <4>2 DEF ClockInv, ObservedBelow
      <4>4. QED
        BY <2>1, <2>2, <2>3, <3>2, <4>1, <4>3, ObservedOrder
    <3>3. QED
      BY <2>2, <3>1, <3>2
  <2>8. ObservedIsBehind'
    <3> SUFFICES ASSUME NEW i \in 1..(n + 1), NEW j \in 1..(n + 1), i <= j,
                        issued'[i].op = "observe"
                 PROVE  \/ Less(issued'[i].remote, issued'[j].stamp)
                        \/ issued'[j].stamp.logical = LogicalMax
      BY <2>3 DEF ObservedIsBehind
    <3>1. CASE j = n + 1
      BY <2>3, <2>4, <2>7, <3>1 DEF ObservedBelow
    <3>2. CASE j \in 1..n
      <4>1. i \in 1..n
        BY <2>2, <3>2
      <4>2. QED
        BY <2>3, <3>2, <4>1 DEF ClockInv, ObservedIsBehind, n
    <3>3. QED
      BY <2>2, <3>1, <3>2
  <2>9. TimesAreSeen' /\ RemotesHeldFit'
    BY <2>1, <2>4 DEF TimesAreSeen, RemotesHeldFit, ClockInv
  <2>10. TimeIsNotInvented'
    <3> SUFFICES ASSUME NEW i \in 1..(n + 1)
                 PROVE  issued'[i].stamp.physical_ms \in seen
      BY <2>3, <2>4 DEF TimeIsNotInvented
    <3>1. QED
      BY <2>1, <2>2, <2>3, <2>4 DEF ClockInv, TimeIsNotInvented, n
  <2>11. LessEq(state, state')
    BY <2>1 DEF LessEq, Advances
  <2>12. QED
    BY <1>1, <2>5, <2>6, <2>7, <2>8, <2>9, <2>10, <2>11 DEF ClockInv
<1>7. CASE UNCHANGED vars
  BY <1>1, <1>7
     DEF vars, ClockInv, RemotesHeldFit, IssuedBelow, StampsIncrease,
         ObservedBelow, ObservedIsBehind, TimesAreSeen, TimeIsNotInvented, LessEq
<1>8. QED
  BY <1>2, <1>3, <1>4, <1>5, <1>6, <1>7 DEF Next

\* ClockInv holds initially.
LEMMA ClockInit == Init => ClockInv
BY LimitsAssumption, InputsAssumption
   DEF Init, ClockInv, TypeOK, Hlc, Packed, RemotesHeldFit, IssuedBelow,
       StampsIncrease, ObservedBelow, ObservedIsBehind, TimesAreSeen,
       TimeIsNotInvented

\* The shared word never moves back, for any interleaving of any number of
\* threads and any wall clock, as long as observed remotes fit 48 bits.
THEOREM ClockMonotone ==
    ASSUME RemotesFit PROVE Spec => ClockNeverGoesBack
<1>1. ClockInv /\ [Next]_vars => ClockInv' /\ [LessEq(state, state')]_vars
  BY ClockStep
<1>2. QED
  BY <1>1, ClockInit, PTL DEF Spec, ClockNeverGoesBack

\* Stamps come out in strictly increasing order until the counter is full,
\* and then only repeat the full stamp.
THEOREM StampOrder ==
    ASSUME RemotesFit PROVE Spec => []StampsIncrease
<1>1. ClockInv /\ [Next]_vars => ClockInv'
  BY ClockStep
<1>2. ClockInv => StampsIncrease
  BY DEF ClockInv
<1>3. QED
  BY <1>1, <1>2, ClockInit, PTL DEF Spec

\* Everything stamped from an observation on is later than what was observed.
THEOREM ObservationOrder ==
    ASSUME RemotesFit PROVE Spec => []ObservedIsBehind
<1>1. ClockInv /\ [Next]_vars => ClockInv'
  BY ClockStep
<1>2. ClockInv => ObservedIsBehind
  BY DEF ClockInv
<1>3. QED
  BY <1>1, <1>2, ClockInit, PTL DEF Spec

---------------------------------------------------------------------------
(* Limits in time.                                                         *)

CONSTANTS Resources, Actors, LeaseTicks, MaxLeases, MaxTime

VARIABLES now, lockRow, actor, leases

Locks == INSTANCE LockTable

\* What the lock table is configured with.
LockConstants ==
  /\ LeaseTicks \in Nat /\ MaxLeases \in Nat /\ MaxTime \in Nat
  /\ IsFiniteSet(Actors)

---------------------------------------------------------------------------
(* The lock table.                                                         *)

LockRows == [owner : Actors, id : Nat \ {0}, until : Nat] \cup {Locks!NoRow}

ActorStates == [pc : {"idle", "delete", "insert", "held"}, key : Resources \cup {"none"},
                read : Nat, id : Nat, until : Nat]

LockTypes ==
  /\ now \in 0..MaxTime
  /\ leases \in Nat
  /\ lockRow \in [Resources -> LockRows]
  /\ actor \in [Actors -> ActorStates]
  /\ \A a \in Actors : actor[a].read <= now
  /\ \A a \in Actors : actor[a].pc # "idle" => actor[a].key \in Resources
  /\ \A k \in Resources : lockRow[k].id <= leases
  /\ \A k \in Resources : lockRow[k].until <= MaxTime + LeaseTicks

\* The row of a held lease is its own, or the lease's last second has begun
\* and the row is gone or belongs to a later lease.
HeldOrLapsed(a) ==
  LET row == lockRow[actor[a].key] IN
  \/ row.id = actor[a].id /\ row.until = actor[a].until
  \/ /\ row = Locks!NoRow \/ row.id > actor[a].id
     /\ actor[a].until \div Locks!Halves <= now \div Locks!Halves

LeasesAreHeld ==
  /\ \A a \in Actors : actor[a].pc = "held" => actor[a].id \in 1..leases /\ HeldOrLapsed(a)
  /\ \A a, b \in Actors : (actor[a].pc = "held" /\ actor[b].pc = "held"
                             /\ actor[a].id = actor[b].id) => a = b

LockInv == LockTypes /\ LeasesAreHeld

\* In the order of the texts, an earlier time is of the same second or before.
LEMMA TextOrder ==
  ASSUME NEW s \in Nat, NEW t \in Nat, NEW u \in Nat, t <= u, Locks!TextBefore(s, t)
  PROVE  s \div Locks!Halves <= u \div Locks!Halves
BY DEF Locks!TextBefore, Locks!Halves

LEMMA SecondsPass ==
  ASSUME NEW s \in Nat, NEW t \in Nat, s \div Locks!Halves <= t \div Locks!Halves
  PROVE  s \div Locks!Halves <= (t + 1) \div Locks!Halves
BY DEF Locks!Halves

\* What acquire makes of an actor before its first and after its last statement.
LEMMA AskingState ==
  ASSUME NEW k \in Resources, NEW t \in Nat
  PROVE  LET s == [Locks!Resting EXCEPT !.pc = "delete", !.key = k, !.read = t]
         IN  s \in ActorStates /\ s.pc = "delete" /\ s.key = k /\ s.read = t
BY DEF ActorStates, Locks!Resting

LEMMA HoldingState ==
  ASSUME NEW x \in ActorStates, NEW i \in Nat, NEW u \in Nat
  PROVE  LET s == [x EXCEPT !.pc = "held", !.id = i, !.until = u]
         IN  /\ s \in ActorStates /\ s.pc = "held" /\ s.key = x.key
             /\ s.read = x.read /\ s.id = i /\ s.until = u
BY DEF ActorStates

\* LockInv is inductive: no delete, failed insert, crash or late release of
\* another actor takes a lease away before its last second.
LEMMA LockStep ==
  ASSUME LockConstants, LockInv, [Locks!Next]_Locks!vars
  PROVE  LockInv'
<1> USE DEF LockConstants, LockInv, LockTypes, LockRows, ActorStates, Locks!NoRow, Locks!Resting
<1>1. CASE Locks!Tick
  <2>1. LockTypes'
    BY <1>1 DEF Locks!Tick
  <2>2. ASSUME NEW a \in Actors, actor[a].pc = "held"
        PROVE  actor[a].id \in 1..leases /\ HeldOrLapsed(a)'
    <3>1. actor[a].until \div Locks!Halves <= now \div Locks!Halves
            => actor[a].until \div Locks!Halves <= now' \div Locks!Halves
      BY <1>1, SecondsPass DEF Locks!Tick
    <3>2. QED
      BY <1>1, <2>2, <3>1 DEF Locks!Tick, LeasesAreHeld, HeldOrLapsed
  <2>3. LeasesAreHeld'
    BY <1>1, <2>2 DEF Locks!Tick, LeasesAreHeld
  <2>4. QED
    BY <2>1, <2>3
<1>2. ASSUME NEW a \in Actors, NEW k \in Resources, Locks!Acquire(a, k) PROVE LockInv'
  <2> DEFINE asks == [Locks!Resting EXCEPT !.pc = "delete", !.key = k, !.read = now]
  <2>1. /\ actor' = [actor EXCEPT ![a] = asks] /\ actor[a].pc = "idle"
        /\ UNCHANGED <<now, lockRow, leases>>
    BY <1>2 DEF Locks!Acquire
  <2>2. asks \in ActorStates /\ asks.pc = "delete" /\ asks.key = k /\ asks.read = now
    <3> HIDE DEF ActorStates, Locks!Resting
    <3>1. now \in Nat
      OBVIOUS
    <3>2. QED
      BY <3>1, AskingState
  <2> HIDE DEF asks
  <2>3. LockTypes'
    BY <2>1, <2>2
  <2>4. LeasesAreHeld'
    BY <2>1, <2>2 DEF LeasesAreHeld, HeldOrLapsed
  <2>5. QED
    BY <2>3, <2>4
<1>3. ASSUME NEW a \in Actors, Locks!DeleteExpired(a) PROVE LockInv'
  <2>1. LockTypes'
    BY <1>3 DEF Locks!DeleteExpired
  <2>2. \A k \in Resources :
          \/ lockRow'[k] = lockRow[k]
          \/ lockRow'[k] = Locks!NoRow /\ lockRow[k].until \div Locks!Halves <= now \div Locks!Halves
    BY <1>3, TextOrder DEF Locks!DeleteExpired
  <2>3. /\ UNCHANGED <<now, leases>> /\ actor' = [actor EXCEPT ![a].pc = "insert"]
        /\ actor[a].pc = "delete"
    BY <1>3 DEF Locks!DeleteExpired
  <2>4. LeasesAreHeld'
    BY <2>2, <2>3 DEF LeasesAreHeld, HeldOrLapsed
  <2>5. QED
    BY <2>1, <2>4
<1>4. ASSUME NEW a \in Actors, Locks!Insert(a) PROVE LockInv'
  <2> DEFINE k == actor[a].key
             until == actor[a].read + LeaseTicks
             row == [owner |-> a, id |-> leases + 1, until |-> until]
             won == [actor[a] EXCEPT !.pc = "held", !.id = leases + 1, !.until = until]
  <2>1. k \in Resources /\ actor[a].pc = "insert" /\ UNCHANGED now
    BY <1>4 DEF Locks!Insert
  <2>2. CASE lockRow[k] # Locks!NoRow
    <3>1. actor' = [actor EXCEPT ![a] = Locks!Resting] /\ UNCHANGED <<now, lockRow, leases>>
      BY <1>4, <2>2 DEF Locks!Insert
    <3>2. LockTypes'
      BY <3>1
    <3>3. LeasesAreHeld'
      BY <3>1 DEF LeasesAreHeld, HeldOrLapsed
    <3>4. QED
      BY <3>2, <3>3
  <2>3. CASE lockRow[k] = Locks!NoRow
    <3>1. /\ lockRow' = [lockRow EXCEPT ![k] = row]
          /\ actor' = [actor EXCEPT ![a] = won]
          /\ leases' = leases + 1
      BY <1>4, <2>1, <2>3 DEF Locks!Insert
    <3>2. actor[a] \in ActorStates /\ actor[a].read <= now
      OBVIOUS
    <3>3. until \in Nat /\ until <= MaxTime + LeaseTicks
      BY <3>2
    <3> HIDE DEF until
    <3>4. row \in LockRows /\ row.id = leases + 1 /\ row.until = until
      BY <3>3
    <3>5. /\ won \in ActorStates /\ won.pc = "held" /\ won.key = k
          /\ won.id = leases + 1 /\ won.until = until /\ won.read = actor[a].read
      <4>1. leases + 1 \in Nat
        OBVIOUS
      <4>2. QED
        BY <3>2, <3>3, <4>1, HoldingState
    <3> HIDE DEF row, won
    <3>6. LockTypes'
      BY <2>1, <3>1, <3>3, <3>4, <3>5
    <3>7. LeasesAreHeld'
      BY <2>1, <2>3, <3>1, <3>3, <3>4, <3>5 DEF LeasesAreHeld, HeldOrLapsed
    <3>8. QED
      BY <3>6, <3>7
  <2>4. QED
    BY <2>2, <2>3
<1>5. ASSUME NEW a \in Actors, Locks!Release(a) PROVE LockInv'
  <2>1. LockTypes'
    BY <1>5 DEF Locks!Release
  <2>2. LeasesAreHeld'
    BY <1>5 DEF Locks!Release, LeasesAreHeld, HeldOrLapsed
  <2>3. QED
    BY <2>1, <2>2
<1>6. ASSUME NEW a \in Actors, Locks!Crash(a) PROVE LockInv'
  <2>1. LockTypes'
    BY <1>6 DEF Locks!Crash
  <2>2. LeasesAreHeld'
    BY <1>6 DEF Locks!Crash, LeasesAreHeld, HeldOrLapsed
  <2>3. QED
    BY <2>1, <2>2
<1>7. CASE UNCHANGED Locks!vars
  BY <1>7 DEF Locks!vars, LeasesAreHeld, HeldOrLapsed
<1>8. QED
  BY <1>1, <1>2, <1>3, <1>4, <1>5, <1>6, <1>7 DEF Locks!Next

\* Two actors hold valid leases on a resource only within the second in which
\* the older one ends, whatever expires, crashes or is released late.
THEOREM LocksExclude ==
  ASSUME LockConstants
  PROVE  Locks!Spec => [](Locks!TypeOK /\ Locks!OneHolder)
<1>1. Locks!Init => LockInv
  BY DEF LockConstants, Locks!Init, LockInv, LockTypes, LeasesAreHeld, LockRows, ActorStates,
     Locks!NoRow, Locks!Resting
<1>2. LockInv /\ [Locks!Next]_Locks!vars => LockInv'
  BY LockStep
<1>3. LockInv => Locks!TypeOK
  BY DEF LockInv, LockTypes, LockRows, ActorStates, Locks!TypeOK
<1>4. LockInv => Locks!OneHolder
  BY DEF LockInv, LockTypes, LockRows, Locks!NoRow, LeasesAreHeld, HeldOrLapsed, Locks!OneHolder,
     Locks!Valid, ActorStates
<1>5. QED
  BY <1>1, <1>2, <1>3, <1>4, PTL DEF Locks!Spec

\* Actors inside acquire, each of which may still add one lease.
Asking == {a \in Actors : actor[a].pc \in {"delete", "insert"}}

\* No lease number passes the bound the abstract lease is given.
NumbersFit == leases + Cardinality(Asking) <= MaxLeases + Cardinality(Actors)

LEMMA AskingIsFinite ==
  ASSUME LockConstants
  PROVE  /\ IsFiniteSet(Asking) /\ Cardinality(Asking) \in Nat
         /\ Cardinality(Actors) \in Nat /\ Cardinality(Asking) <= Cardinality(Actors)
<1>1. IsFiniteSet(Actors) /\ Asking \subseteq Actors
  BY DEF LockConstants, Asking
<1>2. QED
  BY <1>1, FS_Subset, FS_CardinalityType

\* NumbersFit is inductive: acquire is entered below MaxLeases, and an insert
\* that adds a lease leaves it.
LEMMA NumbersStep ==
  ASSUME LockConstants, LockInv, NumbersFit, [Locks!Next]_Locks!vars
  PROVE  NumbersFit'
<1> USE DEF LockInv, LockTypes, LockConstants
<1>1. /\ IsFiniteSet(Asking) /\ Cardinality(Asking) \in Nat /\ Cardinality(Actors) \in Nat
      /\ IsFiniteSet(Asking') /\ Cardinality(Asking') \in Nat
      /\ Cardinality(Asking') <= Cardinality(Actors)
  <2>1. IsFiniteSet(Actors) /\ Asking' \subseteq Actors
    BY DEF Asking
  <2>2. QED
    BY <2>1, AskingIsFinite, FS_Subset, FS_CardinalityType
<1>2. ASSUME Asking' \subseteq Asking PROVE Cardinality(Asking') <= Cardinality(Asking)
  BY <1>1, <1>2, FS_Subset
<1>3. ASSUME NEW a \in Actors, NEW k \in Resources, Locks!Acquire(a, k) PROVE NumbersFit'
  BY <1>1, <1>3 DEF Locks!Acquire, NumbersFit
<1>4. ASSUME NEW a \in Actors, Locks!Insert(a) PROVE NumbersFit'
  <2>1. a \in Asking /\ Asking' = Asking \ {a} /\ leases' \in {leases, leases + 1}
    BY <1>4 DEF Locks!Insert, Asking, Locks!Resting, ActorStates
  <2>2. Cardinality(Asking') = Cardinality(Asking) - 1
    BY <1>1, <2>1, FS_RemoveElement
  <2>3. QED
    BY <1>1, <2>1, <2>2 DEF NumbersFit
<1>5. ASSUME UNCHANGED leases, Asking' \subseteq Asking PROVE NumbersFit'
  BY <1>1, <1>2, <1>5 DEF NumbersFit
<1>6. ASSUME NEW a \in Actors, Locks!DeleteExpired(a) \/ Locks!Release(a) \/ Locks!Crash(a)
      PROVE  UNCHANGED leases /\ Asking' \subseteq Asking
  BY <1>6 DEF Locks!DeleteExpired, Locks!Release, Locks!Crash, Asking, Locks!Resting, ActorStates
<1>7. ASSUME Locks!Tick \/ UNCHANGED Locks!vars PROVE UNCHANGED leases /\ Asking' \subseteq Asking
  BY <1>7 DEF Locks!Tick, Locks!vars, Asking
<1>8. QED
  BY <1>3, <1>4, <1>5, <1>6, <1>7 DEF Locks!Next

LEMMA LocksCardinality == \A S : Locks!Cardinality(S) = Cardinality(S)
BY DEF Locks!Cardinality, Cardinality

\* Every statement is a step of the abstract lease, or none.
LEMMA LeaseStep ==
  ASSUME LockConstants, LockInv, NumbersFit', [Locks!Next]_Locks!vars
  PROVE  [Locks!Granted!Next]_Locks!Granted!vars
<1> USE DEF LockConstants, LockInv, LockTypes, Locks!Granted!vars
<1>1. CASE Locks!Tick
  <2>1. Locks!Granted!Pass
    BY <1>1 DEF Locks!Tick, Locks!Granted!Pass, Locks!Grants, Locks!Tickets
  <2>2. QED
    BY <2>1 DEF Locks!Granted!Next
<1>2. ASSUME NEW a \in Actors, NEW k \in Resources, Locks!Acquire(a, k)
      PROVE  UNCHANGED Locks!Granted!vars
  BY <1>2 DEF Locks!Acquire, Locks!Grants, Locks!Tickets, Locks!Resting, ActorStates
<1>3. ASSUME NEW a \in Actors, Locks!DeleteExpired(a) PROVE Locks!Granted!Next
  <2> DEFINE X == {k \in Resources : lockRow[k] # Locks!NoRow
                                       /\ Locks!TextBefore(lockRow[k].until, actor[a].read)}
  <2>1. UNCHANGED now /\ lockRow' = [k \in Resources |-> IF k \in X THEN Locks!NoRow ELSE lockRow[k]]
    BY <1>3 DEF Locks!DeleteExpired
  <2>2. UNCHANGED Locks!Tickets
    BY <1>3 DEF Locks!DeleteExpired, Locks!Tickets, ActorStates
  <2>3. \A k \in X : Locks!Granted!Second(Locks!Grants[k].until) <= Locks!Granted!Second(now)
    <3> SUFFICES ASSUME NEW k \in X PROVE lockRow[k].until \div Locks!Halves <= now \div Locks!Halves
      BY DEF Locks!Granted!Second, Locks!Grants
    <3>1. lockRow[k].until \in Nat /\ actor[a].read \in Nat /\ now \in Nat
      BY DEF LockRows, Locks!NoRow, ActorStates
    <3>2. QED
      BY <3>1, TextOrder
  <2>4. Locks!Grants' = [k \in Resources |-> IF k \in X THEN Locks!Granted!Free ELSE Locks!Grants[k]]
    BY <2>1 DEF Locks!Grants, Locks!Granted!Free, Locks!NoRow
  <2>5. X \in SUBSET Resources
    OBVIOUS
  <2> HIDE DEF X
  <2>6. Locks!Granted!Lapse(X)
    BY <2>1, <2>2, <2>3, <2>4 DEF Locks!Granted!Lapse
  <2>7. QED
    BY <2>5, <2>6 DEF Locks!Granted!Next
<1>4. ASSUME NEW a \in Actors, Locks!Insert(a) PROVE Locks!Granted!Next \/ UNCHANGED Locks!Granted!vars
  <2> DEFINE k == actor[a].key
             until == actor[a].read + LeaseTicks
  <2>1. k \in Resources /\ actor[a].pc = "insert" /\ UNCHANGED now
    BY <1>4 DEF Locks!Insert
  <2>2. CASE lockRow[k] # Locks!NoRow
    BY <1>4, <2>1, <2>2 DEF Locks!Insert, Locks!Grants, Locks!Tickets, Locks!Resting, ActorStates
  <2>3. CASE lockRow[k] = Locks!NoRow
    <3>1. /\ lockRow' = [lockRow EXCEPT ![k] = [owner |-> a, id |-> leases + 1, until |-> until]]
          /\ actor' = [actor EXCEPT ![a].pc = "held", ![a].id = leases + 1, ![a].until = until]
          /\ leases' = leases + 1
      BY <1>4, <2>3 DEF Locks!Insert
    <3>2. until \in 0..MaxTime + LeaseTicks
      BY DEF ActorStates
    <3>3. leases + 1 \in 1..MaxLeases + Cardinality(Actors)
      <4>1. /\ Cardinality(Asking') \in Nat /\ Cardinality(Actors) \in Nat
        <5>1. Asking' \subseteq Actors /\ IsFiniteSet(Actors)
          BY DEF Asking
        <5>2. QED
          BY <5>1, FS_Subset, FS_CardinalityType
      <4>2. QED
        BY <3>1, <4>1 DEF NumbersFit
    <3>4. Locks!Grants[k] = Locks!Granted!Free /\ Locks!Tickets[a] = Locks!Granted!NoTicket
      BY <2>1, <2>3 DEF Locks!Grants, Locks!Tickets, Locks!Granted!Free, Locks!Granted!NoTicket, Locks!NoRow
    <3>5. \A y \in Resources : Locks!Grants[y].number < leases + 1
      BY DEF Locks!Grants, LockRows, Locks!NoRow
    <3>6. Locks!Grants' = [Locks!Grants EXCEPT ![k] = [user |-> a, number |-> leases + 1, until |-> until]]
      BY <2>1, <3>1 DEF Locks!Grants
    <3>7. Locks!Tickets' = [Locks!Tickets EXCEPT ![a] = [thing |-> k, number |-> leases + 1]]
      BY <2>1, <3>1 DEF Locks!Tickets, ActorStates
    <3> HIDE DEF k, until
    <3>8. Locks!Granted!Give(k, a, leases + 1, until)
      BY <2>1, <3>4, <3>5, <3>6, <3>7 DEF Locks!Granted!Give
    <3>9. QED
      BY <2>1, <3>2, <3>3, <3>8, LocksCardinality DEF Locks!Granted!Next
  <2>4. QED
    BY <2>2, <2>3
<1>5. ASSUME NEW a \in Actors, Locks!Release(a) PROVE Locks!Granted!Next
  <2>1. Locks!Tickets[a] = [thing |-> actor[a].key, number |-> actor[a].id] /\ actor[a].id # 0
    BY <1>5 DEF Locks!Release, Locks!Tickets, LeasesAreHeld
  <2>2. Locks!Tickets[a] # Locks!Granted!NoTicket
    BY <2>1 DEF Locks!Granted!NoTicket
  <2>3. Locks!Grants' = [k \in Resources |-> IF Locks!Grants[k].number = Locks!Tickets[a].number
                                       THEN Locks!Granted!Free ELSE Locks!Grants[k]]
    BY <1>5, <2>1 DEF Locks!Release, Locks!Grants, Locks!Granted!Free, Locks!NoRow
  <2>4. Locks!Tickets' = [Locks!Tickets EXCEPT ![a] = Locks!Granted!NoTicket]
    BY <1>5 DEF Locks!Release, Locks!Tickets, Locks!Resting, Locks!Granted!NoTicket, ActorStates
  <2>5. Locks!Granted!Return(a)
    BY <1>5, <2>2, <2>3, <2>4 DEF Locks!Release, Locks!Granted!Return
  <2>6. QED
    BY <2>5 DEF Locks!Granted!Next
<1>6. ASSUME NEW a \in Actors, Locks!Crash(a) PROVE Locks!Granted!Next
  <2>1. Locks!Tickets' = [Locks!Tickets EXCEPT ![a] = Locks!Granted!NoTicket] /\ UNCHANGED Locks!Grants
    BY <1>6 DEF Locks!Crash, Locks!Tickets, Locks!Resting, Locks!Granted!NoTicket, Locks!Grants
  <2>2. Locks!Granted!Forget(a)
    BY <1>6, <2>1 DEF Locks!Crash, Locks!Granted!Forget
  <2>3. QED
    BY <2>2 DEF Locks!Granted!Next
<1>7. CASE UNCHANGED Locks!vars
  BY <1>7 DEF Locks!vars, Locks!Grants, Locks!Tickets
<1>8. QED
  BY <1>1, <1>2, <1>3, <1>4, <1>5, <1>6, <1>7 DEF Locks!Next

\* The table implements the abstract lease: every INSERT gives a free resource,
\* DELETE of expired rows takes only what has lapsed, and a release by id takes
\* away no grant but its own.
ImplementsLease == Locks!ImplementsLease

\* acquire, release and the deletes of expired rows implement the abstract
\* lease of module Lease: a grant is given while the resource is free, ends by
\* its own user or in its last second, and by nothing else.
THEOREM LocksImplementLease ==
  ASSUME LockConstants
  PROVE  Locks!Spec => ImplementsLease
<1>1. Locks!Init => Locks!Granted!Init
  BY DEF Locks!Init, Locks!Granted!Init, Locks!Grants, Locks!Tickets, Locks!NoRow, Locks!Resting, Locks!Granted!Free, Locks!Granted!NoTicket
<1>2. Locks!Init => LockInv /\ NumbersFit
  <2> SUFFICES ASSUME Locks!Init PROVE LockInv /\ NumbersFit
    OBVIOUS
  <2>1. LockInv
    BY DEF LockConstants, Locks!Init, LockInv, LockTypes, LeasesAreHeld, LockRows, ActorStates,
       Locks!NoRow, Locks!Resting
  <2>2. NumbersFit
    BY AskingIsFinite DEF Locks!Init, NumbersFit, LockConstants
  <2>3. QED
    BY <2>1, <2>2
<1>3. LockInv /\ NumbersFit /\ [Locks!Next]_Locks!vars => (LockInv /\ NumbersFit)'
  BY LockStep, NumbersStep
<1>4. LockInv /\ NumbersFit' /\ [Locks!Next]_Locks!vars => [Locks!Granted!Next]_Locks!Granted!vars
  BY LeaseStep
<1>5. QED
  BY <1>1, <1>2, <1>3, <1>4, PTL DEF Locks!Spec, ImplementsLease, Locks!ImplementsLease,
     Locks!Granted!Spec

---------------------------------------------------------------------------
(* The circuit breaker.                                                    *)

CONSTANTS Callers, FailureThreshold, OpenDuration, MaxInstant

VARIABLES instant, breaker, inFlight, trip, healed, admitted

Breaker == INSTANCE CircuitBreaker

\* What the breaker is configured with: counts and durations.
BreakerConstants ==
  FailureThreshold \in Nat /\ OpenDuration \in Nat /\ MaxInstant \in Nat

BreakerTypes ==
  /\ instant \in Nat \ {0} /\ trip \in 0..instant /\ healed \in BOOLEAN
  /\ breaker \in [state : {"closed", "open", "half_open"}, failures : Nat, opened : Nat]
  /\ inFlight \subseteq Callers
  /\ admitted \in [at : Nat, trip : Nat, healed : BOOLEAN]

\* Until a success heals the trip, the breaker remembers when it happened and
\* is half open only once the open duration is over.
TripIsRemembered ==
  (trip > 0 /\ ~healed) =>
    /\ breaker.state \in {"open", "half_open"}
    /\ breaker.opened = trip
    /\ breaker.state = "half_open" => instant >= trip + OpenDuration

BreakerInv == BreakerTypes /\ TripIsRemembered /\ Breaker!OpenKeepsOut

\* No call is let in within the open duration of the failure that opened the
\* circuit, whichever call reported it and however late, unless a success was
\* reported in between.
THEOREM BreakerKeepsOut ==
  ASSUME BreakerConstants
  PROVE  Breaker!Spec => [](Breaker!TypeOK /\ Breaker!OpenKeepsOut)
<1> USE DEF BreakerConstants, BreakerInv, BreakerTypes, TripIsRemembered, Breaker!OpenKeepsOut
<1>1. Breaker!Init => BreakerInv
  BY DEF Breaker!Init
<1>2. BreakerInv /\ [Breaker!Next]_Breaker!vars => BreakerInv'
  <2> SUFFICES ASSUME BreakerInv, [Breaker!Next]_Breaker!vars PROVE BreakerInv'
    OBVIOUS
  <2>1. CASE Breaker!Pass
    BY <2>1 DEF Breaker!Pass
  <2>2. ASSUME NEW c \in Callers, Breaker!Allow(c) PROVE BreakerInv'
    BY <2>2 DEF Breaker!Allow, Breaker!Current
  <2>3. ASSUME NEW c \in Callers, Breaker!OnSuccess(c) PROVE BreakerInv'
    BY <2>3 DEF Breaker!OnSuccess
  <2>4. ASSUME NEW c \in Callers, Breaker!OnFailure(c) PROVE BreakerInv'
    <3> DEFINE count == breaker.failures + 1
    <3>1. CASE count >= FailureThreshold
      <4>1. /\ breaker' = [state |-> "open", failures |-> count, opened |-> instant]
            /\ trip' = instant /\ healed' = FALSE
            /\ inFlight' = inFlight \ {c} /\ UNCHANGED <<instant, admitted>>
        BY <2>4, <3>1 DEF Breaker!OnFailure, Breaker!OpenedAt
      <4>2. count \in Nat
        OBVIOUS
      <4> HIDE DEF count
      <4>3. BreakerTypes'
        <5>1. instant' \in Nat \ {0} /\ trip' \in 0..instant'
          BY <4>1
        <5>2. healed' \in BOOLEAN
          BY <4>1
        <5>3. breaker' \in [state : {"closed", "open", "half_open"}, failures : Nat, opened : Nat]
          BY <4>1, <4>2
        <5>4. QED
          BY <4>1, <5>1, <5>2, <5>3
      <4>4. TripIsRemembered'
        BY <4>1
      <4>5. QED
        BY <4>1, <4>3, <4>4
    <3>2. CASE ~(count >= FailureThreshold)
      <4>1. /\ breaker' = [breaker EXCEPT !.failures = count]
            /\ inFlight' = inFlight \ {c} /\ UNCHANGED <<trip, healed, instant, admitted>>
        BY <2>4, <3>2 DEF Breaker!OnFailure
      <4>2. count \in Nat
        OBVIOUS
      <4> HIDE DEF count
      <4>3. /\ breaker'.state = breaker.state /\ breaker'.opened = breaker.opened
            /\ breaker' \in [state : {"closed", "open", "half_open"}, failures : Nat, opened : Nat]
        BY <4>1, <4>2
      <4>4. QED
        BY <4>1, <4>3
    <3>3. QED
      BY <3>1, <3>2
  <2>5. CASE UNCHANGED Breaker!vars
    BY <2>5 DEF Breaker!vars
  <2>6. QED
    BY <2>1, <2>2, <2>3, <2>4, <2>5 DEF Breaker!Next
<1>3. BreakerInv => Breaker!TypeOK /\ Breaker!OpenKeepsOut
  BY DEF Breaker!TypeOK
<1>4. QED
  BY <1>1, <1>2, <1>3, PTL DEF Breaker!Spec

---------------------------------------------------------------------------
(* The trigger scheduler.                                                  *)

CONSTANTS Triggers, Schedule, BadCron, MaxClock, MaxRegistrations

VARIABLES
  wall, reg, since, covered, lowest, firing, spawn, spawnEvent, spawnRow, registrations

Cron == INSTANCE TriggerScheduler

\* A schedule names times after the epoch.
CronConstants ==
  /\ MaxClock \in Nat \ {0} /\ MaxRegistrations \in Nat
  /\ Schedule \in [Triggers -> SUBSET Nat]

CronTypes ==
  /\ wall \in 1..MaxClock
  /\ reg \in [Triggers -> [present : BOOLEAN, enabled : BOOLEAN, last : 0..MaxClock]]
  /\ since \in [Triggers -> SUBSET Nat] /\ covered \in [Triggers -> SUBSET Nat]
  /\ \A x \in Triggers : since[x] \subseteq Schedule[x]
  /\ firing \subseteq Cron!Fires /\ spawnEvent \subseteq Cron!Fires
  /\ spawnRow \subseteq Cron!Fires
  /\ spawn \in [Cron!Fires -> {"none", "row", "done", "failed"}]

\* A spawn past its event has the event; only one that is done has its row.
SpawnsInOrder ==
  /\ \A f \in Cron!Fires : spawn[f] # "none" => f \in spawnEvent
  /\ \A f \in Cron!Fires : f \in spawnEvent => spawn[f] # "none"
  /\ \A f \in Cron!Fires : f \in spawnRow => f \in spawnEvent
  /\ \A f \in Cron!Fires : spawn[f] = "done" => f \in spawnRow

\* A time that fell due and no fire stands for, though one was stamped past
\* it, was overtaken by a clock set back behind it since that fire.
SkippedWasSetBack ==
  /\ lowest \in [Triggers -> Nat]
  /\ \A x \in Triggers : lowest[x] <= wall
  /\ \A x \in Triggers : \A s \in since[x] \ covered[x] : s <= reg[x].last => lowest[x] < s

CronInv == CronTypes /\ SpawnsInOrder /\ SkippedWasSetBack

LEMMA CronStep ==
  ASSUME CronConstants, CronInv, [Cron!Next]_Cron!vars
  PROVE  CronInv'
<1> USE DEF CronConstants, CronInv, CronTypes
<1>1. ASSUME NEW t \in 1..MaxClock, Cron!SetClock(t) PROVE CronInv'
  BY <1>1 DEF Cron!SetClock, SpawnsInOrder, SkippedWasSetBack
<1>2. ASSUME NEW x \in Triggers, Cron!Register(x) PROVE CronInv'
  BY <1>2 DEF Cron!Register, SpawnsInOrder, SkippedWasSetBack, Cron!Never
<1>3. ASSUME NEW x \in Triggers, Cron!Disable(x) PROVE CronInv'
  BY <1>3 DEF Cron!Disable, SpawnsInOrder, SkippedWasSetBack
<1>4. CASE Cron!Tick
  <2>1. (CronTypes /\ SpawnsInOrder)'
    <3>1. reg' \in [Triggers -> [present : BOOLEAN, enabled : BOOLEAN, last : 0..MaxClock]]
      BY <1>4 DEF Cron!Tick, Cron!LastFired
    <3>2. /\ since' = since /\ wall' = wall
          /\ covered' \in [Triggers -> SUBSET Nat]
          /\ firing' \subseteq Cron!Fires
      BY <1>4 DEF Cron!Tick, Cron!Fires
    <3>3. QED
      BY <1>4, <3>1, <3>2 DEF Cron!Tick, SpawnsInOrder
  <2>2. SkippedWasSetBack'
    <3>1. /\ lowest' \in [Triggers -> Nat]
          /\ \A x \in Triggers : lowest'[x] <= wall'
      BY <1>4 DEF Cron!Tick, SkippedWasSetBack
    <3>2. ASSUME NEW x \in Triggers, NEW s \in since'[x] \ covered'[x], s <= reg'[x].last
          PROVE  lowest'[x] < s
      <4>1. since' = since /\ s \in Nat
        BY <1>4 DEF Cron!Tick
      <4>2. CASE Cron!Due(x)
        <5>1. covered'[x] = covered[x] \cup (since[x] \cap 0..wall) /\ reg'[x].last = wall
          BY <1>4, <4>2 DEF Cron!Tick, Cron!LastFired
        <5>2. QED
          BY <3>2, <4>1, <5>1
      <4>3. CASE ~Cron!Due(x)
        <5>1. covered'[x] = covered[x] /\ reg'[x] = reg[x] /\ lowest'[x] = lowest[x]
          BY <1>4, <4>3 DEF Cron!Tick
        <5>2. QED
          BY <3>2, <4>1, <5>1 DEF SkippedWasSetBack
      <4>4. QED
        BY <4>2, <4>3
    <3>3. QED
      BY <3>1, <3>2 DEF SkippedWasSetBack
  <2>3. QED
    BY <2>1, <2>2
<1>5. ASSUME NEW f \in firing, Cron!AppendEvent(f) PROVE CronInv'
  BY <1>5 DEF Cron!AppendEvent, SpawnsInOrder, SkippedWasSetBack
<1>6. ASSUME NEW f \in Cron!Fires, NEW ok \in BOOLEAN, Cron!InsertRun(f, ok) PROVE CronInv'
  BY <1>6 DEF Cron!InsertRun, SpawnsInOrder, SkippedWasSetBack
<1>7. CASE UNCHANGED Cron!vars
  BY <1>7 DEF Cron!vars, SpawnsInOrder, SkippedWasSetBack
<1>8. QED
  BY <1>1, <1>2, <1>3, <1>4, <1>5, <1>6, <1>7 DEF Cron!Next

\* No scheduled time of an enabled trigger is lost, and a workflow_run row has
\* its event, through clocks that are set back and registrations replaced.
THEOREM CronLosesNothing ==
  ASSUME CronConstants
  PROVE  Cron!Spec => [](Cron!TypeOK /\ Cron!NoTimeIsLost /\ Cron!RunHasEvent)
<1>1. Cron!Init => CronInv
  BY DEF CronConstants, Cron!Init, CronInv, CronTypes, SpawnsInOrder, SkippedWasSetBack, Cron!Absent, Cron!Never
<1>2. CronInv /\ [Cron!Next]_Cron!vars => CronInv'
  BY CronStep
<1>3. CronInv => Cron!TypeOK /\ Cron!NoTimeIsLost /\ Cron!RunHasEvent
  <2> SUFFICES ASSUME CronInv PROVE Cron!TypeOK /\ Cron!NoTimeIsLost /\ Cron!RunHasEvent
    OBVIOUS
  <2>1. Cron!TypeOK
    BY DEF CronInv, CronTypes, Cron!TypeOK
  <2>2. Cron!NoTimeIsLost
    BY DEF CronConstants, CronInv, CronTypes, SkippedWasSetBack, Cron!NoTimeIsLost, Cron!Due
  <2>3. Cron!RunHasEvent
    BY DEF CronInv, CronTypes, SpawnsInOrder, Cron!RunHasEvent
  <2>4. QED
    BY <2>1, <2>2, <2>3
<1>4. QED
  BY <1>1, <1>2, <1>3, PTL DEF Cron!Spec

\* A tick leaves no trigger due: one fire stands for all times that passed.
THEOREM CronFiresOnce ==
  ASSUME CronConstants
  PROVE  Cron!Spec => Cron!FireOncePerTime
<1>1. Cron!Init => CronInv
  BY DEF CronConstants, Cron!Init, CronInv, CronTypes, SpawnsInOrder, SkippedWasSetBack, Cron!Absent, Cron!Never
<1>2. CronInv /\ [Cron!Next]_Cron!vars => CronInv'
  BY CronStep
<1>3. CronInv /\ [Cron!Next]_Cron!vars
        => [Cron!Tick => \A x \in Triggers : ~Cron!Due(x)']_Cron!vars
  <2> SUFFICES ASSUME CronInv, Cron!Tick, NEW x \in Triggers PROVE ~Cron!Due(x)'
    OBVIOUS
  <2>1. UNCHANGED wall /\ reg'[x] = IF Cron!Due(x) THEN [reg[x] EXCEPT !.last = wall] ELSE reg[x]
    BY DEF Cron!Tick, Cron!LastFired
  <2>2. CASE Cron!Due(x)
    <3>1. reg'[x].last = wall
      BY <2>1, <2>2 DEF CronInv, CronTypes
    <3>2. QED
      BY <2>1, <3>1 DEF CronConstants, CronInv, CronTypes, Cron!Due
  <2>3. CASE ~Cron!Due(x)
    BY <2>1, <2>3 DEF Cron!Due
  <2>4. QED
    BY <2>2, <2>3
<1>4. QED
  BY <1>1, <1>2, <1>3, PTL DEF Cron!Spec, Cron!FireOncePerTime

---------------------------------------------------------------------------
(* The key cache.                                                          *)

CONSTANTS Tasks, Issuers, Ttl, MaxKeyTime, MaxKeys

VARIABLES time, published, replacedAt, cache, task

Oidc == INSTANCE OidcCache WITH MaxTime <- MaxKeyTime

OidcConstants == Ttl \in Nat /\ MaxKeyTime \in Nat /\ MaxKeys \in Nat \ {0}

KeyEntries == [issuer : Issuers, keys : 1..MaxKeys, at : Nat, fetched : Nat]

TaskStates == [pc : {"idle", "discover", "jwks", "store", "verify"},
               issuer : Issuers \cup {Oidc!Idle.issuer}, keys : Nat, fetched : Nat, entry : Nat]

OidcTypes ==
  /\ time \in 0..MaxKeyTime
  /\ published \in [Issuers -> 1..MaxKeys]
  /\ replacedAt \in [Issuers -> [1..MaxKeys -> 0..Oidc!Never]]
  /\ cache \subseteq KeyEntries
  /\ task \in [Tasks -> TaskStates]
  /\ \A t \in Tasks : task[t].pc # "idle" => task[t].issuer \in Issuers

\* A key set fetched at a time is one the provider had published by then and
\* did not replace before.
WasCurrent(i, k, t) == k \in 1..published[i] /\ t <= time /\ t <= replacedAt[i][k]

KeysWereCurrent ==
  /\ \A i \in Issuers : \A k \in 1..MaxKeys : k >= published[i] => replacedAt[i][k] = Oidc!Never
  /\ \A c \in cache : WasCurrent(c.issuer, c.keys, c.fetched) /\ c.fetched <= c.at /\ c.at <= time
  /\ \A t \in Tasks : task[t].pc \in {"store", "verify"} =>
       WasCurrent(task[t].issuer, task[t].keys, task[t].fetched)
  /\ \A t \in Tasks : task[t].pc = "verify" =>
       /\ task[t].fetched <= task[t].entry /\ task[t].entry <= time
       /\ time <= replacedAt[task[t].issuer][task[t].keys] + Ttl
                    + (task[t].entry - task[t].fetched)

OidcInv == OidcTypes /\ Oidc!OneEntryPerIssuer /\ KeysWereCurrent

\* A step of one task: what its new state has to satisfy.
TaskFits(n) ==
  /\ n \in TaskStates
  /\ n.pc # "idle" => n.issuer \in Issuers
  /\ n.pc \in {"store", "verify"} => WasCurrent(n.issuer, n.keys, n.fetched)
  /\ n.pc = "verify" =>
       /\ n.fetched <= n.entry /\ n.entry <= time
       /\ time <= replacedAt[n.issuer][n.keys] + Ttl + (n.entry - n.fetched)

LEMMA TaskStep ==
  ASSUME OidcConstants, OidcInv, NEW t \in Tasks, NEW n, TaskFits(n),
         task' = [task EXCEPT ![t] = n], UNCHANGED <<time, published, replacedAt, cache>>
  PROVE  OidcInv'
<1>1. OidcTypes'
  BY DEF OidcInv, OidcTypes, TaskFits
<1>2. \A c \in cache : WasCurrent(c.issuer, c.keys, c.fetched)
                         => WasCurrent(c.issuer, c.keys, c.fetched)'
  BY DEF WasCurrent
<1>3. KeysWereCurrent'
  <2>1. \A v \in Tasks : task'[v] = IF v = t THEN n ELSE task[v]
    BY DEF OidcInv, OidcTypes
  <2>2. \A v \in Tasks : task'[v].pc \in {"store", "verify"} =>
          WasCurrent(task'[v].issuer, task'[v].keys, task'[v].fetched)
    BY <2>1 DEF OidcInv, KeysWereCurrent, TaskFits
  <2>3. \A v \in Tasks : task'[v].pc = "verify" =>
          /\ task'[v].fetched <= task'[v].entry /\ task'[v].entry <= time
          /\ time <= replacedAt[task'[v].issuer][task'[v].keys] + Ttl
                       + (task'[v].entry - task'[v].fetched)
    BY <2>1 DEF OidcInv, KeysWereCurrent, TaskFits
  <2>4. QED
    BY <1>2, <2>2, <2>3 DEF OidcInv, KeysWereCurrent, WasCurrent
<1>4. QED
  BY <1>1, <1>3 DEF OidcInv, Oidc!OneEntryPerIssuer

LEMMA IdleFits == TaskFits(Oidc!Idle)
BY DEF TaskFits, TaskStates, Oidc!Idle

\* OidcInv is inductive.
LEMMA OidcStep ==
  ASSUME OidcConstants, OidcInv, [Oidc!Next]_Oidc!vars
  PROVE  OidcInv'
<1>1. ASSUME NEW t \in Tasks, NEW i \in Issuers, Oidc!FastPath(t, i) PROVE OidcInv'
  <2>1. UNCHANGED <<time, published, replacedAt, cache>> /\ task[t].pc = "idle"
    BY <1>1 DEF Oidc!FastPath
  <2>2. ASSUME NEW c \in cache, c.issuer = i, Oidc!IsFresh(c),
               task' = [task EXCEPT ![t] = [pc |-> "verify", issuer |-> i, keys |-> c.keys,
                                            fetched |-> c.fetched, entry |-> c.at]]
        PROVE  OidcInv'
    <3> DEFINE n == [pc |-> "verify", issuer |-> i, keys |-> c.keys,
                     fetched |-> c.fetched, entry |-> c.at]
    <3>1. /\ c \in KeyEntries /\ c.fetched <= c.at /\ c.at <= time
          /\ WasCurrent(i, c.keys, c.fetched)
      BY <2>2 DEF OidcInv, OidcTypes, KeysWereCurrent
    <3>2. replacedAt[i][c.keys] \in Nat /\ c.fetched <= replacedAt[i][c.keys]
      BY <3>1 DEF OidcInv, OidcTypes, KeyEntries, WasCurrent, Oidc!Never, OidcConstants
    <3>3. time <= replacedAt[i][c.keys] + Ttl + (c.at - c.fetched)
      BY <2>2, <3>1, <3>2 DEF OidcInv, OidcTypes, KeyEntries, Oidc!IsFresh, OidcConstants
    <3>4. TaskFits(n)
      BY <3>1, <3>3 DEF TaskFits, TaskStates, KeyEntries
    <3>5. QED
      BY <2>1, <2>2, <3>4, TaskStep
  <2>3. ASSUME task' = [task EXCEPT ![t] = [pc |-> "discover", issuer |-> i, keys |-> 0,
                                            fetched |-> 0, entry |-> 0]]
        PROVE  OidcInv'
    <3>1. TaskFits([pc |-> "discover", issuer |-> i, keys |-> 0, fetched |-> 0, entry |-> 0])
      BY DEF TaskFits, TaskStates
    <3>2. QED
      BY <2>1, <2>3, <3>1, TaskStep
  <2>4. QED
    BY <1>1, <2>2, <2>3 DEF Oidc!FastPath, Oidc!Entries
<1>2. ASSUME NEW t \in Tasks, Oidc!Discover(t) PROVE OidcInv'
  <2> DEFINE n == [task[t] EXCEPT !.pc = "jwks"]
  <2>1. task[t] \in TaskStates /\ task[t].issuer \in Issuers
    BY <1>2 DEF Oidc!Discover, OidcInv, OidcTypes
  <2>2. TaskFits(n)
    BY <2>1 DEF TaskFits, TaskStates
  <2>3. /\ UNCHANGED <<time, published, replacedAt, cache>>
        /\ task' = [task EXCEPT ![t] = n] \/ task' = [task EXCEPT ![t] = Oidc!Idle]
    BY <1>2 DEF Oidc!Discover
  <2> HIDE DEF n
  <2>4. QED
    BY <2>2, <2>3, IdleFits, TaskStep
<1>3. ASSUME NEW t \in Tasks, Oidc!FetchJwks(t) PROVE OidcInv'
  <2> DEFINE k == published[task[t].issuer]
             n == [task[t] EXCEPT !.pc = "store", !.keys = k, !.fetched = time]
  <2>1. task[t] \in TaskStates /\ task[t].issuer \in Issuers
    BY <1>3 DEF Oidc!FetchJwks, OidcInv, OidcTypes
  <2>2. k \in Nat /\ time \in Nat /\ WasCurrent(task[t].issuer, k, time)
    BY <2>1 DEF OidcInv, OidcTypes, KeysWereCurrent, WasCurrent, Oidc!Never, OidcConstants
  <2>3. /\ UNCHANGED <<time, published, replacedAt, cache>>
        /\ task' = [task EXCEPT ![t] = n] \/ task' = [task EXCEPT ![t] = Oidc!Idle]
    BY <1>3 DEF Oidc!FetchJwks
  <2> HIDE DEF k
  <2>4. /\ n \in TaskStates /\ n.pc = "store" /\ n.issuer = task[t].issuer
        /\ n.keys = k /\ n.fetched = time
    BY <2>1, <2>2 DEF TaskStates
  <2> HIDE DEF n
  <2>5. TaskFits(n)
    BY <2>1, <2>2, <2>4 DEF TaskFits
  <2>6. QED
    BY <2>3, <2>5, IdleFits, TaskStep
<1>4. ASSUME NEW t \in Tasks, Oidc!StoreEntry(t) PROVE OidcInv'
  <2> DEFINE n == [task[t] EXCEPT !.pc = "verify", !.entry = time]
             i == task[t].issuer
             x == Oidc!Fetched(t)
  <2>1. /\ task[t] \in TaskStates /\ i \in Issuers /\ time \in Nat
        /\ WasCurrent(i, task[t].keys, task[t].fetched)
    BY <1>4 DEF Oidc!StoreEntry, OidcInv, OidcTypes, KeysWereCurrent
  <2>2. /\ UNCHANGED <<time, published, replacedAt>>
        /\ cache' = {c \in cache : c.issuer # i} \cup {x}
        /\ task' = [task EXCEPT ![t] = n]
    BY <1>4 DEF Oidc!StoreEntry, Oidc!Entries
  <2>3. /\ x \in KeyEntries /\ x.issuer = i /\ x.keys = task[t].keys
        /\ x.fetched = task[t].fetched /\ x.at = time
    BY <2>1 DEF Oidc!Fetched, KeyEntries, TaskStates, WasCurrent, OidcInv, OidcTypes, OidcConstants
  <2> HIDE DEF x
  \* the cache first, then the task
  <2>4. \A c, d \in cache' : c.issuer = d.issuer => c = d
    BY <2>2, <2>3 DEF OidcInv, Oidc!OneEntryPerIssuer
  <2>5. \A c \in cache' : /\ c \in KeyEntries /\ c.fetched <= c.at /\ c.at <= time
                          /\ WasCurrent(c.issuer, c.keys, c.fetched)
    BY <2>1, <2>2, <2>3 DEF OidcInv, OidcTypes, KeysWereCurrent, WasCurrent
  <2>6. /\ n \in TaskStates /\ n.pc = "verify" /\ n.issuer = i /\ n.keys = task[t].keys
        /\ n.fetched = task[t].fetched /\ n.entry = time
    BY <2>1 DEF TaskStates
  <2> HIDE DEF n
  <2>7. /\ n.fetched <= n.entry
        /\ time <= replacedAt[n.issuer][n.keys] + Ttl + (n.entry - n.fetched)
    BY <2>1, <2>6 DEF WasCurrent, TaskStates, OidcInv, OidcTypes, Oidc!Never, OidcConstants
  <2>8. \A v \in Tasks : task'[v] = IF v = t THEN n ELSE task[v]
    BY <2>2 DEF OidcInv, OidcTypes
  <2>9. OidcTypes'
    BY <2>1, <2>2, <2>5, <2>6, <2>8 DEF OidcInv, OidcTypes
  <2>10. KeysWereCurrent'
    <3>1. \A v \in Tasks : task'[v].pc \in {"store", "verify"} =>
            WasCurrent(task'[v].issuer, task'[v].keys, task'[v].fetched)
      BY <2>1, <2>6, <2>8 DEF OidcInv, KeysWereCurrent
    <3>2. \A v \in Tasks : task'[v].pc = "verify" =>
            /\ task'[v].fetched <= task'[v].entry /\ task'[v].entry <= time
            /\ time <= replacedAt[task'[v].issuer][task'[v].keys] + Ttl
                         + (task'[v].entry - task'[v].fetched)
      BY <2>1, <2>6, <2>7, <2>8 DEF OidcInv, KeysWereCurrent
    <3>3. QED
      BY <2>2, <2>5, <3>1, <3>2 DEF OidcInv, KeysWereCurrent, WasCurrent
  <2>11. QED
    BY <2>4, <2>9, <2>10 DEF OidcInv, Oidc!OneEntryPerIssuer
<1>5. ASSUME NEW t \in Tasks, Oidc!VerifyRs256(t) PROVE OidcInv'
  BY <1>5, IdleFits, TaskStep DEF Oidc!VerifyRs256
<1>6. ASSUME NEW i \in Issuers, Oidc!Rotate(i) PROVE OidcInv'
  <2>1. /\ UNCHANGED <<time, cache, task>> /\ published[i] < MaxKeys
        /\ published' = [published EXCEPT ![i] = published[i] + 1]
        /\ replacedAt' = [replacedAt EXCEPT ![i][published[i]] = time]
    BY <1>6 DEF Oidc!Rotate
  <2>2. OidcTypes'
    BY <2>1 DEF OidcInv, OidcTypes, Oidc!Never, OidcConstants
  <2>3. \A j \in Issuers, k \in 1..MaxKeys :
          replacedAt'[j][k] = IF j = i /\ k = published[i] THEN time ELSE replacedAt[j][k]
    BY <2>1 DEF OidcInv, OidcTypes
  <2>4. \A j \in Issuers, k, t \in Nat : WasCurrent(j, k, t) => WasCurrent(j, k, t)'
    BY <2>1, <2>3 DEF WasCurrent, OidcInv, OidcTypes
  <2>5. KeysWereCurrent'
    <3>1. \A j \in Issuers : \A k \in 1..MaxKeys :
            k >= published'[j] => replacedAt'[j][k] = Oidc!Never
      BY <2>1, <2>3 DEF OidcInv, OidcTypes, KeysWereCurrent
    <3>2. \A c \in cache : WasCurrent(c.issuer, c.keys, c.fetched)'
      BY <2>4 DEF OidcInv, OidcTypes, KeyEntries, KeysWereCurrent
    <3>3. \A t \in Tasks : task[t].pc \in {"store", "verify"} =>
            WasCurrent(task[t].issuer, task[t].keys, task[t].fetched)'
      <4> SUFFICES ASSUME NEW t \in Tasks, task[t].pc \in {"store", "verify"}
                   PROVE  WasCurrent(task[t].issuer, task[t].keys, task[t].fetched)'
        OBVIOUS
      <4>1. /\ task[t].issuer \in Issuers /\ task[t].keys \in Nat /\ task[t].fetched \in Nat
            /\ WasCurrent(task[t].issuer, task[t].keys, task[t].fetched)
        BY DEF OidcInv, OidcTypes, TaskStates, KeysWereCurrent
      <4>2. QED
        BY <2>1, <2>4, <4>1
    <3>4. ASSUME NEW t \in Tasks, task[t].pc = "verify"
          PROVE  time <= replacedAt'[task[t].issuer][task[t].keys] + Ttl
                           + (task[t].entry - task[t].fetched)
      <4>1. /\ task[t].issuer \in Issuers /\ task[t].keys \in 1..MaxKeys
            /\ task[t].entry \in Nat /\ task[t].fetched \in Nat
            /\ task[t].fetched <= task[t].entry
            /\ time <= replacedAt[task[t].issuer][task[t].keys] + Ttl
                         + (task[t].entry - task[t].fetched)
        BY <3>4 DEF OidcInv, OidcTypes, TaskStates, KeysWereCurrent, WasCurrent, OidcConstants
      <4>2. /\ replacedAt[task[t].issuer][task[t].keys] \in Nat /\ time \in Nat
            /\ task[t].entry - task[t].fetched \in Nat
        <5>1. replacedAt[task[t].issuer][task[t].keys] \in 0..MaxKeyTime + 1
          BY <4>1 DEF OidcInv, OidcTypes, Oidc!Never
        <5>2. task[t].entry - task[t].fetched \in Nat
          BY <4>1
        <5>3. time \in Nat
          BY DEF OidcInv, OidcTypes
        <5>4. QED
          BY <5>1, <5>2, <5>3
      <4>3. replacedAt'[task[t].issuer][task[t].keys]
              \in {time, replacedAt[task[t].issuer][task[t].keys]}
        BY <2>3, <4>1
      <4> DEFINE old == replacedAt[task[t].issuer][task[t].keys]
                 new == replacedAt'[task[t].issuer][task[t].keys]
                 took == task[t].entry - task[t].fetched
      <4>4. /\ old \in Nat /\ time \in Nat /\ took \in Nat /\ Ttl \in Nat
            /\ new \in {time, old} /\ time <= old + Ttl + took
        BY <4>1, <4>2, <4>3 DEF OidcConstants
      <4> HIDE DEF old, new, took
      <4>5. time <= new + Ttl + took
        BY <4>4
      <4>6. QED
        BY <4>5 DEF new, took
    <3>5. QED
      BY <2>1, <3>1, <3>2, <3>3, <3>4 DEF OidcInv, KeysWereCurrent
  <2>6. QED
    BY <2>1, <2>2, <2>5 DEF OidcInv, Oidc!OneEntryPerIssuer
<1>7. CASE Oidc!Tick
  <2>1. /\ time < MaxKeyTime /\ time' = time + 1 /\ \A t \in Tasks : task[t].pc # "verify"
        /\ UNCHANGED <<published, replacedAt, cache, task>>
    BY <1>7 DEF Oidc!Tick
  <2>2. OidcTypes'
    BY <2>1 DEF OidcInv, OidcTypes, OidcConstants
  <2>3. \A i, k : \A t \in Nat : WasCurrent(i, k, t) => WasCurrent(i, k, t)'
    BY <2>1 DEF WasCurrent, OidcInv, OidcTypes
  <2>4. KeysWereCurrent'
    BY <2>1, <2>3 DEF OidcInv, OidcTypes, KeyEntries, TaskStates, KeysWereCurrent
  <2>5. QED
    BY <2>1, <2>2, <2>4 DEF OidcInv, Oidc!OneEntryPerIssuer
<1>8. CASE UNCHANGED Oidc!vars
  BY <1>8 DEF Oidc!vars, OidcInv, OidcTypes, Oidc!OneEntryPerIssuer, KeysWereCurrent, WasCurrent
<1>9. QED
  BY <1>1, <1>2, <1>3, <1>4, <1>5, <1>6, <1>7, <1>8 DEF Oidc!Next

\* However many tasks fetch at once and however the issuer rotates, the cache
\* has one entry per issuer, and no token is judged by a key set replaced
\* longer ago than the ttl and the time its fetch took.
THEOREM OidcKeysAreFresh ==
  ASSUME OidcConstants
  PROVE  Oidc!Spec => [](Oidc!TypeOK /\ Oidc!OneEntryPerIssuer /\ Oidc!KeysAreNotOld)
<1>1. Oidc!Init => OidcInv
  BY DEF OidcConstants, Oidc!Init, Oidc!Idle, Oidc!Never, OidcInv, OidcTypes, TaskStates,
     Oidc!OneEntryPerIssuer, KeysWereCurrent
<1>2. OidcInv /\ [Oidc!Next]_Oidc!vars => OidcInv'
  BY OidcStep
<1>3. OidcInv => Oidc!TypeOK /\ Oidc!OneEntryPerIssuer /\ Oidc!KeysAreNotOld
  <2> SUFFICES ASSUME OidcInv PROVE Oidc!TypeOK /\ Oidc!KeysAreNotOld
    BY DEF OidcInv
  <2>1. \A c \in cache : c \in KeyEntries /\ c.at <= time /\ time <= MaxKeyTime
    BY DEF OidcInv, OidcTypes, KeysWereCurrent
  <2>2. Oidc!TypeOK
    BY <2>1 DEF OidcConstants, OidcInv, OidcTypes, KeyEntries, Oidc!TypeOK
  <2>3. Oidc!KeysAreNotOld
    BY DEF OidcInv, KeysWereCurrent, Oidc!KeysAreNotOld
  <2>4. QED
    BY <2>2, <2>3
<1>4. QED
  BY <1>1, <1>2, <1>3, PTL DEF Oidc!Spec

---------------------------------------------------------------------------
(* The token bucket.                                                       *)

CONSTANTS Limit, Refill, Requests, MaxTick

VARIABLES tick, bucketState, spent, promise

Bucket == INSTANCE TokenBucket

\* The refill rate is positive: try_consume divides by it.
BucketConstants ==
  /\ Limit \in Nat /\ Refill \in Nat \ {0} /\ MaxTick \in Nat /\ Requests \subseteq Nat

\* Time flows in whole ticks, so that what flows in adds up.
LEMMA InflowAdds ==
  ASSUME NEW r \in Nat, NEW a \in Int, NEW b \in Int
  PROVE  /\ (a + b) * r = a * r + b * r
         /\ a >= 0 => a * r \in Nat
         /\ a <= b => a * r <= b * r
OBVIOUS

\* The time to wait, rounded up, brings at least the deficit.
LEMMA CeilingCovers ==
  ASSUME NEW r \in Nat \ {0}, NEW d \in Nat
  PROVE  /\ (d + r - 1) \div r \in Nat
         /\ ((d + r - 1) \div r) * r >= d
OBVIOUS

BucketTypes ==
  /\ tick \in 0..MaxTick
  /\ bucketState \in [halves : 0..2 * Limit, last : 0..tick]
  /\ spent \in [0..MaxTick + 1 -> Nat]
  /\ promise \in [n : Nat, at : Nat]

\* Nothing was consumed after the last refill's tick: what is left and what was
\* consumed since any earlier tick came from a full bucket and the inflow.
TokensAreConserved ==
  /\ \A t \in tick + 1..MaxTick + 1 : spent[t] = spent[tick + 1]
  /\ \A s \in bucketState.last + 1..tick : spent[s] = spent[tick + 1]
  /\ \A s \in 0..bucketState.last :
       2 * (spent[tick + 1] - spent[s]) + bucketState.halves
         <= 2 * Limit + (bucketState.last - s) * Refill

\* At the promised time the deficit will have flowed in.
PromiseIsCovered ==
  promise.n > 0 =>
    /\ promise.at >= bucketState.last
    /\ 2 * promise.n <= bucketState.halves + (promise.at - bucketState.last) * Refill

BucketInv == BucketTypes /\ TokensAreConserved /\ Bucket!BurstIsBounded /\ PromiseIsCovered

\* Refilling never takes tokens away nor fills over the limit.
LEMMA RefilledBounds ==
  ASSUME BucketConstants, BucketTypes
  PROVE  /\ (tick - bucketState.last) * Refill \in Nat
         /\ Bucket!Refilled \in 0..2 * Limit
         /\ Bucket!Refilled <= bucketState.halves + (tick - bucketState.last) * Refill
         /\ \/ Bucket!Refilled = 2 * Limit
            \/ Bucket!Refilled = bucketState.halves + (tick - bucketState.last) * Refill
<1>1. /\ bucketState.halves \in 0..2 * Limit /\ bucketState.last \in 0..tick
      /\ tick - bucketState.last \in Nat
  BY DEF BucketTypes
<1>2. (tick - bucketState.last) * Refill \in Nat
  BY <1>1, InflowAdds DEF BucketConstants
<1>3. QED
  BY <1>1, <1>2 DEF BucketConstants, Bucket!Refilled, Bucket!Least, Bucket!Half

LEMMA BucketStep ==
  ASSUME BucketConstants, BucketInv, [Bucket!Next]_Bucket!vars
  PROVE  BucketInv'
<1>1. CASE Bucket!Pass
  <2>1. tick < MaxTick /\ tick' = tick + 1 /\ UNCHANGED <<bucketState, spent, promise>>
    BY <1>1 DEF Bucket!Pass
  <2>2. BucketTypes'
    BY <2>1 DEF BucketConstants, BucketInv, BucketTypes
  <2>3. spent[tick + 2] = spent[tick + 1]
    BY <2>1 DEF BucketConstants, BucketInv, BucketTypes, TokensAreConserved
  <2>4. TokensAreConserved'
    <3>1. /\ tick \in Nat /\ bucketState.last \in 0..tick /\ MaxTick \in Nat
          /\ tick' + 1 = tick + 2 /\ spent[tick' + 1] = spent[tick + 1]
      BY <2>1, <2>3 DEF BucketConstants, BucketInv, BucketTypes
    <3>2. \A t \in tick' + 1..MaxTick + 1 : spent[t] = spent[tick + 1]
      BY <2>1, <3>1 DEF BucketInv, TokensAreConserved
    <3>3. \A s \in bucketState.last + 1..tick' : spent[s] = spent[tick + 1]
      BY <2>1, <3>1 DEF BucketInv, TokensAreConserved
    <3>4. QED
      BY <2>1, <3>1, <3>2, <3>3 DEF BucketInv, TokensAreConserved
  <2>5. Bucket!BurstIsBounded'
    <3> SUFFICES ASSUME NEW s \in 0..tick + 1, NEW t \in 0..tick + 1, s <= t
                 PROVE  2 * (spent[t + 1] - spent[s]) <= 2 * Limit + (t - s) * Refill
      BY <2>1 DEF Bucket!BurstIsBounded, Bucket!Half
    <3>1. CASE t <= tick
      BY <3>1 DEF BucketInv, BucketTypes, Bucket!BurstIsBounded, Bucket!Half
    <3>2. CASE t = tick + 1 /\ s = tick + 1
      BY <2>3, <3>2 DEF BucketConstants, BucketInv, BucketTypes
    <3>3. CASE t = tick + 1 /\ s <= tick
      <4>1. /\ spent[t + 1] = spent[tick + 1] /\ spent[tick + 1] \in Nat /\ spent[s] \in Nat
        BY <2>1, <2>3, <3>3 DEF BucketConstants, BucketInv, BucketTypes
      <4>2. 2 * (spent[tick + 1] - spent[s]) <= 2 * Limit + (tick - s) * Refill
        BY <3>3 DEF BucketInv, BucketTypes, Bucket!BurstIsBounded, Bucket!Half
      <4>3. (tick - s) * Refill <= (t - s) * Refill
        BY <3>3, InflowAdds DEF BucketConstants, BucketInv, BucketTypes
      <4>4. (tick - s) * Refill \in Int /\ (t - s) * Refill \in Int
        BY DEF BucketConstants, BucketInv, BucketTypes
      <4>5. QED
        BY <4>1, <4>2, <4>3, <4>4 DEF BucketConstants
    <3>4. QED
      BY <3>1, <3>2, <3>3 DEF BucketInv, BucketTypes
  <2>6. PromiseIsCovered'
    BY <2>1 DEF BucketInv, PromiseIsCovered
  <2>7. QED
    BY <2>2, <2>4, <2>5, <2>6 DEF BucketInv
<1>2. ASSUME NEW n \in Requests, Bucket!TryConsume(n) PROVE BucketInv'
  <2> DEFINE R == Bucket!Refilled
             old == bucketState.halves
             last == bucketState.last
  <2>1. /\ n \in Nat /\ UNCHANGED tick /\ R \in 0..2 * Limit /\ old \in 0..2 * Limit
        /\ last \in 0..tick /\ tick \in Nat
        /\ (tick - last) * Refill \in Nat /\ R <= old + (tick - last) * Refill
    BY <1>2, RefilledBounds DEF BucketConstants, BucketInv, BucketTypes, Bucket!TryConsume
  \* what is known of every earlier tick, with the inflow up to now
  <2>2. \A s \in 0..tick : 2 * (spent[tick + 1] - spent[s]) + R <= 2 * Limit + (tick - s) * Refill
    <3> SUFFICES ASSUME NEW s \in 0..tick
                 PROVE  2 * (spent[tick + 1] - spent[s]) + R <= 2 * Limit + (tick - s) * Refill
      OBVIOUS
    <3>1. spent[tick + 1] \in Nat /\ spent[s] \in Nat
      BY <2>1 DEF BucketConstants, BucketInv, BucketTypes
    <3>2. (tick - s) * Refill \in Nat
      BY InflowAdds DEF BucketConstants, BucketInv, BucketTypes
    <3>3. CASE s > last
      <4>1. spent[s] = spent[tick + 1]
        BY <3>3, <2>1 DEF BucketInv, TokensAreConserved
      <4>2. QED
        BY <2>1, <3>1, <3>2, <4>1 DEF BucketConstants
    <3>4. CASE s <= last
      <4>1. 2 * (spent[tick + 1] - spent[s]) + old <= 2 * Limit + (last - s) * Refill
        BY <3>4, <2>1 DEF BucketInv, TokensAreConserved
      <4>2. (tick - s) * Refill = (tick - last) * Refill + (last - s) * Refill
        BY <2>1, <3>4 DEF BucketConstants
      <4>3. (last - s) * Refill \in Nat
        BY <2>1, <3>4, InflowAdds DEF BucketConstants
      <4> HIDE DEF R, old, last
      <4>4. QED
        BY <2>1, <3>1, <3>2, <4>1, <4>2, <4>3 DEF BucketConstants
    <3>5. QED
      BY <2>1, <3>3, <3>4
  <2>3. CASE R \div 2 >= n
    <3>1. /\ bucketState' = [halves |-> R - 2 * n, last |-> tick]
          /\ spent' = [t \in 0..MaxTick + 1 |-> IF t > tick THEN spent[t] + n ELSE spent[t]]
          /\ promise' = [n |-> 0, at |-> 0]
      BY <1>2, <2>3 DEF Bucket!TryConsume, Bucket!Half
    <3>2. R - 2 * n \in 0..2 * Limit
      BY <2>1, <2>3 DEF BucketConstants
    <3> HIDE DEF R, old, last
    <3>3. BucketTypes'
      BY <2>1, <3>1, <3>2 DEF BucketConstants, BucketInv, BucketTypes
    <3>4. /\ \A t \in tick + 1..MaxTick + 1 : spent'[t] = spent[t] + n
          /\ \A s \in 0..tick : spent'[s] = spent[s]
          /\ \A s \in 0..MaxTick + 1 : spent[s] \in Nat /\ spent'[s] \in Nat
          /\ tick + 1 \in 0..MaxTick + 1
      BY <2>1, <3>1 DEF BucketConstants, BucketInv, BucketTypes
    <3>5. \A s \in 0..tick : 2 * (spent'[tick + 1] - spent'[s]) + (R - 2 * n)
                               <= 2 * Limit + (tick - s) * Refill
      <4> SUFFICES ASSUME NEW s \in 0..tick
                   PROVE  2 * (spent'[tick + 1] - spent'[s]) + (R - 2 * n)
                               <= 2 * Limit + (tick - s) * Refill
        OBVIOUS
      <4>1. /\ spent'[tick + 1] = spent[tick + 1] + n /\ spent'[s] = spent[s]
            /\ spent[tick + 1] \in Nat /\ spent[s] \in Nat
        BY <3>4, <2>1 DEF BucketConstants, BucketInv, BucketTypes
      <4>2. 2 * (spent[tick + 1] - spent[s]) + R <= 2 * Limit + (tick - s) * Refill
        BY <2>2
      <4>3. QED
        BY <2>1, <4>1, <4>2
    <3>6. TokensAreConserved'
      <4>1. bucketState'.halves = R - 2 * n /\ bucketState'.last = tick /\ tick' = tick
        BY <2>1, <3>1
      <4>2. \A t \in tick + 1..MaxTick + 1 : spent'[t] = spent'[tick + 1]
        BY <2>1, <3>4 DEF BucketConstants, BucketInv, TokensAreConserved
      <4>3. \A s \in tick + 1..tick : spent'[s] = spent'[tick + 1]
        BY <2>1
      <4>4. QED
        BY <3>5, <4>1, <4>2, <4>3 DEF TokensAreConserved
    <3>7. Bucket!BurstIsBounded'
      <4> SUFFICES ASSUME NEW s \in 0..tick, NEW t \in 0..tick, s <= t
                   PROVE  2 * (spent'[t + 1] - spent'[s]) <= 2 * Limit + (t - s) * Refill
        BY <2>1 DEF Bucket!BurstIsBounded, Bucket!Half
      <4>1. CASE t = tick
        <5>1. 2 * (spent'[tick + 1] - spent'[s]) + (R - 2 * n) <= 2 * Limit + (tick - s) * Refill
          BY <3>5
        <5>2. spent'[tick + 1] \in Nat /\ spent'[s] \in Nat /\ (tick - s) * Refill \in Int
          BY <2>1, <3>4 DEF BucketConstants
        <5>3. QED
          BY <2>1, <3>2, <4>1, <5>1, <5>2 DEF BucketConstants
      <4>2. CASE t < tick
        BY <2>1, <3>4, <4>2 DEF BucketInv, Bucket!BurstIsBounded, Bucket!Half
      <4>3. QED
        BY <2>1, <4>1, <4>2
    <3>8. PromiseIsCovered'
      BY <3>1 DEF PromiseIsCovered
    <3>9. QED
      BY <3>3, <3>6, <3>7, <3>8 DEF BucketInv
  <2>4. CASE ~(R \div 2 >= n)
    <3> DEFINE d == 2 * n - R
               w == (d + Refill - 1) \div Refill
    <3>1. /\ bucketState' = [halves |-> R, last |-> tick]
          /\ promise' = [n |-> n, at |-> tick + w] /\ UNCHANGED spent
      BY <1>2, <2>4 DEF Bucket!TryConsume, Bucket!Half, Bucket!Wait, Bucket!Deficit
    <3>2. d \in Nat
      BY <2>1, <2>4
    <3>3. w \in Nat /\ w * Refill >= d
      BY <3>2, CeilingCovers DEF BucketConstants
    <3> HIDE DEF R, old, last, w
    <3>4. BucketTypes'
      BY <2>1, <3>1, <3>3 DEF BucketConstants, BucketInv, BucketTypes
    <3>5. TokensAreConserved'
      BY <2>1, <2>2, <3>1 DEF BucketInv, TokensAreConserved
    <3>6. Bucket!BurstIsBounded'
      BY <2>1, <3>1 DEF BucketInv, Bucket!BurstIsBounded
    <3>7. PromiseIsCovered'
      <4>1. 2 * n <= R + w * Refill
        BY <2>1, <3>3 DEF BucketConstants
      <4>2. /\ bucketState'.halves = R /\ bucketState'.last = tick
            /\ promise'.n = n /\ promise'.at = tick + w
        BY <3>1
      <4>3. promise'.at - bucketState'.last = w /\ promise'.at >= bucketState'.last
        BY <2>1, <3>3, <4>2
      <4>4. 2 * promise'.n <= bucketState'.halves
                                + (promise'.at - bucketState'.last) * Refill
        BY <4>1, <4>2, <4>3
      <4>5. QED
        BY <4>3, <4>4 DEF PromiseIsCovered
    <3>8. QED
      BY <3>4, <3>5, <3>6, <3>7 DEF BucketInv
  <2>5. QED
    BY <2>3, <2>4
<1>3. CASE UNCHANGED Bucket!vars
  BY <1>3 DEF Bucket!vars, BucketInv, BucketTypes, TokensAreConserved, Bucket!BurstIsBounded,
     PromiseIsCovered
<1>4. QED
  BY <1>1, <1>2, <1>3 DEF Bucket!Next

\* In every stretch of time try_consume gives out no more than the limit and
\* the inflow, and a caller that waits as long as it was told is served.
THEOREM BucketKeepsTheRate ==
  ASSUME BucketConstants
  PROVE  Bucket!Spec => [](Bucket!TypeOK /\ Bucket!BurstIsBounded /\ Bucket!WaitIsEnough)
<1>1. Bucket!Init => BucketInv
  <2> SUFFICES ASSUME Bucket!Init PROVE BucketInv
    OBVIOUS
  <2>1. BucketTypes
    BY DEF BucketConstants, Bucket!Init, Bucket!Half, BucketTypes
  <2>2. TokensAreConserved /\ PromiseIsCovered
    BY DEF BucketConstants, Bucket!Init, Bucket!Half, TokensAreConserved, PromiseIsCovered
  <2>3. Bucket!BurstIsBounded
    BY DEF BucketConstants, Bucket!Init, Bucket!Half, Bucket!BurstIsBounded
  <2>4. QED
    BY <2>1, <2>2, <2>3 DEF BucketInv
<1>2. BucketInv /\ [Bucket!Next]_Bucket!vars => BucketInv'
  BY BucketStep
<1>3. BucketInv => Bucket!TypeOK /\ Bucket!BurstIsBounded /\ Bucket!WaitIsEnough
  <2> SUFFICES ASSUME BucketInv PROVE Bucket!TypeOK /\ Bucket!WaitIsEnough
    BY DEF BucketInv
  <2>1. Bucket!TypeOK
    BY DEF BucketInv, BucketTypes, Bucket!TypeOK, Bucket!Half
  <2>2. Bucket!WaitIsEnough
    <3> SUFFICES ASSUME promise.n \in 1..Limit, tick >= promise.at
                 PROVE  Bucket!Refilled \div 2 >= promise.n
      BY DEF Bucket!WaitIsEnough, Bucket!Half
    <3> DEFINE old == bucketState.halves
               last == bucketState.last
               flow == (tick - last) * Refill
               due == (promise.at - last) * Refill
    <3>1. /\ old \in Nat /\ last \in Nat /\ tick \in Nat /\ promise.at \in Nat
          /\ last <= promise.at /\ 2 * promise.n <= old + due
      BY DEF BucketInv, BucketTypes, PromiseIsCovered
    <3>2. due <= flow /\ due \in Int /\ flow \in Int
      BY <3>1, InflowAdds DEF BucketConstants
    <3>3. Bucket!Refilled \in Nat /\ (Bucket!Refilled = 2 * Limit \/ Bucket!Refilled = old + flow)
      BY RefilledBounds DEF BucketInv, BucketConstants
    <3> HIDE DEF flow, due, old, last
    <3>4. Bucket!Refilled >= 2 * promise.n
      BY <3>1, <3>2, <3>3 DEF BucketConstants
    <3>5. QED
      BY <3>3, <3>4 DEF BucketConstants
  <2>3. QED
    BY <2>1, <2>2
<1>4. QED
  BY <1>1, <1>2, <1>3, PTL DEF Bucket!Spec

---------------------------------------------------------------------------
(* Ranks: what ORDER BY and LIMIT rest on.                                 *)

\* A nonempty set of numbers has a first one.
LEMMA FirstNumber ==
  ASSUME NEW T, T \subseteq Nat, T # {}
  PROVE  \E i \in T : \A j \in T : i <= j
<1> DEFINE R == {p \in Nat \X Nat : p[1] < p[2]}
<1>1. IsWellFoundedOn(R, Nat)
  BY NatLessThanWellFounded, Zenon DEF OpToRel
<1>2. \E i \in T : \A j \in T : ~(<<j, i>> \in R)
  <2> HIDE DEF R
  <2> QED
    BY <1>1, WFMin
<1>3. \A i, j \in Nat : <<j, i>> \in R <=> j < i
  OBVIOUS
<1>4. PICK i \in T : \A j \in T : ~(<<j, i>> \in R)
  BY <1>2, Zenon
<1>5. \A j \in T : i <= j
  <2>1. \A j \in T : ~(j < i)
    BY <1>3, <1>4
  <2>2. QED
    BY <2>1
<1>6. QED
  BY <1>5

Rank(id, rows) == Cardinality({r \in rows : r < id})

\* The members below one are finitely many, fewer than all, and more the higher it is.
LEMMA RankFacts ==
  ASSUME NEW S, IsFiniteSet(S), S \subseteq Nat
  PROVE  /\ \A i \in S : Rank(i, S) \in 0..(Cardinality(S) - 1)
         /\ \A i, j \in S : i < j => Rank(i, S) < Rank(j, S)
<1> DEFINE B(i) == {r \in S : r < i}
<1>1. \A i \in S : IsFiniteSet(B(i)) /\ Cardinality(B(i)) \in Nat
  <2> SUFFICES ASSUME NEW i \in S PROVE IsFiniteSet(B(i)) /\ Cardinality(B(i)) \in Nat
    OBVIOUS
  <2>1. B(i) \in SUBSET S
    OBVIOUS
  <2>2. QED
    BY <2>1, FS_Subset, FS_CardinalityType
<1>2. ASSUME NEW i \in S, NEW T, IsFiniteSet(T), i \in T, B(i) \subseteq T
      PROVE  Cardinality(B(i)) < Cardinality(T)
  <2>1. B(i) \in SUBSET T /\ i \notin B(i)
    BY <1>2
  <2>2. IsFiniteSet(B(i)) /\ Cardinality(B(i)) <= Cardinality(T) /\ (Cardinality(T) = Cardinality(B(i)) => T = B(i))
    BY <1>2, <2>1, FS_Subset
  <2>3. Cardinality(T) \in Nat /\ Cardinality(B(i)) \in Nat
    BY <1>1, <1>2, FS_CardinalityType
  <2>4. QED
    BY <1>2, <2>1, <2>2, <2>3
<1>3. \A i \in S : Cardinality(B(i)) < Cardinality(S)
  <2> SUFFICES ASSUME NEW i \in S PROVE Cardinality(B(i)) < Cardinality(S)
    OBVIOUS
  <2>1. B(i) \subseteq S
    OBVIOUS
  <2>2. QED
    BY <1>2, <2>1
<1>4. \A i, j \in S : i < j => Cardinality(B(i)) < Cardinality(B(j))
  <2> SUFFICES ASSUME NEW i \in S, NEW j \in S, i < j PROVE Cardinality(B(i)) < Cardinality(B(j))
    OBVIOUS
  <2>1. \A r \in S : r \in Nat
    OBVIOUS
  <2>2. \A r \in S : r < i => r < j
    BY <2>1
  <2>3. i \in B(j) /\ B(i) \subseteq B(j)
    BY <2>2
  <2>4. IsFiniteSet(B(j))
    BY <1>1
  <2>5. QED
    BY <1>2, <2>3, <2>4
<1>5. Cardinality(S) \in Nat
  BY FS_CardinalityType
<1>6. QED
  BY <1>1, <1>3, <1>4, <1>5 DEF Rank

\* Every rank below the size is somebody's.
LEMMA RanksAreFilled ==
  ASSUME NEW S, IsFiniteSet(S), S \subseteq Nat, NEW n \in 0..(Cardinality(S) - 1)
  PROVE  \E i \in S : Rank(i, S) = n
<1> DEFINE N == Cardinality(S)
           D == 0..(N - 1)
           f == [i \in S |-> Rank(i, S)]
<1>1. N \in Nat /\ IsFiniteSet(D) /\ Cardinality(D) = N
  <2>1. N \in Nat
    BY FS_CardinalityType
  <2>2. 0 \in Int /\ (N - 1) \in Int
    BY <2>1
  <2>3. IsFiniteSet(D) /\ Cardinality(D) = IF 0 > N - 1 THEN 0 ELSE (N - 1) - 0 + 1
    BY <2>2, FS_Interval
  <2>4. QED
    BY <2>1, <2>3
<1>2. f \in [S -> D] /\ \A i, j \in S : f[i] = f[j] => i = j
  <2>1. f \in [S -> D]
    BY RankFacts
  <2>2. ASSUME NEW i \in S, NEW j \in S, f[i] = f[j] PROVE i = j
    <3>1. Rank(i, S) \in 0..(N - 1) /\ (i < j => Rank(i, S) < Rank(j, S)) /\ (j < i => Rank(j, S) < Rank(i, S))
      BY RankFacts
    <3>2. Rank(i, S) = Rank(j, S) /\ Rank(i, S) \in Nat /\ i \in Nat /\ j \in Nat
      BY <2>2, <3>1, <1>1
    <3> HIDE DEF f, N, D
    <3>3. QED
      BY <3>1, <3>2
  <2>3. QED
    BY <2>1, <2>2
<1>3. f \in Injection(S, D)
  BY <1>2 DEF Injection, IsInjective
<1>4. f \in Surjection(S, D)
  <2> HIDE DEF f, D
  <2> QED
    BY <1>1, <1>3, FS_Injection
<1>5. n \in D
  OBVIOUS
<1>6. QED
  BY <1>4, <1>5 DEF Surjection

---------------------------------------------------------------------------
(* One mcp.call.                                                           *)

CONSTANTS MaxLines

VARIABLES call, stdin, stdout, written, server

Mcp == INSTANCE McpClient

McpConstants == MaxLines \in Nat

Answers == Mcp!Lines \cup {Mcp!NoLine}

Places == {"input", "send 1", "read 1", "send 2", "read 2", "close", "wait", "returned", "failed", "timed out"}

McpTypes ==
  /\ call \in [pc : Places, got : Answers, answer : Answers]
  /\ stdin \in [sent : SUBSET {1, 2}, open : BOOLEAN]
  /\ stdout \in Seq(Mcp!Lines) /\ written \in 0..MaxLines
  /\ server \in {"none", "running", "exited"}

\* What was sent by the time the client is at a place.
SentSoFar ==
  /\ call.pc \in {"input", "send 1"} => stdin.sent = {}
  /\ call.pc \in {"read 1", "send 2"} => stdin.sent = {1}
  /\ call.pc \in {"read 2", "close", "wait", "returned"} => stdin.sent = {1, 2}

McpInv ==
  /\ McpTypes /\ SentSoFar
  /\ call.pc \in {"close", "wait"} => call.got.id = 2 /\ call.got.kind = "result"
  /\ Mcp!ResultIsOfTheCall

\* The client moves on; what it holds stays.
LEMMA CallMoves ==
  ASSUME McpTypes, NEW to \in Places, call' = [call EXCEPT !.pc = to]
  PROVE  /\ call' \in [pc : Places, got : Answers, answer : Answers]
         /\ call'.pc = to /\ call'.got = call.got /\ call'.answer = call.answer
BY DEF McpTypes

LEMMA McpStep == ASSUME McpConstants, McpInv, [Mcp!Next]_Mcp!vars PROVE McpInv'
<1> USE DEF Mcp!Goto
<1>0. /\ McpTypes /\ SentSoFar
      /\ call.pc \in {"close", "wait"} => call.got.id = 2 /\ call.got.kind = "result"
      /\ call.pc = "returned" =>
            /\ call.answer.id = 2 /\ call.answer.kind = "result"
            /\ stdin.sent = {1, 2} /\ server = "exited"
  BY DEF McpInv, Mcp!ResultIsOfTheCall, Mcp!ToolsCall, Mcp!Initialize
<1>t. /\ call \in [pc : Places, got : Answers, answer : Answers]
      /\ stdin \in [sent : SUBSET {1, 2}, open : BOOLEAN]
      /\ stdout \in Seq(Mcp!Lines) /\ written \in 0..MaxLines /\ MaxLines \in Nat
      /\ server \in {"none", "running", "exited"}
  BY <1>0 DEF McpTypes, McpConstants
<1>i. ASSUME call' \in [pc : Places, got : Answers, answer : Answers],
             stdin' \in [sent : SUBSET {1, 2}, open : BOOLEAN],
             stdout' \in Seq(Mcp!Lines), written' \in 0..MaxLines,
             server' \in {"none", "running", "exited"},
             SentSoFar',
             call'.pc \in {"close", "wait"} => call'.got.id = 2 /\ call'.got.kind = "result",
             call'.pc = "returned" =>
               /\ call'.answer.id = 2 /\ call'.answer.kind = "result"
               /\ stdin'.sent = {1, 2} /\ server' = "exited"
      PROVE  McpInv'
  BY <1>i DEF McpInv, McpTypes, Mcp!ResultIsOfTheCall, Mcp!ToolsCall, Mcp!Initialize
<1>1. CASE Mcp!Refused
  <2>1. call' = [call EXCEPT !.pc = "failed"] /\ UNCHANGED <<stdin, stdout, written, server>>
    BY <1>1 DEF Mcp!Refused
  <2>2. call' \in [pc : Places, got : Answers, answer : Answers] /\ call'.pc = "failed"
    BY <1>0, <2>1, CallMoves DEF Places
  <2>3. SentSoFar'
    BY <2>2 DEF SentSoFar
  <2>4. QED
    BY <1>t, <1>i, <2>1, <2>2, <2>3
<1>2. CASE Mcp!Spawn
  <2>1. /\ call' = [call EXCEPT !.pc = "send 1"] /\ UNCHANGED <<stdout, written>> /\ server' = "running"
        /\ stdin' = [stdin EXCEPT !.open = TRUE] /\ call.pc = "input"
    BY <1>2 DEF Mcp!Spawn
  <2>2. call' \in [pc : Places, got : Answers, answer : Answers] /\ call'.pc = "send 1"
    BY <1>0, <2>1, CallMoves DEF Places
  <2>3. stdin' \in [sent : SUBSET {1, 2}, open : BOOLEAN] /\ stdin'.sent = stdin.sent
    BY <1>t, <2>1
  <2>4. SentSoFar'
    BY <1>0, <2>1, <2>2, <2>3 DEF SentSoFar
  <2>5. QED
    BY <1>t, <1>i, <2>1, <2>2, <2>3, <2>4
<1>3. ASSUME NEW id \in {1, 2}, Mcp!Send(id) PROVE McpInv'
  <2>0. <<"send 1", "send 2">>[id] = (IF id = 1 THEN "send 1" ELSE "send 2")
        /\ <<"read 1", "read 2">>[id] = (IF id = 1 THEN "read 1" ELSE "read 2")
    <3>1. CASE id = 1
      BY <3>1
    <3>2. CASE id = 2
      BY <3>2
    <3>3. QED
      BY <3>1, <3>2
  <2>1. (id = 1 /\ call.pc = "send 1") \/ (id = 2 /\ call.pc = "send 2")
    <3>1. call.pc = <<"send 1", "send 2">>[id]
      BY <1>3 DEF Mcp!Send
    <3>2. call.pc = IF id = 1 THEN "send 1" ELSE "send 2"
      BY <2>0, <3>1, Zenon
    <3>3. QED
      BY <3>2
  <2>2. UNCHANGED <<stdout, written, server>>
    BY <1>3 DEF Mcp!Send
  <2>3. CASE server # "running"
    <3>1. call' = [call EXCEPT !.pc = "failed"] /\ UNCHANGED stdin
      BY <1>3, <2>3 DEF Mcp!Send
    <3>2. call' \in [pc : Places, got : Answers, answer : Answers] /\ call'.pc = "failed"
      BY <1>0, <3>1, CallMoves DEF Places
    <3>3. SentSoFar'
      BY <3>2 DEF SentSoFar
    <3>4. QED
      BY <1>t, <1>i, <2>2, <3>1, <3>2, <3>3
  <2>4. CASE server = "running"
    <3> DEFINE to == <<"read 1", "read 2">>[id]
    <3>1. call' = [call EXCEPT !.pc = to] /\ stdin' = [stdin EXCEPT !.sent = @ \cup {id}]
      BY <1>3, <2>4, Zenon DEF Mcp!Send
    <3>2. to \in Places /\ to = (IF id = 1 THEN "read 1" ELSE "read 2")
      BY <2>0 DEF Places
    <3>3. call' \in [pc : Places, got : Answers, answer : Answers] /\ call'.pc = to
      <4> HIDE DEF to
      <4> QED
        BY <1>0, <3>1, <3>2, CallMoves
    <3>4. stdin' \in [sent : SUBSET {1, 2}, open : BOOLEAN] /\ stdin'.sent = stdin.sent \cup {id}
      BY <1>t, <3>1
    <3>5. SentSoFar'
      BY <1>0, <2>1, <3>2, <3>3, <3>4 DEF SentSoFar
    <3>6. QED
      BY <1>t, <1>i, <2>2, <3>2, <3>3, <3>4, <3>5
  <2>5. QED
    BY <2>3, <2>4
<1>4. ASSUME NEW id \in {1, 2}, Mcp!ReadResponse(id) PROVE McpInv'
  <2>1. UNCHANGED <<stdin, written, server>>
    BY <1>4 DEF Mcp!ReadResponse
  <2>0. <<"read 1", "read 2">>[id] = (IF id = 1 THEN "read 1" ELSE "read 2")
        /\ <<"send 2", "close">>[id] = (IF id = 1 THEN "send 2" ELSE "close")
    <3>1. CASE id = 1
      BY <3>1
    <3>2. CASE id = 2
      BY <3>2
    <3>3. QED
      BY <3>1, <3>2
  <2>2. (call.pc = "read 1" /\ id = 1) \/ (call.pc = "read 2" /\ id = 2)
    <3>1. call.pc = <<"read 1", "read 2">>[id]
      BY <1>4 DEF Mcp!ReadResponse
    <3>2. call.pc = IF id = 1 THEN "read 1" ELSE "read 2"
      BY <2>0, <3>1, Zenon
    <3>3. QED
      BY <3>2
  <2>3. stdout # <<>> => Head(stdout) \in Mcp!Lines /\ Tail(stdout) \in Seq(Mcp!Lines)
    BY <1>t, HeadTailProperties
  <2>4. stdout' \in Seq(Mcp!Lines)
    BY <1>t, <1>4, <2>3 DEF Mcp!ReadResponse
  <2>5. \/ call' = call
        \/ call' = [call EXCEPT !.pc = "failed"]
        \/ /\ stdout # <<>> /\ Head(stdout).kind = "result" /\ Head(stdout).id = id
           /\ call' = [call EXCEPT !.pc = <<"send 2", "close">>[id], !.got = Head(stdout)]
    BY <1>4 DEF Mcp!ReadResponse, Mcp!Wanted
  <2>6. CASE call' = call
    <3>1. SentSoFar'
      BY <1>0, <2>1, <2>6 DEF SentSoFar
    <3>2. QED
      BY <1>0, <1>t, <1>i, <2>1, <2>4, <2>6, <3>1
  <2>7. CASE call' = [call EXCEPT !.pc = "failed"]
    <3>1. call' \in [pc : Places, got : Answers, answer : Answers] /\ call'.pc = "failed"
      BY <1>0, <2>7, CallMoves DEF Places
    <3>2. SentSoFar'
      BY <3>1 DEF SentSoFar
    <3>3. QED
      BY <1>t, <1>i, <2>1, <2>4, <3>1, <3>2
  <2>8. CASE /\ stdout # <<>> /\ Head(stdout).kind = "result" /\ Head(stdout).id = id
             /\ call' = [call EXCEPT !.pc = <<"send 2", "close">>[id], !.got = Head(stdout)]
    <3> DEFINE to == <<"send 2", "close">>[id]
               line == Head(stdout)
    <3>1. call' = [call EXCEPT !.pc = to, !.got = line] /\ line.id = id /\ line.kind = "result"
      BY <2>8, Zenon
    <3>2. to \in Places /\ line \in Answers /\ to = (IF id = 1 THEN "send 2" ELSE "close")
      BY <2>0, <2>3, <2>8 DEF Places, Answers
    <3>3. /\ call' \in [pc : Places, got : Answers, answer : Answers]
          /\ call'.pc = to /\ call'.got = line
      <4> HIDE DEF to, line
      <4> QED
        BY <1>t, <3>1, <3>2
    <3>4. SentSoFar'
      BY <1>0, <2>1, <2>2, <3>2, <3>3 DEF SentSoFar
    <3>5. call'.pc \in {"close", "wait"} => call'.got.id = 2 /\ call'.got.kind = "result"
      BY <2>2, <3>1, <3>2, <3>3
    <3>6. call'.pc # "returned"
      BY <3>2, <3>3
    <3>7. QED
      BY <1>t, <1>i, <2>1, <2>4, <3>3, <3>4, <3>5, <3>6
  <2>9. QED
    BY <2>5, <2>6, <2>7, <2>8
<1>5. CASE Mcp!CloseStdin
  <2>1. /\ call' = [call EXCEPT !.pc = "wait"] /\ UNCHANGED <<stdout, written, server>>
        /\ stdin' = [stdin EXCEPT !.open = FALSE] /\ call.pc = "close"
    BY <1>5 DEF Mcp!CloseStdin
  <2>2. call' \in [pc : Places, got : Answers, answer : Answers] /\ call'.pc = "wait" /\ call'.got = call.got
    BY <1>0, <2>1, CallMoves DEF Places
  <2>3. stdin' \in [sent : SUBSET {1, 2}, open : BOOLEAN] /\ stdin'.sent = stdin.sent
    BY <1>t, <2>1
  <2>4. SentSoFar'
    BY <1>0, <2>1, <2>2, <2>3 DEF SentSoFar
  <2>5. QED
    BY <1>0, <1>t, <1>i, <2>1, <2>2, <2>3, <2>4
<1>6. CASE Mcp!Wait
  <2>1. /\ call' = [call EXCEPT !.pc = "returned", !.answer = call.got]
        /\ UNCHANGED <<stdin, stdout, written, server>> /\ call.pc = "wait" /\ server = "exited"
    BY <1>6 DEF Mcp!Wait
  <2>2. /\ call' \in [pc : Places, got : Answers, answer : Answers]
        /\ call'.pc = "returned" /\ call'.answer = call.got
    BY <1>t, <2>1 DEF Places
  <2>3. SentSoFar'
    BY <1>0, <2>1, <2>2 DEF SentSoFar
  <2>4. stdin.sent = {1, 2}
    BY <1>0, <2>1 DEF SentSoFar
  <2>5. QED
    BY <1>0, <1>t, <1>i, <2>1, <2>2, <2>3, <2>4
<1>7. CASE Mcp!Timeout
  <2>1. /\ call' = [call EXCEPT !.pc = "timed out"] /\ UNCHANGED <<stdout, written, server>>
        /\ stdin' = [stdin EXCEPT !.open = FALSE]
    BY <1>7 DEF Mcp!Timeout
  <2>2. call' \in [pc : Places, got : Answers, answer : Answers] /\ call'.pc = "timed out"
    BY <1>0, <2>1, CallMoves DEF Places
  <2>3. stdin' \in [sent : SUBSET {1, 2}, open : BOOLEAN]
    BY <1>t, <2>1
  <2>4. SentSoFar'
    BY <2>2 DEF SentSoFar
  <2>5. QED
    BY <1>t, <1>i, <2>1, <2>2, <2>3, <2>4
<1>8. ASSUME NEW line \in Mcp!Lines, Mcp!Writes(line) PROVE McpInv'
  <2>1. UNCHANGED <<call, stdin, server>> /\ stdout' = Append(stdout, line) /\ written' = written + 1 /\ written < MaxLines
    BY <1>8 DEF Mcp!Writes
  <2>2. stdout' \in Seq(Mcp!Lines)
    BY <1>t, <2>1, AppendProperties
  <2>3. written' \in 0..MaxLines
    BY <1>t, <2>1
  <2>4. SentSoFar'
    BY <1>0, <2>1 DEF SentSoFar
  <2>5. QED
    BY <1>0, <1>t, <1>i, <2>1, <2>2, <2>3, <2>4
<1>9. CASE Mcp!Exits
  <2>1. UNCHANGED <<call, stdin, stdout, written>> /\ server' = "exited"
    BY <1>9 DEF Mcp!Exits
  <2>2. SentSoFar'
    BY <1>0, <2>1 DEF SentSoFar
  <2>3. QED
    BY <1>0, <1>t, <1>i, <2>1, <2>2
<1>10. CASE UNCHANGED Mcp!vars
  <2>1. UNCHANGED <<call, stdin, stdout, written, server>>
    BY <1>10 DEF Mcp!vars
  <2>2. SentSoFar'
    BY <1>0, <2>1 DEF SentSoFar
  <2>3. QED
    BY <1>0, <1>t, <1>i, <2>1, <2>2
<1>11. QED
  BY <1>1, <1>2, <1>3, <1>4, <1>5, <1>6, <1>7, <1>8, <1>9, <1>10
     DEF Mcp!Next, Mcp!CallStep, Mcp!Initialize, Mcp!ToolsCall

LEMMA McpInit == ASSUME McpConstants, Mcp!Init PROVE McpInv
BY DEF McpConstants, Mcp!Init, McpInv, McpTypes, SentSoFar, Mcp!ResultIsOfTheCall, Places, Answers

\* handle returns the result of tools/call and nothing else from the pipe, of a
\* server that may write any number of lines in any order.
THEOREM McpReturnsItsResult ==
  ASSUME McpConstants
  PROVE  Mcp!Spec => [](Mcp!TypeOK /\ Mcp!ResultIsOfTheCall)
<1>1. Mcp!Init => McpInv
  BY McpInit
<1>2. McpInv /\ [Mcp!Next]_Mcp!vars => McpInv'
  BY McpStep
<1>3. McpInv => Mcp!TypeOK /\ Mcp!ResultIsOfTheCall
  BY DEF McpInv, McpTypes, Mcp!TypeOK, Mcp!Over, Mcp!Initialize, Mcp!ToolsCall, Places
<1>4. QED
  BY <1>1, <1>2, <1>3, PTL DEF Mcp!Spec

\* Ranks tell the members apart.
LEMMA RanksDiffer ==
  ASSUME NEW S, IsFiniteSet(S), S \subseteq Nat, NEW i \in S, NEW j \in S
  PROVE  /\ Rank(i, S) \in Nat
         /\ Rank(i, S) = Rank(j, S) => i = j
         /\ Rank(i, S) < Rank(j, S) => i < j
<1>1. /\ Rank(i, S) \in 0..(Cardinality(S) - 1) /\ Rank(j, S) \in 0..(Cardinality(S) - 1)
      /\ i < j => Rank(i, S) < Rank(j, S)
      /\ j < i => Rank(j, S) < Rank(i, S)
  BY RankFacts
<1>2. Cardinality(S) \in Nat
  BY FS_CardinalityType
<1>3. i \in Nat /\ j \in Nat
  OBVIOUS
<1>4. QED
  BY <1>1, <1>2, <1>3

\* A finite nonempty set of numbers has a last one.
LEMMA LastNumber ==
  ASSUME NEW S, IsFiniteSet(S), S \subseteq Nat, S # {}
  PROVE  \E i \in S : \A j \in S : j <= i
<1>1. Cardinality(S) \in Nat /\ Cardinality(S) # 0
  BY FS_CardinalityType, FS_EmptySet
<1>2. PICK i \in S : Rank(i, S) = Cardinality(S) - 1
  <2>1. Cardinality(S) - 1 \in 0..(Cardinality(S) - 1)
    BY <1>1
  <2>2. QED
    BY <2>1, RanksAreFilled
<1>3. \A j \in S : ~(i < j)
  <2> SUFFICES ASSUME NEW j \in S, i < j PROVE FALSE
    OBVIOUS
  <2>1. Rank(i, S) < Rank(j, S) /\ Rank(j, S) \in 0..(Cardinality(S) - 1)
    BY RankFacts
  <2>2. QED
    BY <1>1, <1>2, <2>1
<1>4. QED
  BY <1>3

---------------------------------------------------------------------------
(* tail --follow.                                                          *)

CONSTANTS Ids, FirstBatch, PageSize

VARIABLES table, tail, before, overtaken

Follow == INSTANCE Tail

\* Ids are ordered as numbers; the limits are numbers.
TailConstants == Ids \subseteq Nat \ {0} /\ FirstBatch \in Nat /\ PageSize \in Nat

LEMMA FollowCounts ==
  /\ \A S : Follow!Cardinality(S) = Cardinality(S)
  /\ \A i, S : Follow!Rank(i, S) = Rank(i, S)
BY DEF Follow!Cardinality, Cardinality, Follow!Rank, Rank

LEMMA FollowMax ==
  ASSUME NEW S, IsFiniteSet(S), S \subseteq Nat, S # {}
  PROVE  Follow!Max(S) \in S /\ \A j \in S : j <= Follow!Max(S)
<1>1. \E i \in S : \A j \in S : i >= j
  <2>1. PICK i \in S : \A j \in S : j <= i
    BY LastNumber
  <2>2. QED
    BY <2>1
<1>2. Follow!Max(S) \in S /\ \A j \in S : Follow!Max(S) >= j
  BY <1>1 DEF Follow!Max
<1>3. QED
  BY <1>2

\* The rows of a page come out in order, each once.
LEMMA AscendingSorts ==
  ASSUME NEW S, IsFiniteSet(S), S \subseteq Nat
  PROVE  LET s == Follow!Ascending(S) IN
         /\ s \in Seq(S)
         /\ \A m, n \in DOMAIN s : m < n => s[m] < s[n]
         /\ \A i \in S : \E n \in DOMAIN s : s[n] = i
<1> DEFINE s == Follow!Ascending(S)
           N == Cardinality(S)
<1>1. N \in Nat
  BY FS_CardinalityType
<1>2. s = [n \in 1..N |-> CHOOSE id \in S : Rank(id, S) = n - 1]
  BY FollowCounts DEF Follow!Ascending
<1>3. \A n \in 1..N : s[n] \in S /\ Rank(s[n], S) = n - 1
  <2> SUFFICES ASSUME NEW n \in 1..N PROVE s[n] \in S /\ Rank(s[n], S) = n - 1
    OBVIOUS
  <2>1. n - 1 \in 0..(N - 1)
    BY <1>1
  <2>2. \E i \in S : Rank(i, S) = n - 1
    BY <2>1, RanksAreFilled
  <2>3. s[n] = CHOOSE id \in S : Rank(id, S) = n - 1
    BY <1>2
  <2>4. QED
    BY <2>2, <2>3
<1> HIDE DEF s
<1>4. DOMAIN s = 1..N
  BY <1>2
<1>5. s \in Seq(S)
  <2>1. s \in [1..N -> S]
    BY <1>2, <1>3
  <2>2. QED
    BY <1>1, <2>1
<1>7. \A m, n \in 1..N : m < n => s[m] < s[n]
  <2> SUFFICES ASSUME NEW m \in 1..N, NEW n \in 1..N, m < n PROVE s[m] < s[n]
    OBVIOUS
  <2>1. Rank(s[m], S) = m - 1 /\ Rank(s[n], S) = n - 1 /\ s[m] \in S /\ s[n] \in S
    BY <1>3
  <2>2. Rank(s[m], S) < Rank(s[n], S)
    BY <2>1
  <2>3. QED
    BY <2>1, <2>2, RanksDiffer
<1>8. \A i \in S : \E n \in 1..N : s[n] = i
  <2> SUFFICES ASSUME NEW i \in S PROVE \E n \in 1..N : s[n] = i
    OBVIOUS
  <2>1. Rank(i, S) \in 0..(N - 1)
    BY RankFacts
  <2> DEFINE n == Rank(i, S) + 1
  <2>2. n \in 1..N /\ n - 1 = Rank(i, S)
    BY <1>1, <2>1
  <2>3. s[n] \in S /\ Rank(s[n], S) = Rank(i, S)
    BY <1>3, <2>2
  <2>4. s[n] = i
    BY <2>3, RanksDiffer
  <2>5. QED
    BY <2>2, <2>4
<1>9. QED
  BY <1>4, <1>5, <1>7, <1>8 DEF s

Listings == [pc : {"start", "follow"}, last : Nat, printed : Seq(Ids)]

TailTypes ==
  /\ table \subseteq Ids /\ IsFiniteSet(table) /\ before \subseteq table
  /\ tail \in Listings
  /\ tail.last \in table \cup {0}
  /\ \A n \in DOMAIN tail.printed : tail.printed[n] <= tail.last

\* Nothing is printed before the first query.
TailStarts == tail.pc = "start" => tail.last = 0 /\ tail.printed = <<>>

TailInv == TailTypes /\ TailStarts /\ Follow!TailIsComplete

\* Rows above the cursor are printed after all others, and it moves to the last of them.
LEMMA PrintingKeeps ==
  ASSUME TailConstants, TailInv, NEW rows \in SUBSET table, \A i \in rows : i > tail.last,
         Follow!Printing(rows)
  PROVE  /\ tail' \in Listings /\ tail'.pc = "follow"
         /\ tail'.last \in table \cup {0} /\ tail'.last >= tail.last
         /\ \A i \in rows : i <= tail'.last
         /\ rows = {} \/ tail'.last \in rows
         /\ \A n \in DOMAIN tail'.printed : tail'.printed[n] <= tail'.last
         /\ \A m, n \in DOMAIN tail'.printed : m < n => tail'.printed[m] < tail'.printed[n]
         /\ Follow!Printed' = Follow!Printed \cup rows
<1> DEFINE s == tail.printed
           t == Follow!Ascending(rows)
           last == IF rows = {} THEN tail.last ELSE Follow!Max(rows)
<1>1. /\ rows \subseteq Nat /\ IsFiniteSet(rows) /\ rows \subseteq Ids /\ table \subseteq Nat
      /\ tail.last \in Nat /\ s \in Seq(Ids) /\ Ids \subseteq Nat
      /\ \A m, n \in DOMAIN s : m < n => s[m] < s[n]
      /\ \A n \in DOMAIN s : s[n] <= tail.last
      /\ tail.last \in table \cup {0}
  <2>1. IsFiniteSet(rows)
    BY FS_Subset DEF TailInv, TailTypes
  <2>2. QED
    BY <2>1 DEF TailInv, TailTypes, TailConstants, Listings, Follow!TailIsComplete
<1>2. tail' = [pc |-> "follow", printed |-> s \o t, last |-> last]
  BY DEF Follow!Printing
<1>3. /\ t \in Seq(rows)
      /\ \A m, n \in DOMAIN t : m < n => t[m] < t[n]
      /\ \A i \in rows : \E n \in DOMAIN t : t[n] = i
  BY <1>1, AscendingSorts
<1>4. /\ last \in table \cup {0} /\ last \in Nat /\ last >= tail.last
      /\ \A i \in rows : i <= last
      /\ rows = {} \/ last \in rows
  <2>1. CASE rows = {}
    BY <1>1, <2>1
  <2>2. CASE rows # {}
    <3>1. Follow!Max(rows) \in rows /\ \A j \in rows : j <= Follow!Max(rows)
      BY <1>1, <2>2, FollowMax
    <3>2. last = Follow!Max(rows)
      BY <2>2
    <3>3. last \in rows /\ last \in Nat /\ last > tail.last
      BY <1>1, <3>1, <3>2
    <3>4. QED
      BY <1>1, <3>1, <3>2, <3>3
  <2>3. QED
    BY <2>1, <2>2
<1> HIDE DEF last, t
<1>5. /\ tail'.pc = "follow" /\ tail'.printed = s \o t /\ tail'.last = last
  BY <1>2
<1>6. /\ Len(s) \in Nat /\ Len(t) \in Nat /\ DOMAIN s = 1..Len(s) /\ DOMAIN t = 1..Len(t)
      /\ s \o t \in Seq(Ids) /\ DOMAIN (s \o t) = 1..(Len(s) + Len(t))
      /\ \A n \in 1..Len(s) : (s \o t)[n] = s[n]
      /\ \A n \in 1..Len(t) : (s \o t)[Len(s) + n] = t[n]
  <2>1. t \in Seq(Ids)
    <3>1. t \in [1..Len(t) -> rows] /\ Len(t) \in Nat
      BY <1>3
    <3>2. t \in [1..Len(t) -> Ids]
      BY <1>1, <3>1
    <3>3. QED
      BY <3>1, <3>2
  <2>2. s \o t \in Seq(Ids)
    BY <1>1, <2>1
  <2>3. QED
    BY <1>1, <2>1, <2>2
<1> DEFINE u == s \o t
<1>7. \A n \in DOMAIN u : \/ n \in 1..Len(s) /\ u[n] = s[n]
                          \/ n > Len(s) /\ n - Len(s) \in 1..Len(t) /\ u[n] = t[n - Len(s)]
  <2> SUFFICES ASSUME NEW n \in DOMAIN u
               PROVE  \/ n \in 1..Len(s) /\ u[n] = s[n]
                      \/ n > Len(s) /\ n - Len(s) \in 1..Len(t) /\ u[n] = t[n - Len(s)]
    OBVIOUS
  <2>1. CASE n <= Len(s)
    BY <1>6, <2>1
  <2>2. CASE n > Len(s)
    <3>1. n - Len(s) \in 1..Len(t) /\ Len(s) + (n - Len(s)) = n
      BY <1>6, <2>2
    <3>2. (s \o t)[Len(s) + (n - Len(s))] = t[n - Len(s)]
      BY <1>6, <3>1
    <3>3. QED
      BY <2>2, <3>1, <3>2
  <2>3. QED
    BY <1>6, <2>1, <2>2
<1>8. \A n \in 1..Len(t) : t[n] \in rows /\ t[n] \in Nat /\ t[n] > tail.last /\ t[n] <= last
  <2> SUFFICES ASSUME NEW n \in 1..Len(t)
               PROVE  t[n] \in rows /\ t[n] \in Nat /\ t[n] > tail.last /\ t[n] <= last
    OBVIOUS
  <2>1. t[n] \in rows
    BY <1>3
  <2>2. QED
    BY <1>1, <1>4, <2>1
<1>9. \A n \in 1..Len(s) : s[n] \in Nat /\ s[n] <= tail.last
  <2> SUFFICES ASSUME NEW n \in 1..Len(s) PROVE s[n] \in Nat /\ s[n] <= tail.last
    OBVIOUS
  <2>1. s[n] \in Ids
    BY <1>1
  <2>2. QED
    BY <1>1, <1>6, <2>1
<1> HIDE DEF u
<1>10. \A n \in DOMAIN u : u[n] <= last
  BY <1>1, <1>4, <1>7, <1>8, <1>9
<1>11. \A m, n \in DOMAIN u : m < n => u[m] < u[n]
  <2> SUFFICES ASSUME NEW m \in DOMAIN u, NEW n \in DOMAIN u, m < n PROVE u[m] < u[n]
    OBVIOUS
  <2>0. m \in Nat /\ n \in Nat
    BY <1>6 DEF u
  <2>1. CASE n <= Len(s)
    BY <1>1, <1>6, <1>7, <2>0, <2>1
  <2>2. CASE m > Len(s)
    <3>1. /\ m - Len(s) \in 1..Len(t) /\ u[m] = t[m - Len(s)]
          /\ n - Len(s) \in 1..Len(t) /\ u[n] = t[n - Len(s)]
      BY <1>6, <1>7, <2>0, <2>2
    <3>2. m - Len(s) < n - Len(s)
      BY <1>6, <2>0
    <3>3. QED
      BY <1>3, <1>6, <3>1, <3>2
  <2>3. CASE m <= Len(s) /\ n > Len(s)
    <3>1. u[m] = s[m] /\ m \in 1..Len(s)
      BY <1>6, <1>7, <2>0, <2>3
    <3>2. u[n] = t[n - Len(s)] /\ n - Len(s) \in 1..Len(t)
      BY <1>6, <1>7, <2>0, <2>3
    <3>3. s[m] \in Nat /\ s[m] <= tail.last
      BY <1>9, <3>1
    <3>4. t[n - Len(s)] \in Nat /\ t[n - Len(s)] > tail.last
      BY <1>8, <3>2
    <3>5. QED
      BY <1>1, <3>1, <3>2, <3>3, <3>4
  <2>4. QED
    BY <1>6, <2>0, <2>1, <2>2, <2>3
<1>12. {u[n] : n \in DOMAIN u} = {s[n] : n \in DOMAIN s} \cup rows
  <2>1. {u[n] : n \in DOMAIN u} \subseteq {s[n] : n \in DOMAIN s} \cup rows
    BY <1>6, <1>7, <1>8
  <2>2. {s[n] : n \in DOMAIN s} \subseteq {u[n] : n \in DOMAIN u}
    <3> SUFFICES ASSUME NEW n \in 1..Len(s) PROVE n \in DOMAIN u /\ u[n] = s[n]
      BY <1>6
    <3>1. QED
      BY <1>6 DEF u
  <2>3. rows \subseteq {u[n] : n \in DOMAIN u}
    <3> SUFFICES ASSUME NEW i \in rows PROVE \E n \in DOMAIN u : u[n] = i
      OBVIOUS
    <3>1. PICK n \in DOMAIN t : t[n] = i
      BY <1>3
    <3>2. Len(s) + n \in DOMAIN u /\ u[Len(s) + n] = t[n]
      BY <1>6 DEF u
    <3>3. QED
      BY <3>1, <3>2
  <2>4. QED
    BY <2>1, <2>2, <2>3
<1>13. Follow!Printed' = {u[n] : n \in DOMAIN u} /\ Follow!Printed = {s[n] : n \in DOMAIN s}
  BY <1>5 DEF Follow!Printed, u
<1>14. tail' \in Listings
  BY <1>2, <1>4, <1>6 DEF Listings
<1>15. QED
  BY <1>4, <1>5, <1>10, <1>11, <1>12, <1>13, <1>14 DEF u

\* Events older than the first batch.
TooOld == {i \in before : Cardinality({r \in before : r > i}) >= FirstBatch}

LEMMA TailReads ==
  /\ Follow!TailIsComplete <=>
       /\ \A m, n \in DOMAIN tail.printed : m < n => tail.printed[m] < tail.printed[n]
       /\ tail.pc = "follow" =>
            \A id \in table : id <= tail.last => id \in Follow!Printed \cup overtaken \cup TooOld
BY FollowCounts DEF Follow!TailIsComplete, TooOld

LEMMA TailInit == ASSUME TailConstants, Follow!TailInit PROVE TailInv
<1>1. table = {} /\ before = {} /\ tail = [pc |-> "start", last |-> 0, printed |-> <<>>]
  BY DEF Follow!TailInit
<1>2. IsFiniteSet(table)
  BY <1>1, FS_EmptySet
<1>3. tail.pc = "start" /\ tail.last = 0 /\ tail.printed = <<>> /\ tail \in Listings
  BY <1>1 DEF Listings
<1>4. Follow!TailIsComplete
  BY <1>3, TailReads
<1>5. QED
  BY <1>1, <1>2, <1>3, <1>4 DEF TailInv, TailTypes, TailStarts

LEMMA TailInsertKeeps ==
  ASSUME TailConstants, TailInv, NEW id \in Ids, Follow!Insert(id)
  PROVE  TailInv'
<1>1. /\ id \notin table /\ table' = table \cup {id} /\ tail' = tail /\ before' = before
      /\ overtaken' = IF id < tail.last THEN overtaken \cup {id} ELSE overtaken
  BY DEF Follow!Insert
<1>2. /\ table \subseteq Ids /\ IsFiniteSet(table) /\ before \subseteq table /\ tail \in Listings
      /\ tail.last \in table \cup {0} /\ Ids \subseteq Nat \ {0}
      /\ \A n \in DOMAIN tail.printed : tail.printed[n] <= tail.last
  BY DEF TailInv, TailTypes, TailConstants
<1>3. IsFiniteSet(table')
  BY <1>1, <1>2, FS_AddElement
<1>4. TailTypes'
  BY <1>1, <1>2, <1>3 DEF TailTypes
<1>5. TailStarts'
  BY <1>1 DEF TailInv, TailStarts
<1>6. Follow!Printed' = Follow!Printed /\ TooOld' = TooOld
  BY <1>1 DEF Follow!Printed, TooOld
<1>7. ASSUME tail'.pc = "follow", NEW i \in table', i <= tail'.last
      PROVE  i \in Follow!Printed' \cup overtaken' \cup TooOld'
  <2>1. CASE i \in table
    <3>1. i \in Follow!Printed \cup overtaken \cup TooOld
      BY <1>1, <1>7, <2>1, TailReads DEF TailInv
    <3>2. QED
      BY <1>1, <1>6, <3>1
  <2>2. CASE i = id
    <3>0. id \in Nat /\ id # 0 /\ tail.last \in Nat
      BY <1>2 DEF Listings
    <3>1. id <= tail.last /\ id # tail.last
      BY <1>1, <1>2, <1>7, <2>2, <3>0
    <3>2. QED
      BY <1>1, <2>2, <3>0, <3>1
  <2>3. QED
    BY <1>1, <1>7, <2>1, <2>2
<1>8. \A m, n \in DOMAIN tail'.printed : m < n => tail'.printed[m] < tail'.printed[n]
  BY <1>1, TailReads DEF TailInv
<1>9. Follow!TailIsComplete'
  <2>1. /\ \A m, n \in DOMAIN tail'.printed : m < n => tail'.printed[m] < tail'.printed[n]
        /\ tail'.pc = "follow" =>
            \A i \in table' : i <= tail'.last => i \in Follow!Printed' \cup overtaken' \cup TooOld'
    BY <1>7, <1>8
  <2>2. QED
    BY <2>1, FollowCounts DEF Follow!TailIsComplete, TooOld
<1>10. QED
  BY <1>4, <1>5, <1>9 DEF TailInv

LEMMA FetchRecentKeeps ==
  ASSUME TailConstants, TailInv, Follow!FetchRecent
  PROVE  TailInv'
<1> DEFINE Newer(i) == {r \in table : r > i}
           rows == {i \in table : Cardinality(Newer(i)) < FirstBatch}
<1>1. /\ tail.pc = "start" /\ before' = table /\ UNCHANGED <<table, overtaken>>
      /\ Follow!Printing(rows)
  BY FollowCounts DEF Follow!FetchRecent
<1>2. /\ table \subseteq Ids /\ IsFiniteSet(table) /\ Ids \subseteq Nat \ {0} /\ FirstBatch \in Nat
      /\ tail.last = 0
  BY <1>1 DEF TailInv, TailTypes, TailConstants, TailStarts
<1>3. /\ tail' \in Listings /\ tail'.pc = "follow"
      /\ tail'.last \in table \cup {0}
      /\ \A n \in DOMAIN tail'.printed : tail'.printed[n] <= tail'.last
      /\ \A m, n \in DOMAIN tail'.printed : m < n => tail'.printed[m] < tail'.printed[n]
      /\ Follow!Printed' = Follow!Printed \cup rows
  <2>1. rows \in SUBSET table
    OBVIOUS
  <2>2. \A i \in rows : i > tail.last
    BY <1>2
  <2> HIDE DEF rows
  <2>3. QED
    BY <1>1, <2>1, <2>2, PrintingKeeps
<1>4. TailTypes' /\ TailStarts'
  BY <1>1, <1>2, <1>3 DEF TailTypes, TailStarts
<1>5. TooOld' = {i \in table : Cardinality(Newer(i)) >= FirstBatch}
  BY <1>1 DEF TooOld
<1>6. ASSUME NEW i \in table PROVE i \in rows \/ i \in TooOld'
  <2>1. Newer(i) \in SUBSET table
    OBVIOUS
  <2>2. Cardinality(Newer(i)) \in Nat
    BY <1>2, <2>1, FS_Subset, FS_CardinalityType
  <2>3. QED
    BY <1>2, <1>5, <2>2
<1>7. Follow!TailIsComplete'
  <2>1. \A i \in table' : i \in Follow!Printed' \cup overtaken' \cup TooOld'
    BY <1>1, <1>3, <1>6
  <2>2. QED
    BY <1>3, <2>1, FollowCounts DEF Follow!TailIsComplete, TooOld
<1>8. QED
  BY <1>4, <1>7 DEF TailInv

LEMMA FetchSinceKeeps ==
  ASSUME TailConstants, TailInv, Follow!FetchSince
  PROVE  TailInv'
<1> DEFINE above == {i \in table : i > tail.last}
           rows == {i \in above : Rank(i, above) < PageSize}
<1>1. /\ tail.pc = "follow" /\ UNCHANGED <<table, before, overtaken>>
      /\ Follow!Printing(rows)
  BY FollowCounts DEF Follow!FetchSince, Follow!Page
<1>2. /\ table \subseteq Ids /\ IsFiniteSet(table) /\ Ids \subseteq Nat \ {0} /\ PageSize \in Nat
      /\ before \subseteq table /\ tail.last \in Nat
  BY DEF TailInv, TailTypes, TailConstants, Listings
<1>3. /\ tail' \in Listings /\ tail'.pc = "follow"
      /\ tail'.last \in table \cup {0} /\ tail'.last >= tail.last
      /\ rows = {} \/ tail'.last \in rows
      /\ \A n \in DOMAIN tail'.printed : tail'.printed[n] <= tail'.last
      /\ \A m, n \in DOMAIN tail'.printed : m < n => tail'.printed[m] < tail'.printed[n]
      /\ Follow!Printed' = Follow!Printed \cup rows
  <2>1. rows \in SUBSET table
    OBVIOUS
  <2>2. \A i \in rows : i > tail.last
    OBVIOUS
  <2> HIDE DEF rows
  <2>3. QED
    BY <1>1, <2>1, <2>2, PrintingKeeps
<1>4. TailTypes' /\ TailStarts'
  BY <1>1, <1>2, <1>3 DEF TailTypes, TailStarts
<1>5. TooOld' = TooOld
  BY <1>1 DEF TooOld
<1>6. IsFiniteSet(above) /\ above \subseteq Nat
  <2>1. above \in SUBSET table
    OBVIOUS
  <2>2. QED
    BY <1>2, <2>1, FS_Subset
<1>7. rows = {} => tail'.last = tail.last
  BY <1>1 DEF Follow!Printing
<1>8. ASSUME NEW i \in table, i <= tail'.last PROVE i \in Follow!Printed' \cup overtaken' \cup TooOld'
  <2>1. CASE i <= tail.last
    <3>1. i \in Follow!Printed \cup overtaken \cup TooOld
      BY <1>1, <2>1, TailReads DEF TailInv
    <3>2. QED
      BY <1>1, <1>3, <1>5, <3>1
  <2>2. CASE ~(i <= tail.last)
    <3>0. PICK top : top = tail'.last
      OBVIOUS
    <3>1. i \in above /\ i \in Nat
      BY <1>2, <2>2
    <3>2. rows # {}
      BY <1>7, <1>8, <2>2
    <3>3. top \in above /\ Rank(top, above) < PageSize
      BY <1>3, <3>0, <3>2
    <3>4. i = top \/ i < top
      BY <1>6, <1>8, <3>0, <3>1, <3>3
    <3>5. i < top => Rank(i, above) < Rank(top, above)
      <4> HIDE DEF above
      <4> QED
        BY <1>6, <3>1, <3>3, RankFacts
    <3>6. Rank(i, above) \in Nat /\ Rank(top, above) \in Nat
      <4> HIDE DEF above
      <4> QED
        BY <1>6, <3>1, <3>3, RanksDiffer
    <3>7. i \in rows
      BY <1>2, <3>1, <3>3, <3>4, <3>5, <3>6
    <3>8. QED
      BY <1>3, <3>7
  <2>3. QED
    BY <2>1, <2>2
<1>9. Follow!TailIsComplete'
  <2>1. \A i \in table' : i <= tail'.last => i \in Follow!Printed' \cup overtaken' \cup TooOld'
    BY <1>1, <1>8
  <2>2. QED
    BY <1>3, <2>1, FollowCounts DEF Follow!TailIsComplete, TooOld
<1>10. QED
  BY <1>4, <1>9 DEF TailInv

\* tail prints every event once and in order, and leaves out only what is older
\* than the first batch or came in below the cursor.
THEOREM TailLosesNothing ==
  ASSUME TailConstants
  PROVE  Follow!TailSpec => []Follow!TailIsComplete
<1>1. Follow!TailInit => TailInv
  BY TailInit
<1>2. TailInv /\ [Follow!TailNext]_Follow!tailVars => TailInv'
  <2> SUFFICES ASSUME TailInv, [Follow!TailNext]_Follow!tailVars PROVE TailInv'
    OBVIOUS
  <2>1. CASE UNCHANGED Follow!tailVars
    <3>1. UNCHANGED <<table, tail, before, overtaken>>
      BY <2>1 DEF Follow!tailVars
    <3>2. TailTypes' /\ TailStarts'
      BY <3>1 DEF TailInv, TailTypes, TailStarts
    <3>3. Follow!TailIsComplete'
      BY <3>1, FollowCounts DEF TailInv, Follow!TailIsComplete, Follow!Printed
    <3>4. QED
      BY <3>2, <3>3 DEF TailInv
  <2>2. QED
    BY <2>1, TailInsertKeeps, FetchRecentKeeps, FetchSinceKeeps DEF Follow!TailNext
<1>3. TailInv => Follow!TailIsComplete
  BY DEF TailInv
<1>4. QED
  BY <1>1, <1>2, <1>3, PTL DEF Follow!TailSpec

---------------------------------------------------------------------------
(* run_migrations.                                                         *)

CONSTANTS Scripts, Repeatable, Procs, MaxStops

VARIABLES applied, recorded, proc, stops, broken

Schema == INSTANCE Migrations

SchemaConstants == Scripts \in Seq(Nat)

\* The statements of the bundled scripts, and their order.
Statements == {t \in (1..Len(Scripts)) \X (Nat \ {0}) : t[2] <= Scripts[t[1]]}
Earlier(t, u) == t[1] < u[1] \/ (t[1] = u[1] /\ t[2] < u[2])

InEffect == {applied[i] : i \in DOMAIN applied}

Openers == [pc : {"closed", "check", "apply", "record", "open", "failed"},
            migration : 1..(Len(Scripts) + 1), statement : Nat \ {0}]

\* What took effect has no gap before it, and a script is begun only when those
\* before it are recorded.
EffectInv ==
  /\ applied \in Seq(Statements) /\ recorded \subseteq 1..Len(Scripts)
  /\ \A i, j \in DOMAIN applied : i < j => Earlier(applied[i], applied[j])
  /\ \A t \in InEffect, u \in Statements : Earlier(u, t) => u \in InEffect
  /\ \A t \in InEffect : 1..(t[1] - 1) \subseteq recorded
  /\ \A m \in recorded : 1..m \subseteq recorded
  /\ \A u \in Statements : u[1] \in recorded => u \in InEffect

\* How far a process has come.
ProcInv(c) ==
  /\ c.pc \in {"check", "apply", "record"} => 1..(c.migration - 1) \subseteq recorded
  /\ c.pc \in {"apply", "record"} => c.migration \in 1..Len(Scripts)
  /\ c.pc = "apply" => \A u \in Statements : u[1] = c.migration /\ u[2] < c.statement => u \in InEffect
  /\ c.pc = "record" => \A u \in Statements : u[1] = c.migration => u \in InEffect
  /\ c.pc = "open" => recorded = 1..Len(Scripts)

\* The process that applied the last statement stands right behind it.
Leads(c, t) == c.migration = t[1] /\ (c.pc = "record" \/ (c.pc = "apply" /\ c.statement = t[2] + 1))

\* While its script is not recorded, the last statement has such a process.
Led ==
  \A t \in InEffect :
    (\A u \in InEffect : ~Earlier(t, u)) =>
       t[1] \in recorded \/ broken \/ \E p \in Procs : Leads(proc[p], t)

SchemaInv ==
  /\ EffectInv /\ Led
  /\ proc \in [Procs -> Openers] /\ broken \in BOOLEAN
  /\ \A p \in Procs : ProcInv(proc[p])

LEMMA DoneReads == \A t : Schema!Done(t) <=> t \in InEffect
BY DEF Schema!Done, InEffect

LEMMA EarlierOrders ==
  ASSUME NEW t \in Statements, NEW u \in Statements
  PROVE  /\ Earlier(t, u) \/ Earlier(u, t) \/ t = u
         /\ ~Earlier(t, t)
         /\ \A v \in Statements : Earlier(t, u) /\ Earlier(u, v) => Earlier(t, v)
<1>1. \A s \in Statements : s[1] \in Nat /\ s[2] \in Nat /\ s = <<s[1], s[2]>>
  BY DEF Statements
<1>2. QED
  BY <1>1 DEF Earlier

\* One process moves; the rows stay.
LEMMA ProcOnlyMoves ==
  ASSUME SchemaInv, NEW p \in Procs, NEW c \in Openers,
         proc' = [proc EXCEPT ![p] = c], UNCHANGED <<applied, recorded>>, broken' \in BOOLEAN, broken => broken',
         ProcInv(c),
         \A t \in InEffect : Leads(proc[p], t) /\ (\A u \in InEffect : ~Earlier(t, u))
                               => t[1] \in recorded \/ broken' \/ Leads(c, t)
  PROVE  SchemaInv'
<1>1. InEffect' = InEffect
  BY DEF InEffect
<1>2. EffectInv'
  BY <1>1 DEF SchemaInv, EffectInv
<1>3. \A d : ProcInv(d) => ProcInv(d)'
  BY <1>1 DEF ProcInv
<1>4. proc' \in [Procs -> Openers] /\ \A q \in Procs : proc'[q] = IF q = p THEN c ELSE proc[q]
  BY DEF SchemaInv
<1>5. \A q \in Procs : ProcInv(proc'[q])
  BY <1>4 DEF SchemaInv
<1>6. \A q \in Procs : ProcInv(proc[q])'
  <2> SUFFICES ASSUME NEW q \in Procs PROVE ProcInv(proc[q])'
    OBVIOUS
  <2>1. PICK d : d = proc'[q]
    OBVIOUS
  <2>2. ProcInv(d)'
    BY <1>3, <1>5, <2>1
  <2>3. QED
    BY <2>1, <2>2 DEF ProcInv
<1>7. Led'
  <2> SUFFICES ASSUME NEW t \in InEffect, \A u \in InEffect : ~Earlier(t, u)
               PROVE  t[1] \in recorded \/ broken' \/ \E q \in Procs : Leads(proc'[q], t)
    BY <1>1 DEF Led
  <2>1. t[1] \in recorded \/ broken \/ \E q \in Procs : Leads(proc[q], t)
    BY DEF SchemaInv, Led
  <2>2. ASSUME NEW q \in Procs, Leads(proc[q], t)
        PROVE  t[1] \in recorded \/ broken' \/ \E r \in Procs : Leads(proc'[r], t)
    <3>1. CASE q = p
      <4>1. t[1] \in recorded \/ broken' \/ Leads(c, t)
        BY <2>2, <3>1
      <4>2. proc'[p] = c
        BY <1>4
      <4>3. QED
        BY <4>1, <4>2
    <3>2. CASE q # p
      <4>1. proc'[q] = proc[q]
        BY <1>4, <3>2
      <4>2. QED
        BY <2>2, <4>1
    <3>3. QED
      BY <3>1, <3>2
  <2>3. QED
    BY <2>1, <2>2
<1>8. QED
  BY <1>2, <1>4, <1>6, <1>7 DEF SchemaInv

LEMMA ScriptFacts ==
  ASSUME SchemaConstants
  PROVE  /\ Len(Scripts) \in Nat /\ DOMAIN Scripts = 1..Len(Scripts)
         /\ \A m \in 1..Len(Scripts) : Scripts[m] \in Nat
         /\ \A t \in Statements : /\ t[1] \in 1..Len(Scripts) /\ t[2] \in 1..Scripts[t[1]]
                                  /\ t = <<t[1], t[2]>>
         /\ \A m \in 1..Len(Scripts) : \A s \in 1..Scripts[m] : <<m, s>> \in Statements
BY DEF SchemaConstants, Statements

LEMMA OpenKeeps ==
  ASSUME SchemaConstants, SchemaInv, NEW p \in Procs, Schema!Open(p) PROVE SchemaInv'
<1> DEFINE c == [pc |-> "check", migration |-> 1, statement |-> 1]
<1>1. proc' = [proc EXCEPT ![p] = c] /\ UNCHANGED <<applied, recorded, broken>> /\ proc[p].pc \in {"closed", "failed"}
  BY DEF Schema!Open, Schema!At
<1>2. c \in Openers
  BY ScriptFacts DEF Openers
<1>3. ProcInv(c)
  BY DEF ProcInv
<1>4. \A t : ~Leads(proc[p], t)
  BY <1>1 DEF Leads
<1>5. broken' \in BOOLEAN /\ (broken => broken')
  BY <1>1 DEF SchemaInv
<1> HIDE DEF c
<1>6. QED
  BY <1>1, <1>2, <1>3, <1>4, <1>5, ProcOnlyMoves

LEMMA ShutKeeps ==
  ASSUME SchemaConstants, SchemaInv, NEW p \in Procs, Schema!Stop(p) \/ Schema!Close(p) PROVE SchemaInv'
<1> DEFINE c == [pc |-> "closed", migration |-> 1, statement |-> 1]
<1>1. proc' = [proc EXCEPT ![p] = c] /\ UNCHANGED <<applied, recorded>>
  BY DEF Schema!Stop, Schema!Close, Schema!At
<1>2. c \in Openers
  BY ScriptFacts DEF Openers
<1>3. ProcInv(c)
  BY DEF ProcInv
<1>4. broken' \in BOOLEAN /\ (broken => broken')
  BY DEF SchemaInv, Schema!Stop, Schema!Close, Schema!InScript
<1>5. ASSUME NEW t \in InEffect, Leads(proc[p], t) PROVE broken'
  <2>1. proc[p].pc = "record" \/ (proc[p].pc = "apply" /\ proc[p].statement = t[2] + 1)
    BY <1>5 DEF Leads
  <2>2. t[2] \in Nat \ {0}
    <3>1. t \in Statements
      BY DEF SchemaInv, EffectInv, InEffect
    <3>2. QED
      BY <3>1 DEF Statements
  <2>3. Schema!InScript(p)
    BY <2>1, <2>2 DEF Schema!InScript
  <2>4. Schema!Stop(p)
    BY <2>1 DEF Schema!Close
  <2>5. QED
    BY <2>3, <2>4 DEF Schema!Stop
<1> HIDE DEF c
<1>6. QED
  BY <1>1, <1>2, <1>3, <1>4, <1>5, ProcOnlyMoves

\* The fields of a process, and its successor.
LEMMA OpenerFields ==
  ASSUME SchemaInv, NEW p \in Procs
  PROVE  /\ proc[p] \in Openers /\ ProcInv(proc[p])
         /\ proc[p] = [pc |-> proc[p].pc, migration |-> proc[p].migration, statement |-> proc[p].statement]
         /\ proc[p].migration \in 1..(Len(Scripts) + 1) /\ proc[p].statement \in Nat \ {0}
<1>1. proc[p] \in Openers /\ ProcInv(proc[p])
  BY DEF SchemaInv
<1>2. QED
  BY <1>1 DEF Openers

LEMMA CheckAppliedKeeps ==
  ASSUME SchemaConstants, SchemaInv, NEW p \in Procs, Schema!CheckApplied(p) PROVE SchemaInv'
<1> DEFINE m == proc[p].migration
           c == IF m > Len(Scripts) THEN Schema!At("open", m)
                ELSE IF m \in recorded THEN Schema!At("check", m + 1)
                ELSE Schema!At("apply", m)
<1>1. proc[p].pc = "check" /\ UNCHANGED <<applied, recorded, broken>> /\ proc' = [proc EXCEPT ![p] = c]
  BY DEF Schema!CheckApplied
<1>2. /\ m \in 1..(Len(Scripts) + 1) /\ 1..(m - 1) \subseteq recorded
      /\ recorded \subseteq 1..Len(Scripts) /\ Len(Scripts) \in Nat
  BY <1>1, OpenerFields, ScriptFacts DEF ProcInv, SchemaInv, EffectInv
<1>3. broken' \in BOOLEAN /\ (broken => broken')
  BY <1>1 DEF SchemaInv
<1>4. \A t : ~Leads(proc[p], t)
  BY <1>1 DEF Leads
<1>5. c \in Openers /\ ProcInv(c)
  <2>1. CASE m > Len(Scripts)
    <3>1. m - 1 = Len(Scripts)
      BY <1>2, <2>1
    <3>2. recorded = 1..Len(Scripts)
      BY <1>2, <3>1
    <3>3. c = [pc |-> "open", migration |-> m, statement |-> 1]
      BY <2>1 DEF Schema!At
    <3>4. QED
      BY <1>2, <3>2, <3>3 DEF Openers, ProcInv
  <2>2. CASE ~(m > Len(Scripts)) /\ m \in recorded
    <3>1. 1..((m + 1) - 1) \subseteq recorded /\ m + 1 \in 1..(Len(Scripts) + 1)
      BY <1>2, <2>2
    <3>2. c = [pc |-> "check", migration |-> m + 1, statement |-> 1]
      BY <2>2 DEF Schema!At
    <3>3. QED
      BY <1>2, <3>1, <3>2 DEF Openers, ProcInv
  <2>3. CASE ~(m > Len(Scripts)) /\ m \notin recorded
    <3>1. m \in 1..Len(Scripts) /\ \A u \in Statements : ~(u[2] < 1)
      BY <1>2, <2>3 DEF Statements
    <3>2. c = [pc |-> "apply", migration |-> m, statement |-> 1]
      BY <2>3 DEF Schema!At
    <3>3. QED
      BY <1>2, <3>1, <3>2 DEF Openers, ProcInv
  <2>4. QED
    BY <2>1, <2>2, <2>3
<1> HIDE DEF c
<1>6. QED
  BY <1>1, <1>3, <1>4, <1>5, ProcOnlyMoves

LEMMA EffectFacts ==
  ASSUME SchemaInv PROVE InEffect \subseteq Statements
BY DEF SchemaInv, EffectInv, InEffect

\* The next statement of a process, and what it makes of the process.
LEMMA NextStatement ==
  ASSUME SchemaConstants, SchemaInv, NEW p \in Procs, proc[p].pc = "apply",
         NEW m, m = proc[p].migration, NEW s, s = proc[p].statement, s <= Scripts[m]
  PROVE  /\ <<m, s>> \in Statements
         /\ \A u \in Statements : Earlier(u, <<m, s>>) => u \in InEffect
         /\ 1..(m - 1) \subseteq recorded
         /\ \A t \in InEffect : Leads(proc[p], t) => Earlier(t, <<m, s>>)
<1>1. m \in 1..Len(Scripts) /\ 1..(m - 1) \subseteq recorded /\ s \in Nat \ {0}
      /\ \A u \in Statements : u[1] = m /\ u[2] < s => u \in InEffect
  BY OpenerFields DEF ProcInv
<1>2. <<m, s>> \in Statements
  BY <1>1 DEF Statements
<1>3. ASSUME NEW u \in Statements, Earlier(u, <<m, s>>) PROVE u \in InEffect
  <2>1. u[1] < m \/ (u[1] = m /\ u[2] < s)
    BY <1>3 DEF Earlier
  <2>2. ASSUME u[1] < m PROVE u[1] \in recorded
    <3>1. u[1] \in Nat \ {0}
      BY ScriptFacts
    <3>2. QED
      BY <1>1, <2>2, <3>1
  <2>3. QED
    BY <1>1, <2>1, <2>2 DEF SchemaInv, EffectInv
<1>4. ASSUME NEW t \in InEffect, Leads(proc[p], t) PROVE Earlier(t, <<m, s>>)
  <2>1. t[1] = m /\ s = t[2] + 1
    BY <1>4 DEF Leads
  <2>2. t[2] \in Nat
    BY EffectFacts, ScriptFacts
  <2>3. QED
    BY <2>1, <2>2 DEF Earlier
<1>5. QED
  BY <1>1, <1>2, <1>3, <1>4

\* A statement that is not in effect is later than all that are.
LEMMA AppliedLast ==
  ASSUME SchemaInv, NEW w \in Statements, w \notin InEffect, NEW t \in InEffect
  PROVE  Earlier(t, w)
<1>1. t \in Statements
  BY EffectFacts
<1>2. ~Earlier(w, t)
  BY DEF SchemaInv, EffectInv
<1>3. QED
  BY <1>1, <1>2, EarlierOrders

LEMMA AppendKeepsEffect ==
  ASSUME SchemaConstants, SchemaInv, NEW w \in Statements, w \notin InEffect,
         \A u \in Statements : Earlier(u, w) => u \in InEffect,
         1..(w[1] - 1) \subseteq recorded,
         applied' = Append(applied, w), recorded' = recorded
  PROVE  EffectInv' /\ InEffect' = InEffect \cup {w}
<1>1. /\ applied' \in Seq(Statements) /\ Len(applied') = Len(applied) + 1
      /\ \A i \in 1..Len(applied) : applied'[i] = applied[i]
      /\ applied'[Len(applied) + 1] = w
      /\ Len(applied) \in Nat /\ DOMAIN applied = 1..Len(applied) /\ DOMAIN applied' = 1..(Len(applied) + 1)
  <2>1. applied \in Seq(Statements)
    BY DEF SchemaInv, EffectInv
  <2>2. QED
    BY <2>1, AppendProperties
<1>2. InEffect' = InEffect \cup {w}
  <2>1. InEffect' = {applied'[i] : i \in 1..(Len(applied) + 1)}
    BY <1>1 DEF InEffect
  <2>2. InEffect = {applied[i] : i \in 1..Len(applied)}
    BY <1>1 DEF InEffect
  <2>3. QED
    BY <1>1, <2>1, <2>2
<1>3. ASSUME NEW i \in DOMAIN applied', NEW j \in DOMAIN applied', i < j
      PROVE  Earlier(applied'[i], applied'[j])
  <2>1. i \in 1..Len(applied) /\ applied'[i] = applied[i]
    BY <1>1, <1>3
  <2>2. CASE j \in 1..Len(applied)
    <3>1. applied'[j] = applied[j]
      BY <1>1, <2>2
    <3>2. QED
      BY <1>1, <1>3, <2>1, <2>2, <3>1 DEF SchemaInv, EffectInv
  <2>3. CASE j = Len(applied) + 1
    <3>1. applied[i] \in InEffect
      BY <1>1, <2>1 DEF InEffect
    <3>2. QED
      BY <1>1, <2>1, <2>3, <3>1, AppliedLast
  <2>4. QED
    BY <1>1, <2>2, <2>3
<1>4. \A t \in InEffect', u \in Statements : Earlier(u, t) => u \in InEffect'
  BY <1>2 DEF SchemaInv, EffectInv
<1>5. \A t \in InEffect' : 1..(t[1] - 1) \subseteq recorded
  BY <1>2 DEF SchemaInv, EffectInv
<1>6. /\ recorded \subseteq 1..Len(Scripts) /\ \A n \in recorded : 1..n \subseteq recorded
      /\ \A u \in Statements : u[1] \in recorded => u \in InEffect'
  BY <1>2 DEF SchemaInv, EffectInv
<1>7. QED
  BY <1>1, <1>2, <1>3, <1>4, <1>5, <1>6 DEF EffectInv

\* A statement takes effect for the first time.
LEMMA AppliesKeeps ==
  ASSUME SchemaConstants, SchemaInv, NEW p \in Procs, proc[p].pc = "apply",
         NEW m, m = proc[p].migration, NEW s, s = proc[p].statement, s <= Scripts[m],
         <<m, s>> \notin InEffect, NEW c, c = [pc |-> "apply", migration |-> m, statement |-> s + 1],
         applied' = Append(applied, <<m, s>>), proc' = [proc EXCEPT ![p] = c],
         UNCHANGED <<recorded, broken>>
  PROVE  SchemaInv'
<1> DEFINE w == <<m, s>>
<1>0. w[1] = m /\ w[2] = s
  OBVIOUS
<1>1. /\ w \in Statements /\ 1..(w[1] - 1) \subseteq recorded
      /\ \A u \in Statements : Earlier(u, w) => u \in InEffect
  BY NextStatement
<1> HIDE DEF w
<1>2. EffectInv' /\ InEffect' = InEffect \cup {w}
  BY <1>1, AppendKeepsEffect DEF w
<1>3. \A d : ProcInv(d) => ProcInv(d)'
  BY <1>2 DEF ProcInv
<1>4. /\ m \in 1..(Len(Scripts) + 1) /\ s \in Nat \ {0} /\ m \in 1..Len(Scripts) /\ 1..(m - 1) \subseteq recorded
      /\ \A u \in Statements : u[1] = m /\ u[2] < s => u \in InEffect
  BY OpenerFields DEF ProcInv
<1>5. c \in Openers
  BY <1>4 DEF Openers
<1>6. proc' \in [Procs -> Openers] /\ \A q \in Procs : proc'[q] = IF q = p THEN c ELSE proc[q]
  BY <1>5 DEF SchemaInv
<1>7. ASSUME NEW u \in Statements, u[1] = m, u[2] < s + 1 PROVE u \in InEffect'
  <2>1. u = <<u[1], u[2]>> /\ u[2] \in Nat
    BY ScriptFacts
  <2>2. CASE u[2] < s
    BY <1>2, <1>4, <1>7, <2>2
  <2>3. CASE u[2] = s
    BY <1>2, <1>7, <2>1, <2>3 DEF w
  <2>4. QED
    BY <1>4, <1>7, <2>1, <2>2, <2>3
<1>8. ProcInv(c)'
  BY <1>4, <1>7 DEF ProcInv
<1>9. \A q \in Procs : ProcInv(proc[q])'
  <2> SUFFICES ASSUME NEW q \in Procs PROVE ProcInv(proc[q])'
    OBVIOUS
  <2>1. PICK d : d = proc'[q]
    OBVIOUS
  <2>2. d = c \/ ProcInv(d)
    BY <1>6, <2>1 DEF SchemaInv
  <2>3. ProcInv(d)'
    <3>1. CASE d = c
      BY <1>8, <3>1 DEF ProcInv
    <3>2. CASE ProcInv(d)
      BY <1>3, <3>2
    <3>3. QED
      BY <2>2, <3>1, <3>2
  <2>4. QED
    BY <2>1, <2>3 DEF ProcInv
<1>10. Led'
  <2> SUFFICES ASSUME NEW t \in InEffect', \A u \in InEffect' : ~Earlier(t, u)
               PROVE  \E q \in Procs : Leads(proc'[q], t)
    BY DEF Led
  <2>1. t = w
    BY <1>1, <1>2, AppliedLast DEF w
  <2>2. Leads(c, t)
    BY <1>0, <2>1 DEF Leads
  <2>3. QED
    BY <1>6, <2>2
<1>11. QED
  BY <1>2, <1>6, <1>9, <1>10 DEF SchemaInv

LEMMA ApplySqlScriptKeeps ==
  ASSUME SchemaConstants, SchemaInv, NEW p \in Procs, Schema!ApplySqlScript(p) PROVE SchemaInv'
<1>1. PICK m : m = proc[p].migration
  OBVIOUS
<1>2. PICK s : s = proc[p].statement
  OBVIOUS
<1>3. /\ proc[p].pc = "apply" /\ UNCHANGED <<recorded, broken>>
      /\ IF s > Scripts[m]
         THEN proc' = [proc EXCEPT ![p].pc = "record"] /\ UNCHANGED applied
         ELSE IF Schema!Done(<<m, s>>) /\ <<m, s>> \notin Repeatable
         THEN proc' = [proc EXCEPT ![p].pc = "failed"] /\ UNCHANGED applied
         ELSE /\ applied' = IF Schema!Done(<<m, s>>) THEN applied ELSE Append(applied, <<m, s>>)
              /\ proc' = [proc EXCEPT ![p].statement = s + 1]
  BY <1>1, <1>2 DEF Schema!ApplySqlScript
<1>4. /\ proc[p] = [pc |-> "apply", migration |-> m, statement |-> s] /\ proc \in [Procs -> Openers]
      /\ m \in 1..(Len(Scripts) + 1) /\ s \in Nat \ {0} /\ m \in 1..Len(Scripts) /\ 1..(m - 1) \subseteq recorded
      /\ \A u \in Statements : u[1] = m /\ u[2] < s => u \in InEffect
      /\ Scripts[m] \in Nat
  BY <1>1, <1>2, <1>3, OpenerFields, ScriptFacts DEF ProcInv, SchemaInv
<1>5. broken' \in BOOLEAN /\ (broken => broken')
  BY <1>3 DEF SchemaInv
<1>6. Schema!Done(<<m, s>>) <=> <<m, s>> \in InEffect
  BY DoneReads
<1>7. /\ [proc[p] EXCEPT !.pc = "record"] = [pc |-> "record", migration |-> m, statement |-> s]
      /\ [proc[p] EXCEPT !.pc = "failed"] = [pc |-> "failed", migration |-> m, statement |-> s]
      /\ [proc[p] EXCEPT !.statement = s + 1] = [pc |-> "apply", migration |-> m, statement |-> s + 1]
  BY <1>4
<1>8. CASE s > Scripts[m]
  <2> DEFINE c == [pc |-> "record", migration |-> m, statement |-> s]
  <2>1. proc' = [proc EXCEPT ![p] = [proc[p] EXCEPT !.pc = "record"]] /\ UNCHANGED applied
    BY <1>3, <1>8
  <2>2. proc' = [proc EXCEPT ![p] = c]
    BY <1>7, <2>1
  <2>3. \A u \in Statements : u[1] = m => u \in InEffect
    <3>1. \A u \in Statements : u[2] <= Scripts[u[1]] /\ u[2] \in Nat
      BY DEF Statements
    <3>2. QED
      BY <1>4, <1>8, <3>1
  <2>4. c \in Openers /\ ProcInv(c)
    BY <1>4, <2>3 DEF Openers, ProcInv
  <2>5. \A t : Leads(proc[p], t) => Leads(c, t)
    BY <1>4 DEF Leads
  <2> HIDE DEF c
  <2>6. QED
    BY <1>3, <1>5, <2>1, <2>2, <2>4, <2>5, ProcOnlyMoves
<1>9. CASE ~(s > Scripts[m]) /\ <<m, s>> \in InEffect
  <2>0. s <= Scripts[m]
    BY <1>4, <1>9
  <2>1. \A t \in InEffect : Leads(proc[p], t) => Earlier(t, <<m, s>>)
    BY <1>1, <1>2, <1>3, <2>0, NextStatement
  <2>2. CASE <<m, s>> \notin Repeatable
    <3> DEFINE c == [pc |-> "failed", migration |-> m, statement |-> s]
    <3>1. proc' = [proc EXCEPT ![p] = [proc[p] EXCEPT !.pc = "failed"]] /\ UNCHANGED applied
      BY <1>3, <1>6, <1>9, <2>2
    <3>2. proc' = [proc EXCEPT ![p] = c]
      BY <1>7, <3>1
    <3>3. c \in Openers /\ ProcInv(c)
      BY <1>4 DEF Openers, ProcInv
    <3> HIDE DEF c
    <3>4. QED
      BY <1>3, <1>5, <1>9, <2>1, <3>1, <3>2, <3>3, ProcOnlyMoves
  <2>3. CASE <<m, s>> \in Repeatable
    <3> DEFINE c == [pc |-> "apply", migration |-> m, statement |-> s + 1]
    <3>1. proc' = [proc EXCEPT ![p] = [proc[p] EXCEPT !.statement = s + 1]] /\ UNCHANGED applied
      BY <1>3, <1>6, <1>9, <2>3
    <3>2. proc' = [proc EXCEPT ![p] = c]
      BY <1>7, <3>1
    <3>3. ASSUME NEW u \in Statements, u[1] = m, u[2] < s + 1 PROVE u \in InEffect
      <4>1. u = <<u[1], u[2]>> /\ u[2] \in Nat
        BY ScriptFacts
      <4>2. u[2] < s \/ u = <<m, s>>
        BY <1>4, <3>3, <4>1
      <4>3. QED
        BY <1>4, <1>9, <3>3, <4>2
    <3>4. c \in Openers /\ ProcInv(c)
      BY <1>4, <3>3 DEF Openers, ProcInv
    <3> HIDE DEF c
    <3>5. QED
      BY <1>3, <1>5, <1>9, <2>1, <3>1, <3>2, <3>4, ProcOnlyMoves
  <2>4. QED
    BY <2>2, <2>3
<1>10. CASE ~(s > Scripts[m]) /\ <<m, s>> \notin InEffect
  <2> DEFINE c == [pc |-> "apply", migration |-> m, statement |-> s + 1]
  <2>0. s <= Scripts[m]
    BY <1>4, <1>10
  <2>1. proc' = [proc EXCEPT ![p] = [proc[p] EXCEPT !.statement = s + 1]] /\ applied' = Append(applied, <<m, s>>)
    BY <1>3, <1>6, <1>10
  <2>2. proc' = [proc EXCEPT ![p] = c]
    BY <1>7, <2>1
  <2> HIDE DEF c
  <2>3. QED
    BY <1>1, <1>2, <1>3, <1>10, <2>0, <2>1, <2>2, AppliesKeeps DEF c
<1>11. QED
  BY <1>8, <1>9, <1>10

LEMMA RecordMigrationKeeps ==
  ASSUME SchemaConstants, SchemaInv, NEW p \in Procs, Schema!RecordMigration(p) PROVE SchemaInv'
<1>1. PICK m : m = proc[p].migration
  OBVIOUS
<1>2. PICK s : s = proc[p].statement
  OBVIOUS
<1>3. /\ proc[p].pc = "record" /\ UNCHANGED <<applied, broken>>
      /\ IF m \in recorded
         THEN proc' = [proc EXCEPT ![p].pc = "failed"] /\ UNCHANGED recorded
         ELSE recorded' = recorded \cup {m} /\ proc' = [proc EXCEPT ![p] = Schema!At("check", m + 1)]
  BY <1>1 DEF Schema!RecordMigration
<1>4. /\ proc[p] = [pc |-> "record", migration |-> m, statement |-> s] /\ proc \in [Procs -> Openers]
      /\ m \in 1..(Len(Scripts) + 1) /\ s \in Nat \ {0} /\ m \in 1..Len(Scripts) /\ 1..(m - 1) \subseteq recorded
      /\ \A u \in Statements : u[1] = m => u \in InEffect
      /\ Len(Scripts) \in Nat
  BY <1>1, <1>2, <1>3, OpenerFields, ScriptFacts DEF ProcInv, SchemaInv
<1>5. broken' \in BOOLEAN /\ (broken => broken')
  BY <1>3 DEF SchemaInv
<1>6. CASE m \in recorded
  <2> DEFINE c == [pc |-> "failed", migration |-> m, statement |-> s]
  <2>1. [proc[p] EXCEPT !.pc = "failed"] = c
    BY <1>4
  <2>2. proc' = [proc EXCEPT ![p] = [proc[p] EXCEPT !.pc = "failed"]] /\ UNCHANGED recorded
    BY <1>3, <1>6
  <2>3. proc' = [proc EXCEPT ![p] = c]
    BY <2>1, <2>2
  <2>4. c \in Openers /\ ProcInv(c)
    BY <1>4 DEF Openers, ProcInv
  <2>5. \A t : Leads(proc[p], t) => t[1] \in recorded
    BY <1>1, <1>6 DEF Leads
  <2> HIDE DEF c
  <2>6. QED
    BY <1>3, <1>5, <2>2, <2>3, <2>4, <2>5, ProcOnlyMoves
<1>7. CASE m \notin recorded
  <2> DEFINE c == Schema!At("check", m + 1)
  <2>1. recorded' = recorded \cup {m} /\ proc' = [proc EXCEPT ![p] = c] /\ InEffect' = InEffect
    BY <1>3, <1>7 DEF InEffect
  <2>2. 1..m \subseteq recorded' /\ m + 1 \in 1..(Len(Scripts) + 1) /\ (m + 1) - 1 = m
    BY <1>4, <2>1
  <2>3. c = [pc |-> "check", migration |-> m + 1, statement |-> 1] /\ c \in Openers
    BY <2>2 DEF Openers, Schema!At
  <2> HIDE DEF c
  <2>4. EffectInv'
    <3>1. applied' \in Seq(Statements) /\ recorded' \subseteq 1..Len(Scripts)
      BY <1>3, <1>4, <2>1 DEF SchemaInv, EffectInv
    <3>2. /\ \A i, j \in DOMAIN applied' : i < j => Earlier(applied'[i], applied'[j])
          /\ \A t \in InEffect', u \in Statements : Earlier(u, t) => u \in InEffect'
          /\ \A t \in InEffect' : 1..(t[1] - 1) \subseteq recorded'
      BY <1>3, <2>1 DEF SchemaInv, EffectInv
    <3>3. \A n \in recorded' : 1..n \subseteq recorded'
      BY <2>1, <2>2 DEF SchemaInv, EffectInv
    <3>4. \A u \in Statements : u[1] \in recorded' => u \in InEffect'
      BY <1>4, <2>1 DEF SchemaInv, EffectInv
    <3>5. QED
      BY <3>1, <3>2, <3>3, <3>4 DEF EffectInv
  <2>5. ASSUME NEW d, ProcInv(d) PROVE ProcInv(d)'
    <3>1. d.pc # "open"
      BY <1>4, <1>7, <2>5 DEF ProcInv
    <3>2. QED
      BY <2>1, <2>5, <3>1 DEF ProcInv
  <2>6. ProcInv(c)'
    BY <2>2, <2>3 DEF ProcInv
  <2>7. proc' \in [Procs -> Openers] /\ \A q \in Procs : proc'[q] = IF q = p THEN c ELSE proc[q]
    BY <1>4, <2>1, <2>3
  <2>8. \A q \in Procs : ProcInv(proc[q])'
    <3> SUFFICES ASSUME NEW q \in Procs PROVE ProcInv(proc[q])'
      OBVIOUS
    <3>1. PICK d : d = proc'[q]
      OBVIOUS
    <3>2. d = c \/ ProcInv(d)
      BY <2>7, <3>1 DEF SchemaInv
    <3>3. ProcInv(d)'
      <4>1. CASE d = c
        <5>1. PICK e : e = c
          OBVIOUS
        <5>2. e = [pc |-> "check", migration |-> m + 1, statement |-> 1]
          BY <2>3, <5>1
        <5>3. ProcInv(e)'
          BY <2>2, <5>2 DEF ProcInv
        <5>4. QED
          BY <4>1, <5>1, <5>3
      <4>2. CASE ProcInv(d)
        BY <2>5, <4>2
      <4>3. QED
        BY <3>2, <4>1, <4>2
    <3>4. QED
      BY <3>1, <3>3 DEF ProcInv
  <2>9. Led'
    <3> SUFFICES ASSUME NEW t \in InEffect, \A u \in InEffect : ~Earlier(t, u)
                 PROVE  t[1] \in recorded' \/ broken' \/ \E q \in Procs : Leads(proc'[q], t)
      BY <2>1 DEF Led
    <3>1. t[1] \in recorded \/ broken \/ \E q \in Procs : Leads(proc[q], t)
      BY DEF SchemaInv, Led
    <3>2. ASSUME NEW q \in Procs, Leads(proc[q], t) PROVE t[1] \in recorded' \/ Leads(proc'[q], t)
      <4>1. CASE q = p
        BY <1>1, <2>1, <3>2, <4>1 DEF Leads
      <4>2. CASE q # p
        BY <2>7, <3>2, <4>2
      <4>3. QED
        BY <4>1, <4>2
    <3>3. QED
      BY <1>5, <2>1, <3>1, <3>2
  <2>10. QED
    BY <1>5, <2>4, <2>7, <2>8, <2>9 DEF SchemaInv
<1>8. QED
  BY <1>6, <1>7

LEMMA SchemaInit == ASSUME SchemaConstants, Schema!Init PROVE SchemaInv
<1>1. applied = <<>> /\ recorded = {} /\ broken = FALSE /\ proc = [p \in Procs |-> Schema!At("closed", 1)]
  BY DEF Schema!Init
<1>2. InEffect = {}
  BY <1>1 DEF InEffect
<1>3. applied \in Seq(Statements) /\ DOMAIN applied = {}
  BY <1>1
<1>4. EffectInv /\ Led
  BY <1>1, <1>2, <1>3 DEF EffectInv, Led
<1>5. PICK c : c = [pc |-> "closed", migration |-> 1, statement |-> 1]
  OBVIOUS
<1>6. c \in Openers /\ ProcInv(c)
  BY <1>5, ScriptFacts DEF Openers, ProcInv
<1>7. proc = [p \in Procs |-> c]
  BY <1>1, <1>5 DEF Schema!At
<1>8. proc \in [Procs -> Openers] /\ \A p \in Procs : proc[p] = c
  BY <1>6, <1>7
<1>9. QED
  BY <1>1, <1>4, <1>6, <1>8 DEF SchemaInv

LEMMA SchemaStep == ASSUME SchemaConstants, SchemaInv, [Schema!Next]_(Schema!vars) PROVE SchemaInv'
<1>1. CASE Schema!Next
  <2>1. PICK p \in Procs : Schema!Open(p) \/ Schema!Step(p) \/ Schema!Stop(p) \/ Schema!Close(p)
    BY <1>1 DEF Schema!Next
  <2>2. QED
    BY <2>1, OpenKeeps, ShutKeeps, CheckAppliedKeeps, ApplySqlScriptKeeps, RecordMigrationKeeps DEF Schema!Step
<1>2. CASE UNCHANGED Schema!vars
  <2>1. /\ applied' = applied /\ recorded' = recorded /\ proc' = proc /\ broken' = broken
    BY <1>2 DEF Schema!vars
  <2>2. InEffect' = InEffect
    BY <2>1 DEF InEffect
  <2>3. EffectInv' /\ Led'
    BY <2>1, <2>2 DEF SchemaInv, EffectInv, Led
  <2>4. \A p \in Procs : ProcInv(proc[p])'
    BY <2>1, <2>2 DEF SchemaInv, ProcInv
  <2>5. QED
    BY <2>1, <2>3, <2>4 DEF SchemaInv
<1>3. QED
  BY <1>1, <1>2

LEMMA SchemaImplies ==
  ASSUME SchemaConstants, SchemaInv
  PROVE  Schema!TypeOK /\ Schema!RecordedIsWhole /\ Schema!HalfAppliedWasStopped
<1>1. Schema!Names = 1..Len(Scripts) /\ Len(Scripts) \in Nat
  BY ScriptFacts DEF Schema!Names
<1>2. /\ Len(applied) \in Nat /\ DOMAIN applied = 1..Len(applied)
      /\ \A i \in DOMAIN applied : applied[i] \in InEffect
  <2>1. applied \in Seq(Statements)
    BY DEF SchemaInv, EffectInv
  <2>2. QED
    BY <2>1 DEF InEffect
<1>3. \A t \in InEffect : /\ t[1] \in 1..Len(Scripts) /\ t[2] \in 1..Scripts[t[1]] /\ t[2] \in Nat \ {0}
                          /\ t[1] \in Nat \ {0} /\ t \in Statements
  BY EffectFacts, ScriptFacts
<1>4. Schema!TypeOK
  <2>1. \A p \in Procs : proc[p].pc \in {"closed", "check", "apply", "record", "open", "failed"}
    BY OpenerFields DEF Openers
  <2>2. recorded \subseteq Schema!Names
    BY <1>1 DEF SchemaInv, EffectInv
  <2>3. QED
    BY <1>1, <1>2, <1>3, <2>1, <2>2 DEF Schema!TypeOK
<1>5. Schema!RecordedIsWhole
  <2>1. ASSUME NEW m \in recorded, NEW n \in 1..m PROVE Schema!Whole(n) /\ n \in recorded
    <3>1. n \in recorded /\ n \in 1..Len(Scripts)
      BY DEF SchemaInv, EffectInv
    <3>2. ASSUME NEW s \in 1..Scripts[n] PROVE Schema!Done(<<n, s>>)
      <4>1. <<n, s>> \in Statements
        BY <3>1, ScriptFacts
      <4>2. <<n, s>> \in InEffect
        BY <3>1, <4>1 DEF SchemaInv, EffectInv
      <4>3. QED
        BY <4>2, DoneReads
    <3>3. QED
      BY <3>1, <3>2 DEF Schema!Whole
  <2>2. \A i, j \in DOMAIN applied : i < j =>
           (applied[i][1] < applied[j][1] \/ (applied[i][1] = applied[j][1] /\ applied[i][2] < applied[j][2]))
    BY DEF SchemaInv, EffectInv, Earlier
  <2>3. \A p \in Procs : proc[p].pc = "open" => recorded = Schema!Names
    BY <1>1, OpenerFields DEF ProcInv
  <2>4. QED
    BY <2>1, <2>2, <2>3 DEF Schema!RecordedIsWhole
<1>6. Schema!HalfAppliedWasStopped
  <2> SUFFICES ASSUME NEW i \in DOMAIN applied, applied[i][1] \notin recorded, ~broken
               PROVE  \E p \in Procs : proc[p].migration = applied[i][1] /\ Schema!InScript(p)
    BY DEF Schema!HalfAppliedWasStopped
  <2>1. PICK t : t = applied[Len(applied)]
    OBVIOUS
  <2>2. t \in InEffect /\ \A j \in DOMAIN applied : j < Len(applied) => Earlier(applied[j], t)
    BY <1>2, <2>1 DEF SchemaInv, EffectInv
  <2>3. \A u \in InEffect : ~Earlier(t, u)
    <3> SUFFICES ASSUME NEW j \in DOMAIN applied PROVE ~Earlier(t, applied[j])
      BY DEF InEffect
    <3>1. t \in Statements /\ applied[j] \in Statements
      BY <1>2, <1>3, <2>2
    <3>2. j = Len(applied) \/ Earlier(applied[j], t)
      BY <1>2, <2>2
    <3>3. QED
      BY <2>1, <3>1, <3>2, EarlierOrders
  <2>4. applied[i][1] = t[1]
    <3>1. i = Len(applied) \/ Earlier(applied[i], t)
      BY <1>2, <2>2
    <3>2. ~(applied[i][1] < t[1])
      <4>1. applied[i][1] \in Nat \ {0} /\ t[1] \in Nat \ {0} /\ 1..(t[1] - 1) \subseteq recorded
        BY <1>2, <1>3, <2>2 DEF SchemaInv, EffectInv
      <4>2. QED
        BY <4>1
    <3>3. QED
      BY <2>1, <3>1, <3>2 DEF Earlier
  <2>5. PICK p \in Procs : Leads(proc[p], t)
    BY <2>2, <2>3, <2>4 DEF SchemaInv, Led
  <2>6. Schema!InScript(p)
    BY <1>3, <2>2, <2>5 DEF Leads, Schema!InScript
  <2>7. QED
    BY <2>4, <2>5, <2>6 DEF Leads
<1>7. QED
  BY <1>4, <1>5, <1>6

(* Processes that open one database side by side: run_migrations records a
   script only when it and every earlier one took effect in the bundled order,
   an opened database has the whole schema, and a half-applied script has a
   process in it or was left by one that was stopped; for all scripts, all
   sets of repeatable statements and any number of processes.               *)
THEOREM MigrationsAreWhole ==
  ASSUME SchemaConstants
  PROVE  Schema!Spec => [](Schema!TypeOK /\ Schema!RecordedIsWhole /\ Schema!HalfAppliedWasStopped)
<1>1. Schema!Init => SchemaInv
  BY SchemaInit
<1>2. SchemaInv /\ [Schema!Next]_(Schema!vars) => SchemaInv'
  BY SchemaStep
<1>3. SchemaInv => Schema!TypeOK /\ Schema!RecordedIsWhole /\ Schema!HalfAppliedWasStopped
  BY SchemaImplies
<1>4. QED
  BY <1>1, <1>2, <1>3, PTL DEF Schema!Spec

---------------------------------------------------------------------------
(* The sync runner.                                                        *)

CONSTANTS Exports, Runners, Backends, BatchSize, MaxFaults

VARIABLES backend, ledger, bucket, cursorObject, runner, late, faults

Export == INSTANCE SyncRunner

SyncConstants ==
  /\ Exports \subseteq Nat \ {0} /\ BatchSize \in Nat /\ MaxFaults \in Nat
  /\ Backends \subseteq Export!Destinations

Positions == Exports \cup {0}
RunnerStates == [pc : {"cursor", "select", "push"}, cursor : Positions, batch : SUBSET Exports, memory : Positions]

\* What a cursor passed is in the bucket, or its row appeared too late.
Behind(c) ==
  /\ c # 0 => c \in bucket
  /\ \A e \in ledger : e <= c => e \in bucket \cup late

\* The cursor that a runner in state c would read.
Held(c) == IF backend.durable THEN cursorObject ELSE c.memory

RunnerInv(c) ==
  /\ IsFiniteSet(c.batch) /\ (c.pc = "push" => c.batch # {})
  /\ Behind(c.cursor) /\ Behind(Held(c))
  /\ \A x \in c.batch, e \in ledger : e <= x => e \in c.batch \cup bucket \cup late

SyncTypes ==
  /\ backend \in Export!Destinations /\ ledger \subseteq Exports /\ bucket \subseteq Exports /\ late \subseteq Exports
  /\ cursorObject \in Positions /\ faults \in 0..MaxFaults
  /\ runner \in [Runners -> RunnerStates]

SyncInv ==
  /\ SyncTypes /\ IsFiniteSet(ledger) /\ Behind(cursorObject)
  /\ \A r \in Runners : RunnerInv(runner[r])

\* FiniteSetsExt's Max and Min of a set of numbers.
LEMMA SyncMax ==
  ASSUME NEW S, IsFiniteSet(S), S \subseteq Nat, S # {}
  PROVE  Export!Max(S) \in S /\ \A j \in S : j <= Export!Max(S)
<1>1. \E i \in S : \A j \in S : i >= j
  BY LastNumber
<1>2. Export!Max(S) = CHOOSE x \in S : \A y \in S : x >= y
  BY DEF Export!Max
<1>3. QED
  BY <1>1, <1>2

LEMMA SyncMin ==
  ASSUME NEW S, S \subseteq Nat, S # {}
  PROVE  Export!Min(S) \in S
<1>1. \E i \in S : \A j \in S : i <= j
  BY FirstNumber
<1>2. Export!Min(S) = CHOOSE x \in S : \A y \in S : x <= y
  BY DEF Export!Min
<1>3. QED
  BY <1>1, <1>2

LEMMA SyncFacts ==
  ASSUME SyncConstants, SyncInv
  PROVE  /\ Positions \subseteq Nat /\ Exports \subseteq Nat /\ 0 \notin Exports
         /\ \A r \in Runners :
              /\ runner[r] \in RunnerStates /\ RunnerInv(runner[r])
              /\ Export!Cursor(r) = Held(runner[r]) /\ Held(runner[r]) \in Positions
<1>1. Positions \subseteq Nat /\ Exports \subseteq Nat /\ 0 \notin Exports
  BY DEF SyncConstants, Positions
<1>2. ASSUME NEW r \in Runners PROVE runner[r] \in RunnerStates /\ RunnerInv(runner[r])
  BY DEF SyncInv, SyncTypes
<1>3. ASSUME NEW r \in Runners PROVE Export!Cursor(r) = Held(runner[r]) /\ Held(runner[r]) \in Positions
  BY <1>2 DEF Export!Cursor, Held, SyncInv, SyncTypes, RunnerStates
<1>4. QED
  BY <1>1, <1>2, <1>3

\* Rows go and events arrive in the bucket: a cursor passes no more than before.
LEMMA BehindStays ==
  ASSUME ledger' \subseteq ledger, bucket \subseteq bucket', late \subseteq late', NEW c, Behind(c)
  PROVE  Behind(c)'
BY DEF Behind

\* A runner that stands still keeps its part while the others work.
LEMMA RunnerStays ==
  ASSUME ledger' \subseteq ledger, bucket \subseteq bucket', late \subseteq late', backend' = backend,
         Behind(cursorObject'), NEW c, RunnerInv(c)
  PROVE  RunnerInv(c)'
<1>1. PICK w : w = cursorObject'
  OBVIOUS
<1>2. Behind(w)'
  <2>1. Behind(w)
    BY <1>1
  <2>2. QED
    BY <2>1, BehindStays
<1>3. Behind(c.cursor)' /\ Behind(Held(c))'
  <2>1. Behind(c.cursor)'
    BY BehindStays DEF RunnerInv
  <2>2. PICK h : h = Held(c)'
    OBVIOUS
  <2>3. h = w \/ Behind(h)
    BY <1>1, <2>2 DEF RunnerInv, Held
  <2>4. Behind(h)'
    BY <1>2, <2>3, BehindStays
  <2>5. QED
    BY <2>1, <2>2, <2>4 DEF Behind
<1>4. IsFiniteSet(c.batch) /\ (c.pc = "push" => c.batch # {})
  BY DEF RunnerInv
<1>5. \A x \in c.batch, e \in ledger' : e <= x => e \in c.batch \cup bucket' \cup late'
  BY DEF RunnerInv
<1>6. QED
  BY <1>3, <1>4, <1>5 DEF RunnerInv

\* One runner moves and no row appears.
LEMMA RunnerMoves ==
  ASSUME SyncConstants, SyncInv, NEW r \in Runners, NEW c \in RunnerStates,
         runner' = [runner EXCEPT ![r] = c], UNCHANGED <<backend, ledger, late>>, faults' \in 0..MaxFaults,
         bucket \subseteq bucket', bucket' \subseteq Exports,
         cursorObject' \in Positions, Behind(cursorObject'), RunnerInv(c)'
  PROVE  SyncInv'
<1>1. runner' \in [Runners -> RunnerStates] /\ \A q \in Runners : runner'[q] = IF q = r THEN c ELSE runner[q]
  BY DEF SyncInv, SyncTypes
<1>2. \A q \in Runners : RunnerInv(runner[q])'
  <2> SUFFICES ASSUME NEW q \in Runners PROVE RunnerInv(runner[q])'
    OBVIOUS
  <2>1. PICK d : d = runner'[q]
    OBVIOUS
  <2>2. d = c \/ RunnerInv(d)
    BY <1>1, <2>1 DEF SyncInv
  <2>3. RunnerInv(d)'
    <3>1. CASE d = c
      BY <3>1
    <3>2. CASE RunnerInv(d)
      BY <3>2, RunnerStays
    <3>3. QED
      BY <2>2, <3>1, <3>2
  <2>4. QED
    BY <2>1, <2>3 DEF RunnerInv, Held
<1>3. Behind(cursorObject)'
  <2>1. PICK w : w = cursorObject'
    OBVIOUS
  <2>2. Behind(w)
    BY <2>1
  <2>3. Behind(w)'
    BY <2>2, BehindStays
  <2>4. QED
    BY <2>1, <2>3 DEF Behind
<1>4. SyncTypes'
  BY <1>1 DEF SyncInv, SyncTypes
<1>5. QED
  BY <1>2, <1>3, <1>4 DEF SyncInv

\* The state of a runner between rounds, with what it remembers.
LEMMA IdleHolds ==
  ASSUME SyncConstants, SyncInv, UNCHANGED <<backend, ledger, bucket, late>>,
         NEW m \in Positions, NEW w, w = cursorObject', Behind(w), backend.durable \/ Behind(m)
  PROVE  Export!Idle(m) \in RunnerStates /\ RunnerInv(Export!Idle(m))'
<1>1. PICK c : c = [pc |-> "cursor", cursor |-> 0, batch |-> {}, memory |-> m]
  OBVIOUS
<1>2. Export!Idle(m) = c
  BY <1>1 DEF Export!Idle, Export!NoCursor
<1>3. c \in RunnerStates
  BY <1>1 DEF RunnerStates, Positions
<1>4. Behind(0)
  BY SyncFacts DEF Behind, SyncInv, SyncTypes
<1>5. Behind(c.cursor)' /\ Behind(Held(c))'
  <2>1. Behind(c.cursor)'
    BY <1>1, <1>4, BehindStays
  <2>2. PICK h : h = Held(c)'
    OBVIOUS
  <2>3. Behind(h)
    BY <1>1, <2>2 DEF Held
  <2>4. Behind(h)'
    BY <2>3, BehindStays
  <2>5. QED
    BY <2>1, <2>2, <2>4 DEF Behind
<1>6. IsFiniteSet(c.batch) /\ c.batch = {} /\ c.pc # "push"
  BY <1>1, FS_EmptySet
<1>7. RunnerInv(c)'
  BY <1>5, <1>6 DEF RunnerInv
<1>8. PICK d : d = Export!Idle(m)
  OBVIOUS
<1>9. RunnerInv(d)'
  BY <1>2, <1>7, <1>8
<1>10. QED
  BY <1>2, <1>3, <1>8, <1>9 DEF RunnerInv, Held, Behind, Export!Idle, Export!NoCursor

LEMMA GivesUpKeeps ==
  ASSUME SyncConstants, SyncInv, NEW r \in Runners, Export!RoundFails(r) \/ Export!Restart(r) PROVE SyncInv'
<1>1. PICK m \in Positions : /\ runner' = [runner EXCEPT ![r] = Export!Idle(m)]
                             /\ m = 0 \/ m = runner[r].memory
  <2>1. CASE Export!RoundFails(r)
    BY <2>1, SyncFacts DEF Export!RoundFails, RunnerStates
  <2>2. CASE Export!Restart(r)
    <3>1. 0 \in Positions
      BY DEF Positions
    <3>2. QED
      BY <2>2, <3>1 DEF Export!Restart, Export!NoCursor
  <2>3. QED
    BY <2>1, <2>2
<1>2. UNCHANGED <<backend, ledger, bucket, cursorObject, late>> /\ faults' = faults + 1 /\ faults < MaxFaults
  BY DEF Export!RoundFails, Export!Restart
<1>3. faults' \in 0..MaxFaults
  BY <1>2 DEF SyncConstants, SyncInv, SyncTypes
<1>4. backend.durable \/ Behind(m)
  <2>1. Behind(0)
    BY SyncFacts DEF Behind, SyncInv, SyncTypes
  <2>2. QED
    BY <1>1, <2>1, SyncFacts DEF RunnerInv, Held
<1>5. cursorObject' \in Positions /\ Behind(cursorObject')
  BY <1>2 DEF SyncInv, SyncTypes
<1>6. Export!Idle(m) \in RunnerStates /\ RunnerInv(Export!Idle(m))'
  BY <1>2, <1>4, <1>5, IdleHolds
<1>7. PICK c : c = Export!Idle(m)
  OBVIOUS
<1>8. c \in RunnerStates /\ RunnerInv(c)' /\ runner' = [runner EXCEPT ![r] = c]
  BY <1>1, <1>6, <1>7 DEF Export!Idle, Export!NoCursor
<1>9. bucket \subseteq bucket' /\ bucket' \subseteq Exports
  BY <1>2 DEF SyncInv, SyncTypes
<1>10. QED
  BY <1>2, <1>3, <1>5, <1>8, <1>9, RunnerMoves

LEMMA ReadCursorKeeps ==
  ASSUME SyncConstants, SyncInv, NEW r \in Runners, Export!ReadCursor(r) PROVE SyncInv'
<1>1. PICK c : c = [pc |-> "select", cursor |-> Held(runner[r]), batch |-> {}, memory |-> runner[r].memory]
  OBVIOUS
<1>2. runner' = [runner EXCEPT ![r] = c] /\ UNCHANGED <<backend, ledger, bucket, cursorObject, late, faults>>
  BY <1>1, SyncFacts DEF Export!ReadCursor
<1>3. c \in RunnerStates
  BY <1>1, SyncFacts DEF RunnerStates
<1>4. RunnerInv(c)
  <2>1. Behind(c.cursor) /\ Behind(Held(c))
    <3>1. Held(c) = Held(runner[r])
      BY <1>1 DEF Held
    <3>2. QED
      BY <1>1, <3>1, SyncFacts DEF RunnerInv
  <2>2. IsFiniteSet(c.batch) /\ c.batch = {} /\ c.pc # "push"
    BY <1>1, FS_EmptySet
  <2>3. QED
    BY <2>1, <2>2 DEF RunnerInv
<1>5. cursorObject' \in Positions /\ Behind(cursorObject') /\ faults' \in 0..MaxFaults
  BY <1>2 DEF SyncInv, SyncTypes
<1>6. bucket \subseteq bucket' /\ bucket' \subseteq Exports
  BY <1>2 DEF SyncInv, SyncTypes
<1>7. RunnerInv(c)'
  BY <1>2, <1>4, <1>5, RunnerStays
<1>8. QED
  BY <1>2, <1>3, <1>5, <1>6, <1>7, RunnerMoves

LEMMA ExportCounts == \A S : Export!Cardinality(S) = Cardinality(S)
BY DEF Export!Cardinality, Cardinality

\* events_after leaves out nothing above the cursor and below what it returns.
LEMMA BatchHasNoGap ==
  ASSUME SyncConstants, SyncInv, NEW k \in Positions, Behind(k)
  PROVE  /\ Export!EventsAfter(k) \subseteq ledger
         /\ \A x \in Export!EventsAfter(k), e \in ledger :
              e <= x => e \in Export!EventsAfter(k) \cup bucket \cup late
<1> DEFINE rows == IF k \in ledger THEN {e \in ledger : e > k} ELSE ledger
           upto(e) == {x \in rows : x <= e}
<1>1. Export!EventsAfter(k) = {e \in rows : Cardinality(upto(e)) <= BatchSize}
  <2>1. Export!EventsAfter(k) = {e \in rows : Export!Cardinality(upto(e)) <= BatchSize}
    BY DEF Export!EventsAfter
  <2>2. QED
    BY <2>1, ExportCounts
<1>2. ledger \subseteq Nat /\ IsFiniteSet(ledger) /\ BatchSize \in Nat /\ k \in Nat
  BY SyncFacts DEF SyncInv, SyncTypes, SyncConstants
<1>3. rows \subseteq ledger /\ rows \subseteq Nat /\ \A e \in ledger : e \in rows \/ e <= k
  <2>1. CASE k \in ledger
    <3>1. rows = {e \in ledger : e > k}
      BY <2>1
    <3> HIDE DEF rows
    <3>2. \A e \in ledger : e \in Nat /\ (e > k \/ e <= k)
      BY <1>2
    <3>3. QED
      BY <3>1, <3>2
  <2>2. CASE k \notin ledger
    <3>1. rows = ledger
      BY <2>2
    <3> HIDE DEF rows
    <3>2. QED
      BY <1>2, <3>1
  <2>3. QED
    BY <2>1, <2>2
<1> HIDE DEF rows
<1>4. ASSUME NEW x \in rows, NEW e \in rows, e <= x, Cardinality(upto(x)) <= BatchSize
      PROVE  Cardinality(upto(e)) <= BatchSize
  <2>1. upto(x) \in SUBSET ledger
    BY <1>3
  <2>2. IsFiniteSet(upto(x)) /\ Cardinality(upto(x)) \in Nat
    BY <1>2, <2>1, FS_Subset, FS_CardinalityType
  <2>3. upto(e) \in SUBSET upto(x)
    <3> SUFFICES ASSUME NEW y \in upto(e) PROVE y \in upto(x)
      OBVIOUS
    <3>1. y \in Nat /\ e \in Nat /\ x \in Nat /\ y <= e
      BY <1>3
    <3>2. y <= x
      BY <1>4, <3>1
    <3>3. QED
      BY <3>2
  <2> HIDE DEF upto
  <2>4. Cardinality(upto(e)) <= Cardinality(upto(x)) /\ IsFiniteSet(upto(e))
    BY <2>2, <2>3, FS_Subset
  <2>5. Cardinality(upto(e)) \in Nat
    BY <2>4, FS_CardinalityType
  <2>6. QED
    BY <1>2, <1>4, <2>2, <2>4, <2>5
<1> HIDE DEF upto
<1>5. ASSUME NEW x \in Export!EventsAfter(k), NEW e \in ledger, e <= x
      PROVE  e \in Export!EventsAfter(k) \cup bucket \cup late
  <2>1. x \in rows /\ Cardinality(upto(x)) <= BatchSize
    BY <1>1
  <2>2. CASE e \in rows
    BY <1>1, <1>4, <1>5, <2>1, <2>2
  <2>3. CASE e <= k
    BY <2>3 DEF Behind
  <2>4. QED
    BY <1>3, <2>2, <2>3
<1>6. QED
  BY <1>1, <1>3, <1>5

LEMMA SelectBatchKeeps ==
  ASSUME SyncConstants, SyncInv, NEW r \in Runners, Export!SelectBatch(r) PROVE SyncInv'
<1>1. PICK b : b = Export!EventsAfter(runner[r].cursor)
  OBVIOUS
<1>2. PICK c : c = [pc |-> IF b = {} THEN "cursor" ELSE "push", cursor |-> runner[r].cursor,
                    batch |-> b, memory |-> runner[r].memory]
  OBVIOUS
<1>3. runner' = [runner EXCEPT ![r] = c] /\ UNCHANGED <<backend, ledger, bucket, cursorObject, late, faults>>
  BY <1>1, <1>2 DEF Export!SelectBatch
<1>4. runner[r].cursor \in Positions /\ runner[r].memory \in Positions /\ Behind(runner[r].cursor)
      /\ Behind(Held(runner[r]))
  BY SyncFacts DEF RunnerStates, RunnerInv
<1>5. b \subseteq ledger /\ \A x \in b, e \in ledger : e <= x => e \in b \cup bucket \cup late
  BY <1>1, <1>4, BatchHasNoGap
<1>6. IsFiniteSet(b) /\ b \in SUBSET Exports
  BY <1>5, FS_Subset DEF SyncInv, SyncTypes
<1>7. c \in RunnerStates
  BY <1>2, <1>4, <1>6 DEF RunnerStates
<1>8. RunnerInv(c)
  <2>1. Behind(c.cursor) /\ Behind(Held(c))
    <3>1. Held(c) = Held(runner[r])
      BY <1>2 DEF Held
    <3>2. QED
      BY <1>2, <1>4, <3>1
  <2>2. c.batch = b /\ (c.pc = "push" => b # {})
    BY <1>2
  <2>3. QED
    BY <1>5, <1>6, <2>1, <2>2 DEF RunnerInv
<1>9. cursorObject' \in Positions /\ Behind(cursorObject') /\ faults' \in 0..MaxFaults
  BY <1>3 DEF SyncInv, SyncTypes
<1>10. bucket \subseteq bucket' /\ bucket' \subseteq Exports
  BY <1>3 DEF SyncInv, SyncTypes
<1>11. RunnerInv(c)'
  BY <1>3, <1>8, <1>9, RunnerStays
<1>12. QED
  BY <1>3, <1>7, <1>9, <1>10, <1>11, RunnerMoves

LEMMA PutEventKeeps ==
  ASSUME SyncConstants, SyncInv, NEW r \in Runners, Export!PutEvent(r) PROVE SyncInv'
<1>1. PICK c : c = runner[r]
  OBVIOUS
<1>2. /\ Export!Unwritten(r) # {} /\ bucket' = bucket \cup {Export!Min(Export!Unwritten(r))}
      /\ UNCHANGED <<backend, ledger, cursorObject, runner, late, faults>>
  BY DEF Export!PutEvent
<1>3. c \in RunnerStates /\ RunnerInv(c) /\ runner \in [Runners -> RunnerStates]
  BY <1>1, SyncFacts DEF SyncInv, SyncTypes
<1>4. Export!Unwritten(r) \subseteq Exports /\ Exports \subseteq Nat
  BY <1>1, <1>3, SyncFacts DEF RunnerStates, Export!Unwritten
<1>5. bucket \subseteq bucket' /\ bucket' \subseteq Exports
  <2>1. Export!Min(Export!Unwritten(r)) \in Export!Unwritten(r)
    BY <1>2, <1>4, SyncMin
  <2>2. QED
    BY <1>2, <1>4, <2>1 DEF SyncInv, SyncTypes
<1>6. runner' = [runner EXCEPT ![r] = c]
  BY <1>1, <1>2, <1>3
<1>7. cursorObject' \in Positions /\ Behind(cursorObject') /\ faults' \in 0..MaxFaults
  BY <1>2 DEF SyncInv, SyncTypes
<1>8. RunnerInv(c)'
  BY <1>2, <1>3, <1>5, <1>7, RunnerStays
<1>9. QED
  BY <1>2, <1>3, <1>5, <1>6, <1>7, <1>8, RunnerMoves

LEMMA PutCursorKeeps ==
  ASSUME SyncConstants, SyncInv, NEW r \in Runners, Export!PutCursor(r) PROVE SyncInv'
<1>1. PICK b : b = runner[r].batch
  OBVIOUS
<1>2. PICK m : m = Export!Max(b)
  OBVIOUS
<1>3. /\ runner[r].pc = "push" /\ b \subseteq bucket /\ cursorObject' = m
      /\ runner' = [runner EXCEPT ![r] = Export!Idle(m)]
      /\ UNCHANGED <<backend, ledger, bucket, late, faults>>
  BY <1>1, <1>2 DEF Export!PutCursor, Export!Unwritten
<1>4. /\ b # {} /\ IsFiniteSet(b) /\ b \subseteq Exports /\ Exports \subseteq Nat
      /\ \A x \in b, e \in ledger : e <= x => e \in b \cup bucket \cup late
  BY <1>1, <1>3, SyncFacts DEF RunnerInv, RunnerStates
<1>5. m \in b
  BY <1>2, <1>4, SyncMax
<1>6. Behind(m) /\ m \in Positions
  BY <1>3, <1>4, <1>5 DEF Behind, Positions
<1>7. cursorObject' \in Positions /\ Behind(cursorObject') /\ faults' \in 0..MaxFaults
  BY <1>3, <1>6 DEF SyncInv, SyncTypes
<1>8. bucket \subseteq bucket' /\ bucket' \subseteq Exports
  BY <1>3 DEF SyncInv, SyncTypes
<1>9. Export!Idle(m) \in RunnerStates /\ RunnerInv(Export!Idle(m))'
  BY <1>3, <1>6, IdleHolds
<1>10. PICK c : c = Export!Idle(m)
  OBVIOUS
<1>11. c \in RunnerStates /\ RunnerInv(c)' /\ runner' = [runner EXCEPT ![r] = c]
  BY <1>3, <1>9, <1>10 DEF Export!Idle, Export!NoCursor
<1>12. QED
  BY <1>3, <1>7, <1>8, <1>11, RunnerMoves

LEMMA SyncAppendKeeps ==
  ASSUME SyncConstants, SyncInv, NEW n \in Exports, Export!Append(n) PROVE SyncInv'
<1>1. /\ n \notin ledger \cup late \cup bucket /\ ledger' = ledger \cup {n}
      /\ late' = IF \E x \in Export!Reached : n < x THEN late \cup {n} ELSE late
      /\ UNCHANGED <<backend, bucket, cursorObject, runner, faults>>
  BY DEF Export!Append
<1>2. late \subseteq late' /\ late' \subseteq Exports
  BY <1>1 DEF SyncInv, SyncTypes
<1>3. ASSUME NEW x \in Nat, x \in Export!Reached, n <= x, n # x PROVE n \in late'
  BY <1>1, <1>3, SyncFacts
<1>4. ASSUME NEW k \in Positions, k \in Export!Reached, Behind(k) PROVE Behind(k)'
  <2>1. n <= k => n \in late'
    <3>1. n \in Nat \ {0} /\ k \in Nat
      BY SyncFacts
    <3>2. n # k
      BY <1>1, <1>4, <3>1 DEF Behind
    <3>3. QED
      BY <1>3, <1>4, <3>1, <3>2
  <2>2. QED
    BY <1>1, <1>2, <1>4, <2>1 DEF Behind
<1>5. Behind(cursorObject)'
  <2>1. PICK w : w = cursorObject
    OBVIOUS
  <2>2. w \in Positions /\ w \in Export!Reached /\ Behind(w)
    BY <2>1 DEF SyncInv, SyncTypes, Export!Reached
  <2>3. Behind(w)'
    BY <1>4, <2>2
  <2>4. QED
    BY <1>1, <2>1, <2>3 DEF Behind
<1>6. \A q \in Runners : RunnerInv(runner[q])'
  <2> SUFFICES ASSUME NEW q \in Runners PROVE RunnerInv(runner[q])'
    OBVIOUS
  <2>1. PICK d : d = runner[q]
    OBVIOUS
  <2>2. d \in RunnerStates /\ RunnerInv(d) /\ Held(d) \in Positions /\ Export!Cursor(q) = Held(d)
    BY <2>1, SyncFacts
  <2>3. d.cursor \in Export!Reached /\ Held(d) \in Export!Reached /\ d.batch \subseteq Export!Reached
    BY <2>1, <2>2 DEF Export!Reached
  <2>4. Behind(d.cursor)'
    BY <1>4, <2>2, <2>3 DEF RunnerInv, RunnerStates
  <2>5. Behind(Held(d))'
    <3>1. PICK h : h = Held(d)
      OBVIOUS
    <3>2. Behind(h)'
      BY <1>4, <2>2, <2>3, <3>1 DEF RunnerInv
    <3>3. QED
      BY <1>1, <3>1, <3>2 DEF Behind, Held
  <2>6. ASSUME NEW x \in d.batch, NEW e \in ledger', e <= x PROVE e \in d.batch \cup bucket' \cup late'
    <3>1. x \in Nat /\ x \in Export!Reached
      BY <2>2, <2>3, SyncFacts DEF RunnerStates
    <3>2. CASE e = n
      BY <1>3, <2>6, <3>1, <3>2
    <3>3. CASE e \in ledger
      BY <1>1, <1>2, <2>2, <2>6, <3>3 DEF RunnerInv
    <3>4. QED
      BY <1>1, <3>2, <3>3
  <2>7. RunnerInv(d)'
    BY <2>2, <2>4, <2>5, <2>6 DEF RunnerInv
  <2>8. QED
    BY <1>1, <2>1, <2>7 DEF RunnerInv, Held
<1>7. IsFiniteSet(ledger')
  BY <1>1, FS_AddElement DEF SyncInv
<1>8. SyncTypes'
  BY <1>1, <1>2 DEF SyncInv, SyncTypes
<1>9. QED
  BY <1>5, <1>6, <1>7, <1>8 DEF SyncInv

LEMMA PurgeKeeps ==
  ASSUME SyncConstants, SyncInv, NEW n \in Exports, Export!Purge(n) PROVE SyncInv'
<1>1. /\ ledger' = ledger \ {n} /\ faults' = faults + 1 /\ faults < MaxFaults
      /\ UNCHANGED <<backend, bucket, cursorObject, runner, late>>
  BY DEF Export!Purge
<1>2. Behind(cursorObject')
  BY <1>1 DEF SyncInv
<1>3. \A q \in Runners : RunnerInv(runner[q])'
  <2> SUFFICES ASSUME NEW q \in Runners PROVE RunnerInv(runner[q])'
    OBVIOUS
  <2>1. PICK d : d = runner[q]
    OBVIOUS
  <2>2. RunnerInv(d)'
    BY <1>1, <1>2, <2>1, RunnerStays DEF SyncInv
  <2>3. QED
    BY <1>1, <2>1, <2>2 DEF RunnerInv, Held
<1>4. Behind(cursorObject)'
  BY <1>1 DEF SyncInv, Behind
<1>5. IsFiniteSet(ledger') /\ faults' \in 0..MaxFaults
  <2>1. ledger' \in SUBSET ledger /\ IsFiniteSet(ledger)
    BY <1>1 DEF SyncInv
  <2>2. IsFiniteSet(ledger')
    BY <2>1, FS_Subset
  <2>3. QED
    BY <1>1, <2>2 DEF SyncInv, SyncTypes, SyncConstants
<1>6. SyncTypes'
  BY <1>1, <1>5 DEF SyncInv, SyncTypes
<1>7. QED
  BY <1>3, <1>4, <1>5, <1>6 DEF SyncInv

LEMMA SyncInit == ASSUME SyncConstants, Export!Init PROVE SyncInv
<1>1. /\ backend \in Backends /\ ledger = {} /\ bucket = {} /\ cursorObject = 0 /\ late = {} /\ faults = 0
      /\ runner = [r \in Runners |-> Export!Idle(0)]
  BY DEF Export!Init, Export!NoCursor
<1>2. PICK c : c = [pc |-> "cursor", cursor |-> 0, batch |-> {}, memory |-> 0]
  OBVIOUS
<1>3. runner = [r \in Runners |-> c]
  BY <1>1, <1>2 DEF Export!Idle, Export!NoCursor
<1>4. c \in RunnerStates
  BY <1>2 DEF RunnerStates, Positions
<1>5. SyncTypes
  BY <1>1, <1>3, <1>4 DEF SyncTypes, SyncConstants, Positions
<1>6. \A k : k = 0 => Behind(k)
  BY <1>1 DEF Behind
<1>7. RunnerInv(c)
  <2>1. Held(c) = 0
    BY <1>1, <1>2 DEF Held
  <2>2. IsFiniteSet(c.batch) /\ c.batch = {} /\ c.pc # "push" /\ c.cursor = 0
    BY <1>2, FS_EmptySet
  <2>3. QED
    BY <1>6, <2>1, <2>2 DEF RunnerInv
<1>8. \A r \in Runners : runner[r] = c
  BY <1>3
<1>9. QED
  BY <1>1, <1>5, <1>6, <1>7, <1>8, FS_EmptySet DEF SyncInv

LEMMA SyncStep == ASSUME SyncConstants, SyncInv, [Export!Next]_(Export!vars) PROVE SyncInv'
<1>1. CASE Export!Next
  <2>1. CASE \E e \in Exports : Export!Append(e) \/ Export!Purge(e)
    BY <2>1, SyncAppendKeeps, PurgeKeeps
  <2>2. CASE \E r \in Runners : Export!RunTail(r) \/ Export!RoundFails(r) \/ Export!Restart(r)
    BY <2>2, ReadCursorKeeps, SelectBatchKeeps, PutEventKeeps, PutCursorKeeps, GivesUpKeeps DEF Export!RunTail
  <2>3. QED
    BY <1>1, <2>1, <2>2 DEF Export!Next
<1>2. CASE UNCHANGED Export!vars
  <2>1. UNCHANGED <<backend, ledger, bucket, cursorObject, runner, late, faults>>
    BY <1>2 DEF Export!vars
  <2>2. QED
    BY <2>1 DEF SyncInv, SyncTypes, Behind, RunnerInv, Held
<1>3. QED
  BY <1>1, <1>2

(* Several runners export one chronicle: what _cursor.txt has passed is in the
   bucket unless its row appeared out of order, through failed rounds,
   restarts, rows purged under the cursor and runners that move it back; for
   any number of runners, any batch size and every destination.             *)
THEOREM ExportCoversItsCursor ==
  ASSUME SyncConstants
  PROVE  Export!Spec => [](Export!TypeOK /\ Export!CursorCovers)
<1>1. Export!Init => SyncInv
  BY SyncInit
<1>2. SyncInv /\ [Export!Next]_(Export!vars) => SyncInv'
  BY SyncStep
<1>3. SyncInv => Export!TypeOK /\ Export!CursorCovers
  <2> SUFFICES ASSUME SyncInv PROVE Export!TypeOK /\ Export!CursorCovers
    OBVIOUS
  <2>1. \A r \in Runners : runner[r].pc \in {"cursor", "select", "push"}
    BY SyncFacts DEF RunnerStates
  <2>2. Export!TypeOK
    BY <2>1 DEF Export!TypeOK, SyncInv, SyncTypes, Positions, Export!NoCursor
  <2>3. Export!CursorCovers
    BY DEF Export!CursorCovers, SyncInv, Behind, Export!NoCursor
  <2>4. QED
    BY <2>2, <2>3
<1>4. QED
  BY <1>1, <1>2, <1>3, PTL DEF Export!Spec

---------------------------------------------------------------------------
(* The components together.                                                *)

\* What counts on time keeps its bound through races, late reports and clock
\* steps: the lock table, the breaker, the bucket, the triggers, the key cache.
LimitsHold ==
  /\ Locks!TypeOK /\ Locks!OneHolder
  /\ Breaker!TypeOK /\ Breaker!OpenKeepsOut
  /\ Bucket!TypeOK /\ Bucket!BurstIsBounded /\ Bucket!WaitIsEnough
  /\ Cron!TypeOK /\ Cron!NoTimeIsLost /\ Cron!RunHasEvent
  /\ Oidc!TypeOK /\ Oidc!OneEntryPerIssuer /\ Oidc!KeysAreNotOld

\* The five components keep their limits side by side, for every configuration
\* the code accepts.
THEOREM LimitsAreKept ==
  ASSUME LockConstants, BreakerConstants, BucketConstants, CronConstants, OidcConstants
  PROVE  Locks!Spec /\ Breaker!Spec /\ Bucket!Spec /\ Cron!Spec /\ Oidc!Spec => []LimitsHold
<1>1. /\ Locks!Spec => [](Locks!TypeOK /\ Locks!OneHolder)
      /\ Breaker!Spec => [](Breaker!TypeOK /\ Breaker!OpenKeepsOut)
      /\ Bucket!Spec => [](Bucket!TypeOK /\ Bucket!BurstIsBounded /\ Bucket!WaitIsEnough)
      /\ Cron!Spec => [](Cron!TypeOK /\ Cron!NoTimeIsLost /\ Cron!RunHasEvent)
      /\ Oidc!Spec => [](Oidc!TypeOK /\ Oidc!OneEntryPerIssuer /\ Oidc!KeysAreNotOld)
  BY LocksExclude, BreakerKeepsOut, BucketKeepsTheRate, CronLosesNothing, OidcKeysAreFresh
<1>2. QED
  BY <1>1, PTL DEF LimitsHold

(* Who reads on from a cursor has everything behind it. The MCP handler
   returns the result of tools/call and nothing else from the pipe. tail
   prints every event once and in order but for rows inserted below its
   cursor. A migration is recorded only when all of it and of those before
   took effect, and a half-applied one was stopped. What _cursor.txt has
   passed is in the bucket, through crashes, retries, a second runner and
   purges, unless its row appeared out of order.                           *)
ReadersMissNothing ==
  /\ Mcp!TypeOK /\ Mcp!ResultIsOfTheCall
  /\ Follow!TailIsComplete
  /\ Schema!TypeOK /\ Schema!RecordedIsWhole /\ Schema!HalfAppliedWasStopped
  /\ Export!TypeOK /\ Export!CursorCovers

\* The four readers miss nothing side by side, for any rows, any scripts, any
\* number of processes and runners and every size of a page or a batch.
THEOREM ReadersAreComplete ==
  ASSUME McpConstants, TailConstants, SchemaConstants, SyncConstants
  PROVE  Mcp!Spec /\ Follow!TailSpec /\ Schema!Spec /\ Export!Spec => []ReadersMissNothing
<1>1. /\ Mcp!Spec => [](Mcp!TypeOK /\ Mcp!ResultIsOfTheCall)
      /\ Follow!TailSpec => []Follow!TailIsComplete
      /\ Schema!Spec => [](Schema!TypeOK /\ Schema!RecordedIsWhole /\ Schema!HalfAppliedWasStopped)
      /\ Export!Spec => [](Export!TypeOK /\ Export!CursorCovers)
  BY McpReturnsItsResult, TailLosesNothing, MigrationsAreWhole, ExportCoversItsCursor
<1>2. QED
  BY <1>1, PTL DEF ReadersMissNothing
=============================================================================
