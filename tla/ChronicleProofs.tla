-------------------------- MODULE ChronicleProofs --------------------------
(***************************************************************************)
(* Proofs about Chronicle, for any number of writers, sessions and events, *)
(* any clock and either way of comparing timestamps; about retention,      *)
(* which deletes what the chronicle wrote; and about the broker and the    *)
(* hub, which tell clients of it.                                          *)
(***************************************************************************)
EXTENDS Chronicle, TLAPS

\* The rows of scope s among the first n.
ScopeUpTo(s, n) == {k \in 1..n : s = NoSession \/ events[k].session = s}

\* p is what last_event_hash answers for scope s over the first n rows.
LinkedAt(s, p, n) ==
    \/ ScopeUpTo(s, n) = {} /\ p = ZeroHash
    \/ \E j \in ScopeUpTo(s, n) :
          /\ p = events[j].hash
          /\ \A k \in ScopeUpTo(s, n) : k # j => SortsAfter(j, k)

\* Every stored hash was computed from the stored prev and the event itself.
HashesAreChained ==
    \A i \in 1..Len(events) : events[i].hash = Append(events[i].prev, events[i].id)

IdsAreUnique ==
    \A i, j \in 1..Len(events) : events[i].id = events[j].id => i = j

\* Every event links to the row its writer found last, among the rows there
\* when it looked.
EventsAreLinked ==
    \A i \in 1..Len(events) :
        /\ events[i].seen < i
        /\ LinkedAt(events[i].session, events[i].prev, events[i].seen)

\* The same of the hash a writer holds between its read and its insert.
WritersAreLinked ==
    \A w \in Writers : pc[w] \in {"stamp", "insert"} =>
        /\ readAt[w] <= Len(events)
        /\ LinkedAt(session[w], prev[w], readAt[w])

ChainInv ==
    /\ TypeOK
    /\ HashesAreChained
    /\ IdsAreUnique
    /\ EventsAreLinked
    /\ WritersAreLinked

-----------------------------------------------------------------------------

\* A returning call leaves well-typed locals.
LEMMA ReturnTypes ==
    ASSUME TypeOK, NEW w \in Writers, Return(w)
    PROVE  /\ pc' \in [Writers -> {"idle", "read", "stamp", "insert"}]
           /\ kind' \in [Writers -> {"engine", "server", "trigger"}]
           /\ session' \in [Writers -> Sessions \cup {NoSession}]
           /\ prev' \in [Writers -> Hash]
           /\ readAt' \in [Writers -> Nat]
           /\ created_at' \in [Writers -> Nat]
<1>1. ZeroHash \in Hash
  BY DEF ZeroHash, Hash
<1>2. QED
  BY <1>1 DEF Return, TypeOK

\* Every step preserves the types.
LEMMA TypeStep ==
    ASSUME TypeOK, [Next]_vars
    PROVE  TypeOK'
<1> USE BoundsAssumption
<1>1. ASSUME NEW w \in Writers, NEW s \in Sessions \cup {NoSession}, BeginEngine(w, s)
      PROVE  TypeOK'
  BY <1>1 DEF BeginEngine, Begin, TypeOK
<1>2. ASSUME NEW w \in Writers, BeginServer(w) PROVE TypeOK'
  BY <1>2 DEF BeginServer, Begin, TypeOK
<1>3. ASSUME NEW w \in Writers, BeginTrigger(w) PROVE TypeOK'
  BY <1>3 DEF BeginTrigger, Begin, TypeOK
<1>4. ASSUME NEW w \in Writers, ReadPrev(w) PROVE TypeOK'
  <2>1. PICK h \in {ZeroHash} \cup {events[i].hash : i \in 1..Len(events)} :
           prev' = [prev EXCEPT ![w] = h]
    BY <1>4 DEF ReadPrev
  <2>2. \A i \in 1..Len(events) : events[i] \in Event
    BY DEF TypeOK
  <2>3. h \in Hash
    <3>1. CASE h = ZeroHash
      BY <3>1 DEF ZeroHash, Hash
    <3>2. CASE \E i \in 1..Len(events) : h = events[i].hash
      <4>1. PICK i \in 1..Len(events) : h = events[i].hash
        BY <3>2
      <4>2. QED
        BY <2>2, <4>1 DEF Event
    <3>3. QED
      BY <3>1, <3>2
  <2>4. Len(events) \in Nat
    BY DEF TypeOK
  <2>5. QED
    BY <1>4, <2>1, <2>3, <2>4 DEF ReadPrev, TypeOK
<1>5. ASSUME NEW w \in Writers, Stamp(w) \/ Abandon(w) PROVE TypeOK'
  BY <1>5, ReturnTypes DEF Stamp, Abandon, TypeOK
<1>6. ASSUME NEW w \in Writers, NEW id \in Ids, Insert(w, id) PROVE TypeOK'
  <2> DEFINE e == [id |-> id, session |-> session[w], prev |-> prev[w],
                   hash |-> chain_hash(prev[w], id),
                   created_at |-> created_at[w], seen |-> readAt[w]]
  <2>1. chain_hash(prev[w], id) \in Hash
    BY DEF chain_hash, TypeOK, Hash
  <2>2. e \in Event
    BY <2>1 DEF TypeOK, Event
  <2> HIDE DEF e
  <2>3. events' \in Seq(Event)
    BY <1>6, <2>2 DEF Insert, TypeOK, e
  <2>4. QED
    BY <1>6, <2>3, ReturnTypes DEF Insert, TypeOK
<1>7. CASE Tick
  BY <1>7 DEF Tick, TypeOK, writer
<1>8. CASE StepBack
  BY <1>8 DEF StepBack, TypeOK, writer
<1>9. CASE UNCHANGED vars
  BY <1>9 DEF vars, TypeOK, writer
<1>10. QED
  BY <1>1, <1>2, <1>3, <1>4, <1>5, <1>6, <1>7, <1>8, <1>9 DEF Next

\* Type correctness of the ledger and of the writers' local state.
THEOREM TypeCorrect == Spec => []TypeOK
<1>1. Init => TypeOK
  BY BoundsAssumption DEF Init, TypeOK, ZeroHash, Hash
<1>2. TypeOK /\ [Next]_vars => TypeOK'
  BY TypeStep
<1>3. QED
  BY <1>1, <1>2, PTL DEF Spec

\* Appending a row does not change what the first n rows answer.
LEMMA LinksAreStable ==
    ASSUME NEW s, NEW p, NEW n \in Nat, n <= Len(events),
           Len(events) \in Nat, Len(events') \in Nat,
           Len(events) <= Len(events'),
           \A k \in 1..Len(events) : events'[k] = events[k],
           LinkedAt(s, p, n)
    PROVE  LinkedAt(s, p, n)'
<1>1. ScopeUpTo(s, n)' = ScopeUpTo(s, n)
  BY DEF ScopeUpTo
<1>2. \A k \in ScopeUpTo(s, n) : k \in 1..Len(events)
  BY DEF ScopeUpTo
<1>3. \A j, k \in ScopeUpTo(s, n) : SortsAfter(j, k) => SortsAfter(j, k)'
  BY <1>2 DEF SortsAfter, SortKey
<1>4. QED
  BY <1>1, <1>2, <1>3 DEF LinkedAt

\* What last_event_hash returns over the whole table links to its last row.
LEMMA ReadLinks ==
    ASSUME NEW s, NEW h, last_event_hash(s, h)
    PROVE  LinkedAt(s, h, Len(events))
<1>1. Scope(s) = ScopeUpTo(s, Len(events))
  BY DEF Scope, ScopeUpTo
<1>2. QED
  BY <1>1 DEF last_event_hash, LinkedAt, IsLast

-----------------------------------------------------------------------------

\* ChainInv is inductive.
LEMMA ChainStep ==
    ASSUME ChainInv, [Next]_vars
    PROVE  ChainInv'
<1>1. TypeOK'
  BY TypeStep DEF ChainInv
<1>2. Len(events) \in Nat
  BY DEF ChainInv, TypeOK
<1>3. ASSUME UNCHANGED events,
             \A w \in Writers : pc'[w] \in {"stamp", "insert"} =>
                /\ readAt'[w] <= Len(events)
                /\ LinkedAt(session'[w], prev'[w], readAt'[w])
      PROVE  ChainInv'
  <2>1. HashesAreChained' /\ IdsAreUnique'
    BY <1>3 DEF HashesAreChained, IdsAreUnique, ChainInv
  <2>2. EventsAreLinked' /\ WritersAreLinked'
    BY <1>3 DEF EventsAreLinked, WritersAreLinked, ChainInv, LinkedAt, ScopeUpTo,
                SortsAfter
  <2>3. QED
    BY <1>1, <2>1, <2>2 DEF ChainInv
<1>4. ASSUME NEW w \in Writers, NEW k, NEW s, Begin(w, k, s), pc'[w] = "read",
             \A v \in Writers : v # w => pc'[v] = pc[v]
      PROVE  ChainInv'
  BY <1>3, <1>4 DEF Begin, ChainInv, WritersAreLinked, TypeOK
<1>5. ASSUME NEW w \in Writers, NEW s \in Sessions \cup {NoSession}, BeginEngine(w, s)
      PROVE  ChainInv'
  BY <1>4, <1>5 DEF BeginEngine, ChainInv, TypeOK
<1>6. ASSUME NEW w \in Writers, BeginServer(w) PROVE ChainInv'
  BY <1>4, <1>6 DEF BeginServer, ChainInv, TypeOK
<1>7. ASSUME NEW w \in Writers, BeginTrigger(w) PROVE ChainInv'
  BY <1>4, <1>7 DEF BeginTrigger, ChainInv, TypeOK
<1>8. ASSUME NEW w \in Writers, ReadPrev(w) PROVE ChainInv'
  <2>1. PICK h : last_event_hash(session[w], h) /\ prev' = [prev EXCEPT ![w] = h]
    BY <1>8 DEF ReadPrev
  <2>2. LinkedAt(session[w], h, Len(events))
    BY <2>1, ReadLinks
  <2>3. /\ prev'[w] = h /\ readAt'[w] = Len(events) /\ UNCHANGED <<events, session>>
        /\ \A v \in Writers : v # w =>
              prev'[v] = prev[v] /\ readAt'[v] = readAt[v] /\ pc'[v] = pc[v]
    BY <1>8, <2>1 DEF ReadPrev, ChainInv, TypeOK
  <2>4. QED
    BY <1>2, <1>3, <2>2, <2>3 DEF ChainInv, WritersAreLinked
<1>9. ASSUME NEW w \in Writers, Stamp(w) \/ Abandon(w) PROVE ChainInv'
  BY <1>3, <1>9 DEF Stamp, Abandon, Return, ChainInv, WritersAreLinked, TypeOK
<1>10. ASSUME NEW w \in Writers, NEW id \in Ids, Insert(w, id) PROVE ChainInv'
  <2> DEFINE n == Len(events)
             e == [id |-> id, session |-> session[w], prev |-> prev[w],
                   hash |-> chain_hash(prev[w], id),
                   created_at |-> created_at[w], seen |-> readAt[w]]
  <2>1. /\ Len(events') = n + 1
        /\ events'[n + 1] = e
        /\ \A i \in 1..n : events'[i] = events[i]
    BY <1>10 DEF Insert, ChainInv, TypeOK
  <2>2. /\ e.id = id /\ e.session = session[w] /\ e.prev = prev[w]
        /\ e.hash = Append(prev[w], id) /\ e.seen = readAt[w]
    BY DEF chain_hash
  <2>3. /\ pc[w] = "insert" /\ id \notin UsedIds
        /\ pc'[w] = "idle"
        /\ \A v \in Writers : v # w =>
              /\ pc'[v] = pc[v]
              /\ session'[v] = session[v] /\ prev'[v] = prev[v] /\ readAt'[v] = readAt[v]
    BY <1>10 DEF Insert, Return, ChainInv, TypeOK
  <2> HIDE DEF n, e
  <2>4. n \in Nat /\ n = Len(events) /\ readAt[w] \in Nat
    BY <1>2 DEF n, ChainInv, TypeOK
  <2>5. ASSUME NEW s, NEW p, NEW m \in Nat, m <= n, LinkedAt(s, p, m)
        PROVE  LinkedAt(s, p, m)'
    BY <2>1, <2>4, <2>5, LinksAreStable
  <2>6. HashesAreChained'
    <3> SUFFICES ASSUME NEW i \in 1..(n + 1)
                 PROVE  events'[i].hash = Append(events'[i].prev, events'[i].id)
      BY <2>1 DEF HashesAreChained
    <3>1. CASE i = n + 1
      BY <2>1, <2>2, <3>1
    <3>2. CASE i \in 1..n
      BY <2>1, <2>4, <3>2 DEF HashesAreChained, ChainInv
    <3>3. QED
      BY <2>4, <3>1, <3>2
  <2>7. IdsAreUnique'
    <3> SUFFICES ASSUME NEW i \in 1..(n + 1), NEW j \in 1..(n + 1),
                        events'[i].id = events'[j].id
                 PROVE  i = j
      BY <2>1 DEF IdsAreUnique
    <3>1. \A k \in 1..n : events[k].id # id
      BY <2>3, <2>4 DEF UsedIds
    <3>2. QED
      BY <2>1, <2>2, <2>4, <3>1 DEF IdsAreUnique, ChainInv
  <2>8. EventsAreLinked'
    <3> SUFFICES ASSUME NEW i \in 1..(n + 1)
                 PROVE  (/\ events[i].seen < i
                         /\ LinkedAt(events[i].session, events[i].prev, events[i].seen))'
      BY <2>1 DEF EventsAreLinked
    <3>1. CASE i = n + 1
      <4>1. readAt[w] <= n /\ LinkedAt(session[w], prev[w], readAt[w])
        BY <2>3, <2>4 DEF ChainInv, WritersAreLinked
      <4>2. PICK s, p, m : s = session[w] /\ p = prev[w] /\ m = readAt[w]
        OBVIOUS
      <4>3. LinkedAt(s, p, m)'
        BY <2>4, <2>5, <4>1, <4>2
      <4>4. QED
        BY <2>1, <2>2, <2>4, <3>1, <4>1, <4>2, <4>3
    <3>2. CASE i \in 1..n
      <4>1. events[i].seen < i /\ LinkedAt(events[i].session, events[i].prev, events[i].seen)
        BY <2>4, <3>2 DEF ChainInv, EventsAreLinked
      <4>2. events[i].seen \in Nat
        <5>1. events[i] \in Event
          BY <2>4, <3>2 DEF ChainInv, TypeOK
        <5>2. QED
          BY <5>1 DEF Event
      <4>3. QED
        BY <2>1, <2>4, <2>5, <3>2, <4>1, <4>2
    <3>3. QED
      BY <2>4, <3>1, <3>2
  <2>9. WritersAreLinked'
    <3> SUFFICES ASSUME NEW v \in Writers, pc'[v] \in {"stamp", "insert"}
                 PROVE  /\ readAt'[v] <= Len(events')
                        /\ LinkedAt(session[v], prev[v], readAt[v])'
      BY DEF WritersAreLinked
    <3>1. pc[v] \in {"stamp", "insert"}
      BY <2>3
    <3>2. readAt[v] \in Nat /\ readAt[v] <= n /\ LinkedAt(session[v], prev[v], readAt[v])
      BY <2>4, <3>1 DEF ChainInv, WritersAreLinked, TypeOK
    <3>3. QED
      BY <2>1, <2>3, <2>4, <2>5, <3>2
  <2>10. QED
    BY <1>1, <2>6, <2>7, <2>8, <2>9 DEF ChainInv
<1>11. CASE Tick \/ StepBack \/ UNCHANGED vars
  BY <1>3, <1>11 DEF Tick, StepBack, vars, writer, ChainInv, WritersAreLinked
<1>12. QED
  BY <1>5, <1>6, <1>7, <1>8, <1>9, <1>10, <1>11 DEF Next

\* The empty ledger satisfies the invariant.
LEMMA ChainInit == Init => ChainInv
BY BoundsAssumption
   DEF Init, ChainInv, TypeOK, ZeroHash, Hash, HashesAreChained, IdsAreUnique,
       EventsAreLinked, WritersAreLinked

\* A stored hash is never the zero hash, and names one row.
LEMMA HashNamesRow ==
    ASSUME ChainInv, NEW i \in 1..Len(events), NEW j \in 1..Len(events)
    PROVE  /\ events[i].hash # ZeroHash
           /\ events[i].hash # events[i].prev
           /\ events[i].hash = events[j].hash => i = j
<1>1. events[i] \in Event /\ events[j] \in Event
  BY DEF ChainInv, TypeOK
<1>2. /\ events[i].prev \in Seq(Ids) /\ events[i].id \in Ids
      /\ events[j].prev \in Seq(Ids) /\ events[j].id \in Ids
  BY <1>1 DEF Event, Hash
<1>3. /\ events[i].hash = Append(events[i].prev, events[i].id)
      /\ events[j].hash = Append(events[j].prev, events[j].id)
  BY DEF ChainInv, HashesAreChained
<1>4. /\ Len(Append(events[i].prev, events[i].id)) = Len(events[i].prev) + 1
      /\ Append(events[i].prev, events[i].id)[Len(events[i].prev) + 1] = events[i].id
      /\ Len(Append(events[j].prev, events[j].id)) = Len(events[j].prev) + 1
      /\ Append(events[j].prev, events[j].id)[Len(events[j].prev) + 1] = events[j].id
      /\ Len(events[i].prev) \in Nat /\ Len(events[j].prev) \in Nat
  BY <1>2
<1>5. events[i].hash = events[j].hash => events[i].id = events[j].id
  BY <1>3, <1>4
<1>6. events[i].hash # ZeroHash /\ events[i].hash # events[i].prev
  <2>1. Len(events[i].hash) = Len(events[i].prev) + 1 /\ Len(events[i].prev) \in Nat
    BY <1>3, <1>4
  <2>2. Len(ZeroHash) = 0
    BY DEF ZeroHash
  <2>3. QED
    BY <2>1, <2>2
<1>7. QED
  BY <1>5, <1>6 DEF ChainInv, IdsAreUnique

\* LinksExist follows from the inductive invariant.
LEMMA LinksFollow == ChainInv => LinksExist
<1> SUFFICES ASSUME ChainInv, NEW i \in 1..Len(events)
             PROVE  /\ events[i].seen < i
                    /\ IF events[i].prev = ZeroHash
                       THEN ScopeUpTo(events[i].session, events[i].seen) = {}
                       ELSE \E j \in ScopeUpTo(events[i].session, events[i].seen) :
                               events[i].prev = events[j].hash
  BY DEF LinksExist, ScopeUpTo
<1>1. /\ events[i].seen < i
      /\ LinkedAt(events[i].session, events[i].prev, events[i].seen)
  BY DEF ChainInv, EventsAreLinked
<1>2. Len(events) \in Nat /\ events[i].seen \in Nat
  <2>1. events[i] \in Event
    BY DEF ChainInv, TypeOK
  <2>2. QED
    BY <2>1 DEF Event, ChainInv, TypeOK
<1>3. \A j \in ScopeUpTo(events[i].session, events[i].seen) :
         j \in 1..Len(events) /\ events[j].hash # ZeroHash
  BY <1>1, <1>2, HashNamesRow DEF ScopeUpTo
<1>4. QED
  BY <1>1, <1>3 DEF LinkedAt

\* Why a session's chain can fork: the row the later writer found last is
\* the earlier event, one before it, or one after it.
LEMMA ForksFollow == ChainInv => ForksNeedARace
<1> SUFFICES ASSUME ChainInv,
                    NEW i \in 1..Len(events), NEW j \in 1..Len(events), i < j,
                    events[i].session # NoSession,
                    events[i].session = events[j].session,
                    events[i].prev = events[j].prev,
                    ~(events[j].seen < i)
             PROVE  Misordered(events[i].session)
  BY DEF ForksNeedARace
<1> DEFINE s == events[i].session
<1>1. /\ Len(events) \in Nat /\ events[i].seen \in Nat /\ events[j].seen \in Nat
      /\ events[i].seen < i /\ events[j].seen < j
      /\ LinkedAt(s, events[i].prev, events[i].seen)
      /\ LinkedAt(s, events[i].prev, events[j].seen)
  <2>1. events[i] \in Event /\ events[j] \in Event
    BY DEF ChainInv, TypeOK
  <2>2. QED
    BY <2>1 DEF Event, ChainInv, TypeOK, EventsAreLinked
<1>2. i \in ScopeUpTo(s, events[j].seen)
  BY <1>1 DEF ScopeUpTo
<1>3. PICK l \in ScopeUpTo(s, events[j].seen) :
         /\ events[i].prev = events[l].hash
         /\ \A k \in ScopeUpTo(s, events[j].seen) : k # l => SortsAfter(l, k)
  BY <1>1, <1>2 DEF LinkedAt
<1>4. l \in 1..Len(events) /\ events[l].session = s
  BY <1>1, <1>3 DEF ScopeUpTo
<1>5. l # i
  BY <1>3, HashNamesRow
<1>6. CASE l < i
  BY <1>2, <1>3, <1>4, <1>6 DEF Misordered
<1>7. CASE l > i
  <2>1. events[i].prev # ZeroHash
    BY <1>3, <1>4, HashNamesRow
  <2>2. PICK m \in ScopeUpTo(s, events[i].seen) : events[i].prev = events[m].hash
    BY <1>1, <2>1 DEF LinkedAt
  <2>3. m \in 1..Len(events) /\ m < i
    BY <1>1, <2>2 DEF ScopeUpTo
  <2>4. m = l
    BY <1>3, <1>4, <2>2, <2>3, HashNamesRow
  <2>5. QED
    BY <1>4, <1>7, <2>3, <2>4
<1>8. QED
  BY <1>4, <1>5, <1>6, <1>7

\* Every event hashes onto a row of its scope that its writer saw.
THEOREM LinkSafety == Spec => []LinksExist
<1>1. ChainInv /\ [Next]_vars => ChainInv'
  BY ChainStep
<1>2. QED
  BY <1>1, ChainInit, LinksFollow, PTL DEF Spec

\* A session's chain forks only through overlapping writers or timestamps
\* that do not sort in insertion order.
THEOREM ForkCauses == Spec => []ForksNeedARace
<1>1. ChainInv /\ [Next]_vars => ChainInv'
  BY ChainStep
<1>2. QED
  BY <1>1, ChainInit, ForksFollow, PTL DEF Spec

---------------------------------------------------------------------------
(* Retention, replay and reports.                                          *)

CONSTANTS EventTypes, Protected, ReplayModes

VARIABLES recorded, written, expired, purge, purged, artifact, report, pin, run, catalog

Kept == INSTANCE Retention

\* Event numbers are positive, in order of the table.
RetentionConstants == Kept!Events \subseteq Nat \ {0}

\* What refers to events names written ones, or none.
ReferencesAreWritten ==
  /\ report \in written \cup {Kept!NoEvent}
  /\ catalog \in [open : BOOLEAN, todo : SUBSET written, shown : SUBSET written,
                  empty : SUBSET purged]
  /\ pin \in [event : written \cup {Kept!NoEvent}, row : BOOLEAN]

\* A run belongs to a checkpoint that is there, and from its diff on holds an
\* entry of the checkpoint's event.
RunsArePinned ==
  /\ run \in [status : {"none", "running", "diffed", "completed"},
              mode : ReplayModes \cup {"recorded"},
              entries : SUBSET [event : Kept!Events, kind : {"changed", "identical"}]]
  /\ run.status # "none" => pin.row

RetentionInv == Kept!RetentionIsExact /\ ReferencesAreWritten /\ RunsArePinned

\* RetentionInv is inductive: a pass over an old list deletes no event that a
\* checkpoint names by now, and what it deletes was due when it was reached.
LEMMA RetentionStep ==
  ASSUME RetentionConstants, RetentionInv, [Kept!Next]_Kept!vars
  PROVE  RetentionInv'
<1> USE DEF RetentionConstants, RetentionInv, Kept!RetentionIsExact, Kept!TypeOK,
            Kept!ReplayShowsAnchor, Kept!EmptyReportWasPurged, Kept!PurgedWasDue,
            ReferencesAreWritten, RunsArePinned, Kept!NoEvent
<1>1. CASE Kept!Record
  BY <1>1 DEF Kept!Record
<1>2. CASE Kept!WriteReport
  BY <1>2 DEF Kept!WriteReport
<1>3. CASE Kept!ListReports
  BY <1>3 DEF Kept!ListReports
<1>4. CASE Kept!SelectAll
  BY <1>4 DEF Kept!SelectAll
<1>5. CASE Kept!InsertCheckpoint
  BY <1>5 DEF Kept!InsertCheckpoint
<1>6. CASE Kept!Diff
  <2> DEFINE entries == {Kept!Compared(e, run.mode) : e \in recorded}
  <2>1. \A e \in Kept!Events : Kept!Compared(e, run.mode) \in
            [event : Kept!Events, kind : {"changed", "identical"}]
    BY DEF Kept!Compared
  <2>2. entries \in SUBSET [event : Kept!Events, kind : {"changed", "identical"}]
    <3>1. \A x \in entries : \E e \in recorded : x = Kept!Compared(e, run.mode)
      OBVIOUS
    <3>2. QED
      BY <2>1, <3>1
  <2>3. pin.row /\ pin.event \in recorded
    BY <1>6 DEF Kept!Diff
  <2>4. \E entry \in entries : entry.event = pin.event
    <3>1. Kept!Compared(pin.event, run.mode) \in entries
      BY <2>3
    <3>2. Kept!Compared(pin.event, run.mode).event = pin.event
      BY DEF Kept!Compared
    <3>3. QED
      BY <3>1, <3>2
  <2>5. run' = [run EXCEPT !.status = "diffed", !.entries = entries]
    BY <1>6 DEF Kept!Diff
  <2> HIDE DEF entries
  <2>6. UNCHANGED <<recorded, written, expired, purge, purged, artifact, report, pin, catalog>>
    BY <1>6 DEF Kept!Diff
  <2>7. /\ run'.status = "diffed" /\ run'.entries = entries
        /\ run' \in [status : {"none", "running", "diffed", "completed"},
                     mode : ReplayModes \cup {"recorded"},
                     entries : SUBSET [event : Kept!Events, kind : {"changed", "identical"}]]
    BY <2>2, <2>5
  <2>8. QED
    BY <2>3, <2>4, <2>6, <2>7
<1>7. CASE Kept!FinishRun
  BY <1>7 DEF Kept!FinishRun
<1>8. ASSUME NEW ok \in BOOLEAN, Kept!InsertArtifact(ok) PROVE RetentionInv'
  BY <1>8 DEF Kept!InsertArtifact
<1>9. ASSUME NEW e \in Kept!Events, Kept!Expire(e) PROVE RetentionInv'
  BY <1>9 DEF Kept!Expire
<1>10. ASSUME NEW e \in Kept!Events, Kept!ShowReport(e) PROVE RetentionInv'
  <2> DEFINE empty == IF e \in recorded THEN catalog.empty ELSE catalog.empty \cup {e}
             shown == catalog.shown \cup {e}
  <2>1. empty \in SUBSET purged /\ shown \in SUBSET written
    BY <1>10 DEF Kept!ShowReport
  <2>2. catalog' = [catalog EXCEPT !.todo = @ \ {e}, !.open = catalog.todo # {e},
                                   !.shown = shown, !.empty = empty]
    BY <1>10 DEF Kept!ShowReport
  <2> HIDE DEF empty, shown
  <2>3. /\ catalog' \in [open : BOOLEAN, todo : SUBSET written, shown : SUBSET written,
                         empty : SUBSET purged]
        /\ catalog'.shown = shown /\ catalog'.empty = empty
    BY <2>1, <2>2
  <2>4. UNCHANGED <<recorded, written, expired, purge, purged, artifact, report, pin, run>>
    BY <1>10 DEF Kept!ShowReport
  <2>5. QED
    BY <2>1, <2>3, <2>4
<1>11. ASSUME NEW e \in Kept!Events, Kept!FindEvent(e) PROVE RetentionInv'
  BY <1>11 DEF Kept!FindEvent
<1>12. ASSUME NEW e \in Kept!Events, Kept!PurgeNext(e) PROVE RetentionInv'
  <2>1. e \in purge /\ UNCHANGED <<written, expired, artifact, report, pin, run, catalog>>
    BY <1>12 DEF Kept!PurgeNext, Kept!IsNext
  <2>2. CASE UNCHANGED <<recorded, purged>>
    BY <1>12, <2>1, <2>2 DEF Kept!PurgeNext
  <2>3. CASE /\ ~Kept!ShouldRetain(e) /\ ~Kept!Pinned(e) /\ purge' = purge \ {e}
             /\ recorded' = recorded \ {e} /\ purged' = purged \cup {e}
    <3>1. e \in written /\ e \in expired /\ e \notin Protected
      BY <2>1, <2>3 DEF Kept!ShouldRetain
    <3>2. Kept!TypeOK'
      BY <2>1, <2>3, <3>1
    <3>3. Kept!PurgedWasDue'
      BY <2>1, <2>3, <3>1
    <3>4. Kept!ReplayShowsAnchor'
      BY <2>1, <2>3 DEF Kept!Pinned
    <3>5. Kept!EmptyReportWasPurged'
      BY <2>1, <2>3
    <3>6. ReferencesAreWritten'
      BY <2>1, <2>3
    <3>7. RunsArePinned'
      BY <2>1
    <3>8. QED
      BY <3>2, <3>3, <3>4, <3>5, <3>6, <3>7
  <2>4. QED
    BY <1>12, <2>2, <2>3 DEF Kept!PurgeNext
<1>13. ASSUME NEW mode \in ReplayModes, Kept!InsertRun(mode) PROVE RetentionInv'
  BY <1>13 DEF Kept!InsertRun
<1>14. CASE UNCHANGED Kept!vars
  BY <1>14 DEF Kept!vars
<1>15. QED
  BY <1>1, <1>2, <1>3, <1>4, <1>5, <1>6, <1>7, <1>8, <1>9, <1>10, <1>11, <1>12, <1>13, <1>14
     DEF Kept!Next

(* Retention takes only what nobody may still ask for. A completed replay
   shows the event its checkpoint names, pinned from the checkpoint to the
   end of every run. A report that lists without content lost it to
   retention: an artifact row never names an event that was not written.
   Only what is past its days and below the level always kept is deleted,
   however old the list is that a pass works through. (Module Retention.)  *)
RetentionIsExact == Kept!RetentionIsExact

\* A completed replay shows the event its checkpoint names; a report without
\* content lost it to retention; and only what was due is deleted, however old
\* the list is that purge_by_policy works through.
THEOREM RetentionKeepsWhatIsNeeded ==
  ASSUME RetentionConstants
  PROVE  Kept!Spec => []RetentionIsExact
<1>1. Kept!Init => RetentionInv
  BY DEF Kept!Init, RetentionInv, Kept!RetentionIsExact, Kept!TypeOK, Kept!ReplayShowsAnchor,
     Kept!EmptyReportWasPurged, Kept!PurgedWasDue, ReferencesAreWritten, RunsArePinned,
     Kept!NoEvent
<1>2. RetentionInv /\ [Kept!Next]_Kept!vars => RetentionInv'
  BY RetentionStep
<1>3. RetentionInv => RetentionIsExact
  BY DEF RetentionInv, RetentionIsExact
<1>4. QED
  BY <1>1, <1>2, <1>3, PTL DEF Kept!Spec

-----------------------------------------------------------------------------
(* The broker.                                                             *)

CONSTANTS Publishers, Subscribers, Capacity, PageLimit, MaxId, MaxConnects

VARIABLES lastId, pubsubRow, fanned, publisher, client, overtaken

Pubsub == INSTANCE Broker

BrokerConstants ==
  Capacity \in Nat /\ PageLimit \in Nat /\ MaxId \in Nat /\ MaxConnects \in Nat

Elems(q) == Pubsub!Range(q)

\* Every element of q comes behind the smaller ones of owed that are not known.
Led(q, owed, known) ==
  \A b \in 1..Len(q) : \A i \in owed : i < q[b] => i \in known \/ \E a \in 1..b - 1 : q[a] = i

\* Only elements of twice are in q more than once.
Once(q, twice) == \A j, k \in 1..Len(q) : j # k /\ q[j] = q[k] => q[j] \in twice

LEMMA ElemsOf ==
  ASSUME NEW S, NEW q \in Seq(S)
  PROVE  Elems(q) = {q[k] : k \in 1..Len(q)} /\ Elems(q) \subseteq S
BY DEF Elems, Pubsub!Range

LEMMA AppendFacts ==
  ASSUME NEW S, NEW q \in Seq(S), NEW x \in S
  PROVE  /\ Append(q, x) \in Seq(S) /\ Elems(Append(q, x)) = Elems(q) \cup {x}
         /\ Len(Append(q, x)) = Len(q) + 1 /\ Len(q) \in Nat /\ Append(q, x)[Len(q) + 1] = x
         /\ \A k \in 1..Len(q) : Append(q, x)[k] = q[k]
<1>1. /\ Append(q, x) \in Seq(S)
      /\ Len(Append(q, x)) = Len(q) + 1 /\ Len(q) \in Nat /\ Append(q, x)[Len(q) + 1] = x
      /\ \A k \in 1..Len(q) : Append(q, x)[k] = q[k]
  OBVIOUS
<1>2. Elems(Append(q, x)) = {Append(q, x)[k] : k \in 1..Len(q) + 1} /\ Elems(q) = {q[k] : k \in 1..Len(q)}
  BY <1>1, ElemsOf
<1>3. QED
  BY <1>1, <1>2

LEMMA TailFacts ==
  ASSUME NEW S, NEW q \in Seq(S), q # <<>>
  PROVE  /\ Tail(q) \in Seq(S) /\ Head(q) = q[1] /\ Head(q) \in S
         /\ Len(Tail(q)) = Len(q) - 1 /\ Len(q) \in Nat \ {0}
         /\ \A k \in 1..Len(q) - 1 : Tail(q)[k] = q[k + 1]
         /\ Elems(q) = {Head(q)} \cup Elems(Tail(q))
<1>1. /\ Tail(q) \in Seq(S) /\ Head(q) = q[1] /\ Head(q) \in S
      /\ Len(Tail(q)) = Len(q) - 1 /\ Len(q) \in Nat \ {0}
      /\ \A k \in 1..Len(q) - 1 : Tail(q)[k] = q[k + 1]
  OBVIOUS
<1>2. Elems(Tail(q)) = {Tail(q)[k] : k \in 1..Len(q) - 1} /\ Elems(q) = {q[k] : k \in 1..Len(q)}
  BY <1>1, ElemsOf
<1>3. \A k \in 1..Len(q) : q[k] = q[1] \/ (k - 1 \in 1..Len(q) - 1 /\ Tail(q)[k - 1] = q[k])
  BY <1>1
<1>4. \A k \in 1..Len(q) - 1 : k + 1 \in 1..Len(q) /\ q[k + 1] = Tail(q)[k]
  BY <1>1
<1>5. 1 \in 1..Len(q)
  BY <1>1
<1>6. QED
  BY <1>1, <1>2, <1>3, <1>4, <1>5

\* A full channel drops its oldest messages.
LEMMA KeptFacts ==
  ASSUME Capacity \in Nat, NEW S, NEW q \in Seq(S)
  PROVE  /\ Pubsub!Kept(q) \in Seq(S) /\ Len(Pubsub!Kept(q)) <= Capacity
         /\ Elems(q) = Elems(Pubsub!Kept(q)) \cup Elems(Pubsub!Overflow(q))
         /\ \E d \in 0..Len(q) :
              /\ Len(Pubsub!Kept(q)) = Len(q) - d
              /\ \A k \in 1..Len(q) - d : Pubsub!Kept(q)[k] = q[k + d]
              /\ Elems(Pubsub!Overflow(q)) = {q[k] : k \in 1..d}
<1>1. Len(q) \in Nat
  OBVIOUS
<1>2. \E d \in 0..Len(q) :
        /\ Pubsub!Kept(q) \in Seq(S) /\ Len(Pubsub!Kept(q)) <= Capacity
        /\ Pubsub!Overflow(q) \in Seq(S) /\ Len(Pubsub!Overflow(q)) = d
        /\ \A k \in 1..d : Pubsub!Overflow(q)[k] = q[k]
        /\ Len(Pubsub!Kept(q)) = Len(q) - d
        /\ \A k \in 1..Len(q) - d : Pubsub!Kept(q)[k] = q[k + d]
  <2>1. CASE Len(q) > Capacity
    <3>1. PICK d \in 1..Len(q) : d = Len(q) - Capacity
      BY <1>1, <2>1
    <3>2. Pubsub!Kept(q) = SubSeq(q, d + 1, Len(q)) /\ Pubsub!Overflow(q) = SubSeq(q, 1, d)
      BY <2>1, <3>1 DEF Pubsub!Kept, Pubsub!Overflow
    <3>3. /\ Pubsub!Kept(q) \in Seq(S) /\ Len(Pubsub!Kept(q)) = Len(q) - d
          /\ \A k \in 1..Len(q) - d : Pubsub!Kept(q)[k] = q[k + d]
      BY <1>1, <3>1, <3>2
    <3>4. /\ Pubsub!Overflow(q) \in Seq(S) /\ Len(Pubsub!Overflow(q)) = d
          /\ \A k \in 1..d : Pubsub!Overflow(q)[k] = q[k]
      BY <1>1, <3>1, <3>2
    <3>5. d \in 0..Len(q) /\ Len(Pubsub!Kept(q)) <= Capacity
      BY <1>1, <3>1, <3>3
    <3>6. QED
      BY <3>3, <3>4, <3>5
  <2>2. CASE ~(Len(q) > Capacity)
    <3>1. Pubsub!Kept(q) = q /\ Pubsub!Overflow(q) = <<>> /\ Len(q) <= Capacity
      BY <1>1, <2>2 DEF Pubsub!Kept, Pubsub!Overflow
    <3>2. /\ 0 \in 0..Len(q) /\ Len(q) = Len(q) - 0 /\ \A k \in 1..Len(q) - 0 : q[k] = q[k + 0]
          /\ <<>> \in Seq(S) /\ Len(<<>>) = 0
      BY <1>1
    <3>3. \A k \in 1..0 : <<>>[k] = q[k]
      OBVIOUS
    <3>4. WITNESS 0 \in 0..Len(q)
    <3>5. QED
      BY <3>1, <3>2, <3>3
  <2>3. QED
    BY <2>1, <2>2
<1>3. PICK d \in 0..Len(q) :
        /\ Pubsub!Kept(q) \in Seq(S) /\ Len(Pubsub!Kept(q)) <= Capacity
        /\ Pubsub!Overflow(q) \in Seq(S) /\ Len(Pubsub!Overflow(q)) = d
        /\ \A k \in 1..d : Pubsub!Overflow(q)[k] = q[k]
        /\ Len(Pubsub!Kept(q)) = Len(q) - d
        /\ \A k \in 1..Len(q) - d : Pubsub!Kept(q)[k] = q[k + d]
  BY <1>2
<1>4. /\ Elems(q) = Elems(Pubsub!Kept(q)) \cup Elems(Pubsub!Overflow(q))
      /\ Elems(Pubsub!Overflow(q)) = {q[k] : k \in 1..d}
  <2> DEFINE old == Pubsub!Overflow(q)
             young == Pubsub!Kept(q)
  <2>1. /\ old \in Seq(S) /\ young \in Seq(S) /\ Len(old) = d /\ Len(young) = Len(q) - d
        /\ \A k \in 1..d : old[k] = q[k]
        /\ \A k \in 1..Len(q) - d : young[k] = q[k + d]
    BY <1>3
  <2> HIDE DEF old, young
  <2>2. Elems(q) = Elems(young) \cup Elems(old) /\ Elems(old) = {q[k] : k \in 1..d}
    <3>1. /\ Elems(young) = {young[k] : k \in 1..Len(young)} /\ Elems(old) = {old[k] : k \in 1..Len(old)}
          /\ Elems(q) = {q[k] : k \in 1..Len(q)} /\ Len(q) \in Nat /\ d \in Nat
      <4>1. Elems(young) = {young[k] : k \in 1..Len(young)}
        BY <2>1, ElemsOf
      <4>2. Elems(old) = {old[k] : k \in 1..Len(old)}
        BY <2>1, ElemsOf
      <4>3. Elems(q) = {q[k] : k \in 1..Len(q)} /\ Len(q) \in Nat /\ d \in Nat
        BY <2>1, ElemsOf
      <4>4. QED
        BY <2>1, <4>1, <4>2, <4>3
    <3>2. ASSUME NEW k \in 1..Len(q) PROVE q[k] \in Elems(young) \cup Elems(old)
      <4>1. CASE k <= d
        BY <2>1, <3>1, <4>1
      <4>2. CASE k > d
        <5>1. k - d \in 1..Len(q) - d /\ (k - d) + d = k
          BY <2>1, <3>1, <4>2
        <5>2. young[k - d] = q[k]
          BY <2>1, <5>1
        <5>3. QED
          BY <2>1, <3>1, <5>1, <5>2
      <4>3. QED
        BY <2>1, <3>1, <4>1, <4>2
    <3>3. \A k \in 1..Len(young) : k + d \in 1..Len(q) /\ young[k] = q[k + d]
      BY <2>1, <3>1
    <3>4. \A k \in 1..Len(old) : k \in 1..Len(q) /\ old[k] = q[k]
      BY <2>1, <3>1
    <3>5. Elems(old) = {q[k] : k \in 1..d}
      BY <2>1, <3>1
    <3>6. \A x \in Elems(q) : x \in Elems(young) \cup Elems(old)
      BY <2>1, <3>1, <3>2
    <3>7. \A x \in Elems(young) \cup Elems(old) : x \in Elems(q)
      BY <2>1, <3>1, <3>3, <3>4
    <3>8. QED
      BY <2>1, <3>5, <3>6, <3>7
  <2>3. QED
    BY <2>2 DEF old, young
<1>5. QED
  BY <1>3, <1>4

LEMMA LedAppend ==
  ASSUME NEW q \in Seq(Nat), NEW x \in Nat, NEW owed, NEW known, Led(q, owed, known),
         \A i \in owed : i < x => i \in known \cup Elems(q)
  PROVE  Led(Append(q, x), owed, known)
<1>1. SUFFICES ASSUME NEW b \in 1..Len(q) + 1, NEW i \in owed, i < Append(q, x)[b], i \notin known
               PROVE  \E a \in 1..b - 1 : Append(q, x)[a] = i
  BY AppendFacts DEF Led
<1>2. CASE b \in 1..Len(q)
  <2>1. PICK a \in 1..b - 1 : q[a] = i
    BY <1>1, <1>2, AppendFacts DEF Led
  <2>2. a \in 1..Len(q)
    BY <1>2, AppendFacts
  <2>3. QED
    BY <2>1, <2>2, AppendFacts
<1>3. CASE b = Len(q) + 1
  <2>1. i \in Elems(q)
    BY <1>1, <1>3, AppendFacts
  <2>2. PICK a \in 1..Len(q) : q[a] = i
    BY <2>1, ElemsOf
  <2>3. QED
    BY <1>3, <2>2, AppendFacts
<1>4. QED
  BY <1>2, <1>3, AppendFacts

LEMMA LedTail ==
  ASSUME NEW q \in Seq(Nat), q # <<>>, NEW owed, NEW known, Led(q, owed, known)
  PROVE  /\ Led(Tail(q), owed, known \cup {Head(q)})
         /\ \A i \in owed : i < Head(q) => i \in known
<1>1. \A i \in owed : i < Head(q) => i \in known
  BY TailFacts DEF Led
<1>2. ASSUME NEW b \in 1..Len(q) - 1, NEW i \in owed, i < Tail(q)[b], i \notin known, i # Head(q)
      PROVE  \E a \in 1..b - 1 : Tail(q)[a] = i
  <2>1. b + 1 \in 1..Len(q) /\ Tail(q)[b] = q[b + 1]
    BY TailFacts
  <2>2. PICK a \in 1..b : q[a] = i
    BY <1>2, <2>1 DEF Led
  <2>3. a # 1
    BY <1>2, <2>2, TailFacts
  <2>4. a - 1 \in 1..b - 1 /\ a - 1 \in 1..Len(q) - 1 /\ (a - 1) + 1 = a
    BY <2>2, <2>3, TailFacts
  <2>5. Tail(q)[a - 1] = i
    BY <2>2, <2>4, TailFacts
  <2>6. QED
    BY <2>4, <2>5
<1>3. Len(Tail(q)) = Len(q) - 1
  BY TailFacts
<1>4. QED
  BY <1>1, <1>2, <1>3 DEF Led

LEMMA LedKept ==
  ASSUME Capacity \in Nat, NEW q \in Seq(Nat), NEW owed, NEW known, Led(q, owed, known)
  PROVE  Led(Pubsub!Kept(q), owed, known \cup Elems(Pubsub!Overflow(q)))
<1>1. PICK d \in 0..Len(q) :
              /\ Len(Pubsub!Kept(q)) = Len(q) - d
              /\ \A k \in 1..Len(q) - d : Pubsub!Kept(q)[k] = q[k + d]
              /\ Elems(Pubsub!Overflow(q)) = {q[k] : k \in 1..d}
  BY KeptFacts
<1>2. SUFFICES ASSUME NEW b \in 1..Len(q) - d, NEW i \in owed, i < Pubsub!Kept(q)[b],
                      i \notin known, i \notin Elems(Pubsub!Overflow(q))
               PROVE  \E a \in 1..b - 1 : Pubsub!Kept(q)[a] = i
  BY <1>1 DEF Led
<1>3. Len(q) \in Nat /\ b + d \in 1..Len(q) /\ Pubsub!Kept(q)[b] = q[b + d]
  BY <1>1
<1>4. PICK a \in 1..(b + d) - 1 : q[a] = i
  BY <1>2, <1>3 DEF Led
<1>5. a \notin 1..d
  BY <1>1, <1>2, <1>4
<1>6. a - d \in 1..b - 1 /\ a - d \in 1..Len(q) - d /\ (a - d) + d = a
  <2>1. a \in Nat /\ d \in Nat /\ b \in Nat /\ d < a /\ a < b + d /\ b + d <= Len(q)
    BY <1>3, <1>4, <1>5
  <2>2. QED
    BY <1>3, <2>1
<1>7. Pubsub!Kept(q)[a - d] = i
  BY <1>1, <1>4, <1>6
<1>8. QED
  BY <1>6, <1>7

LEMMA LedWeaken ==
  ASSUME NEW q \in Seq(Nat), NEW owed, NEW known, NEW more, NEW added, Led(q, owed, known),
         known \cap added \subseteq more,
         \A i \in added \ owed : i \in more \/ \A x \in Elems(q) : ~(i < x)
  PROVE  Led(q, added, more)
BY ElemsOf DEF Led

LEMMA OnceAppend ==
  ASSUME NEW q \in Seq(Nat), NEW x \in Nat, NEW twice, Once(q, twice), x \in Elems(q) => x \in twice
  PROVE  Once(Append(q, x), twice)
<1>1. SUFFICES ASSUME NEW j \in 1..Len(q) + 1, NEW k \in 1..Len(q) + 1, j # k,
                      Append(q, x)[j] = Append(q, x)[k]
               PROVE  Append(q, x)[j] \in twice
  BY AppendFacts DEF Once
<1>2. CASE j \in 1..Len(q) /\ k \in 1..Len(q)
  BY <1>1, <1>2, AppendFacts DEF Once
<1>3. CASE j = Len(q) + 1 /\ k \in 1..Len(q)
  BY <1>1, <1>3, AppendFacts, ElemsOf
<1>4. CASE k = Len(q) + 1 /\ j \in 1..Len(q)
  BY <1>1, <1>4, AppendFacts, ElemsOf
<1>5. QED
  BY <1>1, <1>2, <1>3, <1>4, AppendFacts

LEMMA OnceTail ==
  ASSUME NEW q \in Seq(Nat), q # <<>>, NEW twice, Once(q, twice)
  PROVE  Once(Tail(q), twice) /\ (Head(q) \in Elems(Tail(q)) => Head(q) \in twice)
<1>1. \A k \in 1..Len(q) - 1 : k + 1 \in 1..Len(q) /\ k + 1 # 1 /\ Tail(q)[k] = q[k + 1]
  BY TailFacts
<1>2. Once(Tail(q), twice)
  <2>1. SUFFICES ASSUME NEW j \in 1..Len(q) - 1, NEW k \in 1..Len(q) - 1, j # k, Tail(q)[j] = Tail(q)[k]
                 PROVE  Tail(q)[j] \in twice
    BY TailFacts DEF Once
  <2>2. j + 1 # k + 1
    BY <2>1
  <2>3. QED
    BY <1>1, <2>1, <2>2 DEF Once
<1>3. ASSUME Head(q) \in Elems(Tail(q)) PROVE Head(q) \in twice
  <2>1. PICK k \in 1..Len(q) - 1 : Tail(q)[k] = Head(q)
    <3>1. Tail(q) \in Seq(Nat) /\ Len(Tail(q)) = Len(q) - 1
      BY TailFacts
    <3>2. Elems(Tail(q)) = {Tail(q)[k] : k \in 1..Len(Tail(q))}
      BY <3>1, ElemsOf
    <3>3. QED
      BY <1>3, <3>1, <3>2
  <2>2. 1 \in 1..Len(q) /\ q[1] = Head(q)
    BY TailFacts
  <2>3. QED
    BY <1>1, <2>1, <2>2 DEF Once
<1>4. QED
  BY <1>2, <1>3

LEMMA OnceKept ==
  ASSUME Capacity \in Nat, NEW q \in Seq(Nat), NEW twice, Once(q, twice)
  PROVE  Once(Pubsub!Kept(q), twice)
<1>1. PICK d \in 0..Len(q) :
              /\ Len(Pubsub!Kept(q)) = Len(q) - d
              /\ \A k \in 1..Len(q) - d : Pubsub!Kept(q)[k] = q[k + d]
  BY KeptFacts
<1>2. SUFFICES ASSUME NEW j \in 1..Len(q) - d, NEW k \in 1..Len(q) - d, j # k,
                      Pubsub!Kept(q)[j] = Pubsub!Kept(q)[k]
               PROVE  Pubsub!Kept(q)[j] \in twice
  BY <1>1 DEF Once
<1>3. Len(q) \in Nat /\ j + d \in 1..Len(q) /\ k + d \in 1..Len(q) /\ j + d # k + d
  BY <1>1, <1>2
<1>4. QED
  BY <1>1, <1>2, <1>3 DEF Once
\* One client, against the rows, the messages sent, the overtaken ones and
\* the last id.
Client ==
  [pc : {"off", "attached", "live", "bridged"}, since : 0..MaxId, live : Seq(1..MaxId),
   bridge : Seq(1..MaxId), before : SUBSET (1..MaxId), connects : Nat, got : Seq(1..MaxId),
   base : 0..MaxId, lagged : SUBSET (1..MaxId), cut : SUBSET (1..MaxId), window : SUBSET (1..MaxId)]

\* What may be missing from what it received.
Known(c) == Elems(c.got) \cup c.lagged \cup c.cut

\* What it is to have, once it has something greater.
Owed(c, sent, late) == {i \in sent \ late : c.base < i}

\* What comes to it besides the live channel.
Aside(c) == Elems(c.bridge) \cup (IF c.pc = "attached" THEN c.before ELSE {})

ClientShape(c, rows, sent, last) ==
  /\ Len(c.live) <= Capacity /\ Len(c.bridge) <= Capacity
  /\ c.pc = "off" => c.live = <<>>
  /\ c.pc # "bridged" => c.bridge = <<>>
  /\ Elems(c.got) \cup Elems(c.bridge) \subseteq rows
  /\ Elems(c.live) \cup c.before \subseteq sent
  /\ c.base <= last
  /\ c.pc \in {"attached", "bridged"} => c.since \in Elems(c.got) \cup {c.base}
  /\ c.pc = "attached" => \A i \in Elems(c.got) : i <= c.since

ClientCovered(c, sent) ==
  /\ c.pc = "attached" => sent \subseteq c.before \cup Elems(c.live) \cup c.lagged
  /\ c.pc = "live" => \A i \in sent : c.base < i => i \in Elems(c.got) \cup Elems(c.live) \cup c.lagged
  /\ c.pc = "bridged" =>
       \A i \in sent : c.since < i => i \in Known(c) \cup Elems(c.live) \cup Elems(c.bridge)

ClientOrdered(c, sent, late) ==
  /\ \A i \in Owed(c, sent, late) : (\E j \in Elems(c.got) : i < j) => i \in Known(c)
  /\ Led(c.bridge, Owed(c, sent, late), Known(c))
  /\ Led(c.live, Owed(c, sent, late), Known(c) \cup Aside(c))

ClientSingle(c, sent) ==
  /\ Once(c.got, c.window) /\ Once(c.bridge, c.window) /\ Once(c.live, c.window)
  /\ Elems(c.got) \cap (Elems(c.bridge) \cup Elems(c.live)) \subseteq c.window
  /\ Elems(c.bridge) \cap Elems(c.live) \subseteq c.window
  /\ c.pc = "attached" => Elems(c.live) \cap c.before = {}
  /\ (Elems(c.got) \cup Elems(c.bridge)) \ sent \subseteq c.window

ClientOk(c, rows, sent, late, last) ==
  /\ c \in Client
  /\ ClientShape(c, rows, sent, last) /\ ClientCovered(c, sent)
  /\ ClientOrdered(c, sent, late) /\ ClientSingle(c, sent)

PublisherOk(p) ==
  /\ publisher[p].pc # "idle" => publisher[p].id \in 1..lastId /\ publisher[p].id \notin fanned
  /\ publisher[p].pc = "insert" => publisher[p].id \notin pubsubRow
  /\ publisher[p].pc = "send" => publisher[p].id \in pubsubRow

PublishInv ==
  /\ lastId \in 0..MaxId
  /\ pubsubRow \in SUBSET (1..lastId) /\ fanned \in SUBSET pubsubRow /\ overtaken \in SUBSET (1..MaxId)
  /\ publisher \in [Publishers -> [pc : {"idle", "insert", "send"}, id : 0..MaxId]]
  /\ \A p \in Publishers : PublisherOk(p)
  /\ \A p, q \in Publishers :
       (p # q /\ publisher[p].pc # "idle" /\ publisher[q].pc # "idle") => publisher[p].id # publisher[q].id
  /\ \A g \in pubsubRow : \A i \in 1..g - 1 : i \in fanned \cup overtaken

BrokerInv ==
  /\ PublishInv
  /\ client \in [Subscribers -> Client]
  /\ \A s \in Subscribers : ClientOk(client[s], pubsubRow, fanned, overtaken, lastId)

LEMMA ClientTypes ==
  ASSUME MaxId \in Nat, NEW c \in Client
  PROVE  /\ c.pc \in {"off", "attached", "live", "bridged"} /\ c.since \in Nat /\ c.base \in Nat
         /\ c.live \in Seq(1..MaxId) /\ c.bridge \in Seq(1..MaxId) /\ c.got \in Seq(1..MaxId)
         /\ c.live \in Seq(Nat) /\ c.bridge \in Seq(Nat) /\ c.got \in Seq(Nat)
         /\ Elems(c.live) \in SUBSET (1..MaxId) /\ Elems(c.bridge) \in SUBSET (1..MaxId)
         /\ Elems(c.got) \in SUBSET (1..MaxId)
<1>1. /\ c.pc \in {"off", "attached", "live", "bridged"} /\ c.since \in 0..MaxId /\ c.base \in 0..MaxId
      /\ c.live \in Seq(1..MaxId) /\ c.bridge \in Seq(1..MaxId) /\ c.got \in Seq(1..MaxId)
  BY DEF Client
<1>2. c.live \in Seq(Nat) /\ c.bridge \in Seq(Nat) /\ c.got \in Seq(Nat)
  BY <1>1
<1>3. /\ Elems(c.live) \in SUBSET (1..MaxId) /\ Elems(c.bridge) \in SUBSET (1..MaxId)
      /\ Elems(c.got) \in SUBSET (1..MaxId)
  BY <1>1, ElemsOf
<1>4. QED
  BY <1>1, <1>2, <1>3

LEMMA ElemsOfNone == Elems(<<>>) = {} /\ (\A owed, known : Led(<<>>, owed, known)) /\ (\A twice : Once(<<>>, twice))
<1>1. <<>> \in Seq({}) /\ Len(<<>>) = 0
  OBVIOUS
<1>2. Elems(<<>>) = {}
  BY DEF Elems, Pubsub!Range
<1>3. QED
  BY <1>1, <1>2 DEF Led, Once

\* The others' steps: rows appear, messages are sent to nobody here.
LEMMA ClientRests ==
  ASSUME MaxId \in Nat, NEW c, NEW rows, NEW sent, NEW late, NEW last \in Nat,
         NEW rows2, NEW sent2, NEW late2, NEW last2 \in Nat,
         ClientOk(c, rows, sent, late, last),
         rows \subseteq rows2, sent \subseteq sent2, late \subseteq late2, last <= last2,
         sent2 = sent \/ c.pc = "off", sent2 \subseteq 1..MaxId,
         \A i \in sent2 \ sent : i \in late2 \/ \A j \in rows : j <= i
  PROVE  ClientOk(c, rows2, sent2, late2, last2)
<1>1. c \in Client
  BY DEF ClientOk
<1>0. c.base \in Nat /\ Elems(c.got) \in SUBSET (1..MaxId)
  BY <1>1, ClientTypes
<1>2. ClientShape(c, rows2, sent2, last2)
  <2>1. ClientShape(c, rows, sent, last)
    BY DEF ClientOk
  <2>2. c.base <= last2
    BY <1>0, <2>1 DEF ClientShape
  <2>3. QED
    BY <2>1, <2>2, Zenon DEF ClientShape
<1>3. ClientCovered(c, sent2)
  BY <1>1 DEF ClientOk, ClientCovered
<1>4. ClientOrdered(c, sent2, late2)
  <2>1. Owed(c, sent2, late2) \subseteq Owed(c, sent, late) \/ c.pc = "off"
    BY DEF Owed
  <2>2. ASSUME NEW i \in Owed(c, sent2, late2), NEW j \in Elems(c.got), i < j PROVE i \in Known(c)
    <3>0. i \in sent2 /\ j \in 1..MaxId
      BY <1>0 DEF Owed
    <3>1. i \in Nat /\ j \in Nat /\ j \in rows
      BY <3>0 DEF ClientOk, ClientShape
    <3>2. i \in Owed(c, sent, late)
      BY <2>2, <3>1 DEF Owed
    <3>3. QED
      BY <2>2, <3>2 DEF ClientOk, ClientOrdered
  <2>3. CASE c.pc = "off"
    <3>1. c.live = <<>> /\ c.bridge = <<>>
      BY <2>3 DEF ClientOk, ClientShape
    <3>2. QED
      BY <2>2, <3>1, ElemsOfNone DEF ClientOrdered
  <2>4. CASE Owed(c, sent2, late2) \subseteq Owed(c, sent, late)
    BY <2>2, <2>4 DEF ClientOk, ClientOrdered, Led
  <2>5. QED
    BY <2>1, <2>3, <2>4
<1>5. ClientSingle(c, sent2)
  BY DEF ClientOk, ClientSingle
<1>6. QED
  BY <1>1, <1>2, <1>3, <1>4, <1>5 DEF ClientOk

\* A message is sent while it is away.
LEMMA ClientIsAway ==
  ASSUME MaxId \in Nat, NEW c, NEW rows, NEW sent \in SUBSET (1..MaxId), NEW late, NEW last \in Nat,
         ClientOk(c, rows, sent, late, last), c.pc = "off",
         NEW id \in 1..MaxId, id \in late \/ \A j \in rows : j <= id
  PROVE  ClientOk(c, rows, sent \cup {id}, late, last)
<1> DEFINE more == sent \cup {id}
<1>1. /\ sent \subseteq more /\ more \subseteq 1..MaxId /\ last <= last
      /\ \A i \in more \ sent : i \in late \/ \A j \in rows : j <= i
  OBVIOUS
<1> HIDE DEF more
<1>2. ClientOk(c, rows, more, late, last)
  BY <1>1, ClientRests
<1>3. QED
  BY <1>2 DEF more

\* What lies at or below the cursor is known.
LEMMA BelowCursor ==
  ASSUME MaxId \in Nat, NEW c, NEW rows, NEW sent \in SUBSET (1..MaxId), NEW late, NEW last,
         ClientOk(c, rows, sent, late, last), c.pc \in {"attached", "bridged"}
  PROVE  \A i \in Owed(c, sent, late) : i <= c.since => i \in Known(c)
<1> SUFFICES ASSUME NEW i \in Owed(c, sent, late), i <= c.since PROVE i \in Known(c)
  OBVIOUS
<1>0. c \in Client
  BY DEF ClientOk
<1>1. c.since \in Nat /\ c.base \in Nat /\ i \in Nat /\ c.base < i
  <2>1. i \in sent /\ c.base < i
    BY DEF Owed
  <2>2. i \in Nat
    BY <2>1
  <2>3. QED
    BY <1>0, <2>1, <2>2, ClientTypes
<1>2. c.since \in Elems(c.got)
  BY <1>1 DEF ClientOk, ClientShape
<1>3. CASE i = c.since
  BY <1>2, <1>3 DEF Known
<1>4. CASE i < c.since
  BY <1>2, <1>4 DEF ClientOk, ClientOrdered
<1>5. QED
  BY <1>1, <1>3, <1>4

\* A message arrives on the live channel.
LEMMA ClientIsSent ==
  ASSUME Capacity \in Nat, MaxId \in Nat, NEW c, NEW rows, NEW sent \in SUBSET (1..MaxId), NEW late, NEW last,
         ClientOk(c, rows, sent, late, last), c.pc # "off",
         NEW id \in 1..MaxId, id \notin sent, id \in rows,
         id \in late \/ \A j \in rows : j <= id, sent \subseteq rows
  PROVE  ClientOk(Pubsub!Send(c, id), rows, sent \cup {id}, late, last)
<1> DEFINE q == Append(c.live, id)
           d == Pubsub!Send(c, id)
<1>1. c \in Client
  BY DEF ClientOk
<1>2. /\ c.pc \in {"off", "attached", "live", "bridged"} /\ c.since \in Nat /\ c.base \in Nat
      /\ c.live \in Seq(1..MaxId) /\ c.bridge \in Seq(1..MaxId) /\ c.got \in Seq(1..MaxId)
      /\ c.live \in Seq(Nat) /\ c.bridge \in Seq(Nat) /\ c.got \in Seq(Nat)
      /\ Elems(c.live) \in SUBSET (1..MaxId) /\ Elems(c.bridge) \in SUBSET (1..MaxId)
      /\ Elems(c.got) \in SUBSET (1..MaxId)
  BY <1>1, ClientTypes
<1>3. q \in Seq(1..MaxId) /\ q \in Seq(Nat) /\ Elems(q) = Elems(c.live) \cup {id}
  <2>0. c.live \in Seq(1..MaxId)
    BY <1>2
  <2>1. q \in Seq(1..MaxId) /\ Elems(q) = Elems(c.live) \cup {id}
    BY <2>0, AppendFacts
  <2> HIDE DEF q
  <2>2. QED
    BY <2>1
<1> HIDE DEF q
<1>4. /\ Pubsub!Kept(q) \in Seq(1..MaxId) /\ Len(Pubsub!Kept(q)) <= Capacity
      /\ Elems(q) = Elems(Pubsub!Kept(q)) \cup Elems(Pubsub!Overflow(q))
  BY <1>3, KeptFacts
<1>5. /\ d.pc = c.pc /\ d.since = c.since /\ d.bridge = c.bridge /\ d.before = c.before
      /\ d.got = c.got /\ d.base = c.base /\ d.cut = c.cut /\ d.window = c.window
      /\ d.live = Pubsub!Kept(q) /\ d.lagged = c.lagged \cup Elems(Pubsub!Overflow(q))
      /\ d \in Client
  <2>1. Elems(Pubsub!Overflow(q)) \in SUBSET (1..MaxId)
    BY <1>2, <1>3, <1>4
  <2>2. d = [c EXCEPT !.live = Pubsub!Kept(q), !.lagged = c.lagged \cup Elems(Pubsub!Overflow(q))]
    BY DEF Pubsub!Send, q, Elems
  <2>3. QED
    BY <1>1, <1>4, <2>1, <2>2 DEF Client
<1> HIDE DEF d
<1>6. ClientShape(d, rows, sent \cup {id}, last)
  BY <1>3, <1>4, <1>5 DEF ClientOk, ClientShape
<1>7. ClientCovered(d, sent \cup {id})
  <2>1. Known(d) = Known(c) \cup Elems(Pubsub!Overflow(q))
    BY <1>5 DEF Known
  <2>2. c.pc = "attached" => ClientCovered(d, sent \cup {id})
    BY <1>3, <1>4, <1>5 DEF ClientOk, ClientCovered
  <2>3. c.pc = "live" => ClientCovered(d, sent \cup {id})
    BY <1>3, <1>4, <1>5 DEF ClientOk, ClientCovered
  <2>4. c.pc = "bridged" => ClientCovered(d, sent \cup {id})
    BY <1>3, <1>4, <1>5, <2>1 DEF ClientOk, ClientCovered
  <2>5. QED
    BY <1>2, <2>2, <2>3, <2>4
<1>8. ClientOrdered(d, sent \cup {id}, late)
  <2> DEFINE owed == Owed(c, sent, late)
             more == Owed(d, sent \cup {id}, late)
  <2>1. /\ \A i \in more \ owed : i = id /\ id \notin late
        /\ more \subseteq 1..MaxId /\ owed \subseteq more /\ owed \subseteq sent /\ \A i \in owed : c.base < i
    BY <1>5 DEF Owed
  <2>2. Known(d) = Known(c) \cup Elems(Pubsub!Overflow(q)) /\ Aside(d) = Aside(c)
    BY <1>5 DEF Known, Aside
  <2>3. \A i \in more \ owed : \A j \in rows : ~(i < j)
    <3>1. rows \cap (Elems(c.got) \cup Elems(c.bridge) \cup Elems(c.live)) \in SUBSET (1..MaxId)
      BY <1>2
    <3>2. \A j \in rows : id \notin late => j <= id
      OBVIOUS
    <3>3. QED
      BY <2>1
  <2>4. \A x \in Elems(c.got) \cup Elems(c.bridge) \cup Elems(q) : x \in rows
    BY <1>3 DEF ClientOk, ClientShape
  <2> HIDE DEF owed, more
  <2>5. \A i \in more : (\E j \in Elems(d.got) : i < j) => i \in Known(d)
    <3>1. \A i \in owed : (\E j \in Elems(c.got) : i < j) => i \in Known(c)
      BY DEF ClientOk, ClientOrdered, owed
    <3>2. QED
      BY <1>5, <2>2, <2>3, <2>4, <3>1
  <2>6. Led(d.bridge, more, Known(d))
    <3>1. Led(c.bridge, owed, Known(c))
      BY DEF ClientOk, ClientOrdered, owed
    <3>2. QED
      BY <1>2, <1>5, <2>2, <2>3, <2>4, <3>1, LedWeaken
  <2>7. Led(d.live, more, Known(d) \cup Aside(d))
    <3>1. Led(c.live, owed, Known(c) \cup Aside(c))
      BY DEF ClientOk, ClientOrdered, owed
    <3>2. \A i \in owed : i \in (Known(c) \cup Aside(c)) \cup Elems(c.live)
      <4> SUFFICES ASSUME NEW i \in owed PROVE i \in (Known(c) \cup Aside(c)) \cup Elems(c.live)
        OBVIOUS
      <4>1. i \in sent /\ i \in Nat /\ c.base < i
        BY <2>1
      <4>2. CASE c.pc = "attached"
        BY <4>1, <4>2 DEF ClientOk, ClientCovered, Aside, Known
      <4>3. CASE c.pc = "live"
        BY <4>1, <4>3 DEF ClientOk, ClientCovered, Known
      <4>4. CASE c.pc = "bridged"
        <5>1. c.since < i \/ i <= c.since
          BY <1>2, <4>1
        <5>2. i <= c.since => i \in Known(c)
          BY <4>4, BelowCursor DEF owed
        <5>3. c.since < i => i \in Known(c) \cup Elems(c.live) \cup Elems(c.bridge)
          BY <4>1, <4>4 DEF ClientOk, ClientCovered
        <5>4. QED
          BY <5>1, <5>2, <5>3 DEF Aside
      <4>5. QED
        BY <1>2, <4>2, <4>3, <4>4
    <3>3. Led(q, owed, Known(c) \cup Aside(c))
      BY <1>2, <3>1, <3>2, LedAppend DEF q
    <3>4. Led(q, more, Known(c) \cup Aside(c))
      <4> DEFINE known == Known(c) \cup Aside(c)
      <4>1. Led(q, owed, known) /\ known \cap more \subseteq known
        BY <3>3
      <4>2. \A i \in more \ owed : \A x \in Elems(q) : ~(i < x)
        BY <2>3, <2>4
      <4> HIDE DEF known
      <4>3. Led(q, more, known)
        BY <1>3, <4>1, <4>2, LedWeaken
      <4>4. QED
        BY <4>3 DEF known
    <3>5. Led(Pubsub!Kept(q), more, (Known(c) \cup Aside(c)) \cup Elems(Pubsub!Overflow(q)))
      BY <1>3, <3>4, LedKept
    <3>6. (Known(c) \cup Aside(c)) \cup Elems(Pubsub!Overflow(q)) = Known(d) \cup Aside(d)
      BY <2>2
    <3>7. QED
      BY <1>5, <3>5, <3>6
  <2>8. QED
    BY <2>5, <2>6, <2>7 DEF ClientOrdered, more
<1>9. ClientSingle(d, sent \cup {id})
  <2>1. Once(c.live, c.window) /\ id \notin Elems(c.live)
    BY DEF ClientOk, ClientSingle, ClientShape
  <2>2. Once(q, c.window)
    BY <1>2, <2>1, OnceAppend DEF q
  <2>3. Once(d.live, d.window)
    BY <1>3, <1>5, <2>2, OnceKept
  <2>4. id \in Elems(c.got) \cup Elems(c.bridge) => id \in c.window
    BY DEF ClientOk, ClientSingle
  <2>5. id \notin c.before
    BY DEF ClientOk, ClientShape
  <2>6. QED
    BY <1>3, <1>4, <1>5, <2>3, <2>4, <2>5 DEF ClientOk, ClientSingle
<1>10. QED
  BY <1>5, <1>6, <1>7, <1>8, <1>9 DEF ClientOk, d

\* The socket closes.
LEMMA ClientLeaves ==
  ASSUME Capacity \in Nat, MaxId \in Nat, NEW c, NEW rows, NEW sent, NEW late, NEW last, NEW d,
         ClientOk(c, rows, sent, late, last),
         /\ d.pc = "off" /\ d.since = 0 /\ d.live = <<>> /\ d.bridge = <<>> /\ d.before = {}
         /\ d.got = c.got /\ d.base = c.base /\ d.lagged = c.lagged /\ d.cut = c.cut
         /\ d.window = c.window /\ d \in Client
  PROVE  ClientOk(d, rows, sent, late, last)
<1>1. c \in Client
  BY DEF ClientOk
<1>2. /\ d.pc = "off" /\ d.since = 0 /\ d.live = <<>> /\ d.bridge = <<>> /\ d.before = {}
      /\ d.got = c.got /\ d.base = c.base /\ d.lagged = c.lagged /\ d.cut = c.cut
      /\ d.window = c.window /\ d \in Client
  OBVIOUS
<1>3. Elems(<<>>) = {} /\ Len(<<>>) = 0
  BY ElemsOfNone
<1>4. ClientShape(d, rows, sent, last)
  <2>1. ClientShape(c, rows, sent, last) /\ 0 <= Capacity
    BY DEF ClientOk
  <2>2. QED
    BY <1>2, <1>3, <2>1 DEF ClientShape
<1>5. ClientCovered(d, sent)
  BY <1>2 DEF ClientCovered
<1>6. ClientOrdered(d, sent, late)
  <2>1. Owed(d, sent, late) = Owed(c, sent, late) /\ Known(d) = Known(c)
    BY <1>2 DEF Owed, Known
  <2>2. QED
    BY <1>2, <2>1, ElemsOfNone DEF ClientOk, ClientOrdered
<1>7. ClientSingle(d, sent)
  BY <1>2, <1>3, ElemsOfNone DEF ClientOk, ClientSingle
<1>8. QED
  BY <1>2, <1>4, <1>5, <1>6, <1>7 DEF ClientOk

\* It subscribes from its greatest id.
LEMMA ClientResumes ==
  ASSUME Capacity \in Nat, MaxId \in Nat, NEW c, NEW rows, NEW sent \in SUBSET (1..MaxId), NEW late, NEW last, NEW d,
         ClientOk(c, rows, sent, late, last), c.pc = "off", NEW n \in 0..MaxId,
         n \in Elems(c.got) \cup {c.base}, \A i \in Elems(c.got) : i <= n,
         d = [c EXCEPT !.pc = "attached", !.since = n, !.connects = c.connects + 1, !.before = sent,
                       !.base = c.base]
  PROVE  ClientOk(d, rows, sent, late, last)
<1>1. c \in Client
  BY DEF ClientOk
<1>2. /\ d.pc = "attached" /\ d.since = n /\ d.live = c.live /\ d.bridge = c.bridge /\ d.before = sent
      /\ d.got = c.got /\ d.base = c.base /\ d.lagged = c.lagged /\ d.cut = c.cut /\ d.window = c.window
      /\ d \in Client
  <2>1. c.connects + 1 \in Nat
    BY <1>1 DEF Client
  <2>2. QED
    BY <1>1, <2>1 DEF Client
<1>3. Elems(<<>>) = {} /\ c.live = <<>> /\ c.bridge = <<>>
  BY ElemsOfNone DEF ClientOk, ClientShape
<1>4. ClientShape(d, rows, sent, last)
  <2>1. ClientShape(c, rows, sent, last)
    BY DEF ClientOk
  <2>2. QED
    BY <1>2, <1>3, <2>1 DEF ClientShape
<1>5. ClientCovered(d, sent)
  BY <1>2 DEF ClientCovered
<1>6. ClientOrdered(d, sent, late)
  <2>1. Owed(d, sent, late) = Owed(c, sent, late) /\ Known(d) = Known(c)
    BY <1>2 DEF Owed, Known
  <2>2. QED
    BY <1>2, <1>3, <2>1, ElemsOfNone DEF ClientOk, ClientOrdered
<1>7. ClientSingle(d, sent)
  BY <1>2, <1>3, ElemsOfNone DEF ClientOk, ClientSingle
<1>8. QED
  BY <1>2, <1>4, <1>5, <1>6, <1>7 DEF ClientOk

\* It subscribes without a cursor: nothing sent so far is owed.
LEMMA ClientJoins ==
  ASSUME Capacity \in Nat, MaxId \in Nat, NEW c, NEW rows, NEW late, NEW last \in 0..MaxId,
         NEW sent \in SUBSET (1..last), NEW d,
         ClientOk(c, rows, sent, late, last), c.pc = "off",
         /\ d.pc = "live" /\ d.since = 0 /\ d.live = c.live /\ d.bridge = c.bridge /\ d.before = sent
         /\ d.got = c.got /\ d.base = last /\ d.lagged = c.lagged /\ d.cut = c.cut
         /\ d.window = c.window /\ d \in Client
  PROVE  ClientOk(d, rows, sent, late, last)
<1>1. c \in Client /\ sent \in SUBSET (1..MaxId)
  BY DEF ClientOk
<1>2. /\ d.pc = "live" /\ d.since = 0 /\ d.live = c.live /\ d.bridge = c.bridge /\ d.before = sent
      /\ d.got = c.got /\ d.base = last /\ d.lagged = c.lagged /\ d.cut = c.cut
      /\ d.window = c.window /\ d \in Client
  OBVIOUS
<1>3. Elems(<<>>) = {} /\ c.live = <<>> /\ c.bridge = <<>>
  BY ElemsOfNone DEF ClientOk, ClientShape
<1>4. ClientShape(d, rows, sent, last)
  <2>1. ClientShape(c, rows, sent, last) /\ last <= last
    BY DEF ClientOk
  <2>2. QED
    BY <1>2, <1>3, <2>1 DEF ClientShape
<1>5. ASSUME NEW i \in sent PROVE ~(last < i)
  <2>1. i \in 1..last /\ last \in Nat
    OBVIOUS
  <2>2. QED
    BY <2>1
<1>6. ClientCovered(d, sent)
  BY <1>2, <1>5 DEF ClientCovered
<1>7. ClientOrdered(d, sent, late)
  <2>1. Owed(d, sent, late) = {}
    BY <1>2, <1>5 DEF Owed
  <2>2. QED
    BY <1>2, <1>3, <2>1, ElemsOfNone DEF ClientOrdered
<1>8. ClientSingle(d, sent)
  BY <1>2, <1>3, ElemsOfNone DEF ClientOk, ClientSingle
<1>9. QED
  BY <1>2, <1>4, <1>6, <1>7, <1>8 DEF ClientOk

\* The socket loop takes a message off the bridge.
LEMMA ClientReadsBridge ==
  ASSUME Capacity \in Nat, MaxId \in Nat, NEW c, NEW rows, NEW sent, NEW late, NEW last, NEW d,
         ClientOk(c, rows, sent, late, last), c.pc = "bridged", c.bridge # <<>>,
         d = [c EXCEPT !.bridge = Tail(c.bridge), !.got = Append(c.got, Head(c.bridge))]
  PROVE  ClientOk(d, rows, sent, late, last)
<1> DEFINE h == Head(c.bridge)
           t == Tail(c.bridge)
           g == Append(c.got, h)
<1>1. c \in Client
  BY DEF ClientOk
<1>2. c.live \in Seq(1..MaxId) /\ c.bridge \in Seq(1..MaxId) /\ c.got \in Seq(1..MaxId)
  BY <1>1, ClientTypes
<1>3. /\ t \in Seq(1..MaxId) /\ h \in 1..MaxId /\ Elems(c.bridge) = {h} \cup Elems(t)
      /\ Len(t) = Len(c.bridge) - 1 /\ Len(c.bridge) \in Nat
  BY <1>2, TailFacts
<1> HIDE DEF h, t
<1>4. g \in Seq(1..MaxId) /\ Elems(g) = Elems(c.got) \cup {h}
  BY <1>2, <1>3, AppendFacts
<1> HIDE DEF g
<1>5. /\ d.pc = c.pc /\ d.since = c.since /\ d.live = c.live /\ d.before = c.before
      /\ d.base = c.base /\ d.lagged = c.lagged /\ d.cut = c.cut /\ d.window = c.window
      /\ d.bridge = t /\ d.got = g /\ d \in Client
  <2>1. d = [c EXCEPT !.bridge = t, !.got = g]
    BY DEF g, t, h
  <2>2. QED
    BY <1>1, <1>3, <1>4, <2>1 DEF Client
<1>6. c.bridge \in Seq(Nat) /\ c.got \in Seq(Nat) /\ h \in Nat /\ MaxId \in Nat
  BY <1>2, <1>3
<1>7. ClientShape(d, rows, sent, last)
  <2>1. ClientShape(c, rows, sent, last)
    BY DEF ClientOk
  <2>2. Len(t) <= Capacity
    BY <1>3, <2>1 DEF ClientShape
  <2>3. QED
    BY <1>3, <1>4, <1>5, <2>1, <2>2, Zenon DEF ClientShape
<1>8. Known(d) = Known(c) \cup {h}
  BY <1>4, <1>5 DEF Known
<1>9. ClientCovered(d, sent)
  BY <1>3, <1>5, <1>8 DEF ClientOk, ClientCovered
<1>10. ClientOrdered(d, sent, late)
  <2> DEFINE owed == Owed(c, sent, late)
  <2>1. Owed(d, sent, late) = owed
    BY <1>5 DEF Owed
  <2>2. Led(c.bridge, owed, Known(c)) /\ Led(c.live, owed, Known(c) \cup Aside(c))
    BY DEF ClientOk, ClientOrdered
  <2>3. \A i \in owed : \A j \in Elems(c.got) : i < j => i \in Known(c)
    BY DEF ClientOk, ClientOrdered
  <2> HIDE DEF owed
  <2>4. Led(t, owed, Known(c) \cup {h}) /\ \A i \in owed : i < h => i \in Known(c)
    BY <1>6, <2>2, LedTail DEF t, h
  <2>5. Known(c) \cup Aside(c) = Known(d) \cup Aside(d)
    BY <1>3, <1>5, <1>8 DEF Aside
  <2>6. QED
    BY <1>4, <1>5, <1>8, <2>1, <2>2, <2>3, <2>4, <2>5 DEF ClientOrdered
<1>11. ClientSingle(d, sent)
  <2>1. ClientSingle(c, sent)
    BY DEF ClientOk
  <2>2. h \in Elems(c.bridge) /\ (h \in Elems(c.got) => h \in c.window)
    BY <1>3, <2>1 DEF ClientSingle
  <2>3. Once(g, c.window)
    BY <1>6, <2>1, <2>2, OnceAppend DEF g, ClientSingle
  <2>4. Once(t, c.window) /\ (h \in Elems(t) => h \in c.window)
    BY <1>6, <2>1, OnceTail DEF t, h, ClientSingle
  <2>5. QED
    BY <1>3, <1>4, <1>5, <2>1, <2>2, <2>3, <2>4 DEF ClientSingle
<1>12. QED
  BY <1>5, <1>7, <1>9, <1>10, <1>11 DEF ClientOk

\* The socket loop takes a message off the live channel.
LEMMA ClientReadsLive ==
  ASSUME Capacity \in Nat, MaxId \in Nat, NEW c, NEW rows, NEW sent, NEW late, NEW last, NEW d,
         ClientOk(c, rows, sent, late, last), c.pc = "live", c.live # <<>>, sent \subseteq rows,
         d = [c EXCEPT !.live = Tail(c.live), !.got = Append(c.got, Head(c.live))]
  PROVE  ClientOk(d, rows, sent, late, last)
<1> DEFINE h == Head(c.live)
           t == Tail(c.live)
           g == Append(c.got, h)
<1>1. c \in Client
  BY DEF ClientOk
<1>2. c.live \in Seq(1..MaxId) /\ c.bridge \in Seq(1..MaxId) /\ c.got \in Seq(1..MaxId)
  BY <1>1, ClientTypes
<1>3. /\ t \in Seq(1..MaxId) /\ h \in 1..MaxId /\ Elems(c.live) = {h} \cup Elems(t)
      /\ Len(t) = Len(c.live) - 1 /\ Len(c.live) \in Nat
  BY <1>2, TailFacts
<1> HIDE DEF h, t
<1>4. g \in Seq(1..MaxId) /\ Elems(g) = Elems(c.got) \cup {h}
  <2>1. c.got \in Seq(1..MaxId) /\ h \in 1..MaxId
    BY <1>2, <1>3
  <2>2. QED
    BY <2>1, AppendFacts
<1> HIDE DEF g
<1>5. /\ d.pc = c.pc /\ d.since = c.since /\ d.bridge = c.bridge /\ d.before = c.before
      /\ d.base = c.base /\ d.lagged = c.lagged /\ d.cut = c.cut /\ d.window = c.window
      /\ d.live = t /\ d.got = g /\ d \in Client
  <2>1. d = [c EXCEPT !.live = t, !.got = g]
    BY DEF g, t, h
  <2>2. QED
    BY <1>1, <1>3, <1>4, <2>1 DEF Client
<1>6. c.live \in Seq(Nat) /\ c.got \in Seq(Nat) /\ h \in Nat /\ MaxId \in Nat
  BY <1>2, <1>3
<1>7. ClientShape(d, rows, sent, last)
  <2>1. ClientShape(c, rows, sent, last)
    BY DEF ClientOk
  <2>2. Len(t) <= Capacity /\ h \in rows
    BY <1>3, <2>1 DEF ClientShape
  <2>3. QED
    BY <1>3, <1>4, <1>5, <2>1, <2>2 DEF ClientShape
<1>8. Known(d) = Known(c) \cup {h} /\ Aside(d) = Aside(c) /\ Aside(c) = {}
  BY <1>4, <1>5, ElemsOfNone DEF Known, Aside, ClientOk, ClientShape
<1>9. ClientCovered(d, sent)
  BY <1>3, <1>4, <1>5 DEF ClientOk, ClientCovered
<1>10. ClientOrdered(d, sent, late)
  <2> DEFINE owed == Owed(c, sent, late)
  <2>1. Owed(d, sent, late) = owed
    BY <1>5 DEF Owed
  <2>2. Led(c.live, owed, Known(c)) /\ c.bridge = <<>>
    BY <1>8 DEF ClientOk, ClientOrdered, ClientShape
  <2>3. \A i \in owed : \A j \in Elems(c.got) : i < j => i \in Known(c)
    BY DEF ClientOk, ClientOrdered
  <2> HIDE DEF owed
  <2>4. Led(t, owed, Known(c) \cup {h}) /\ \A i \in owed : i < h => i \in Known(c)
    BY <1>6, <2>2, LedTail DEF t, h
  <2>5. Known(d) \cup Aside(d) = Known(c) \cup {h}
    BY <1>8
  <2>6. QED
    BY <1>4, <1>5, <1>8, <2>1, <2>2, <2>3, <2>4, <2>5, ElemsOfNone DEF ClientOrdered
<1>11. ClientSingle(d, sent)
  <2>1. ClientSingle(c, sent) /\ Elems(c.live) \subseteq sent
    BY DEF ClientOk, ClientShape
  <2>2. h \in Elems(c.live) /\ (h \in Elems(c.got) => h \in c.window)
    BY <1>3, <2>1 DEF ClientSingle
  <2>3. Once(g, c.window)
    BY <1>6, <2>1, <2>2, OnceAppend DEF g, ClientSingle
  <2>4. Once(t, c.window) /\ (h \in Elems(t) => h \in c.window)
    BY <1>6, <2>1, OnceTail DEF t, h, ClientSingle
  <2>5. QED
    BY <1>3, <1>4, <1>5, <2>1, <2>2, <2>3, <2>4 DEF ClientSingle
<1>12. QED
  BY <1>5, <1>7, <1>9, <1>10, <1>11 DEF ClientOk

\* The spawned task moves a message from the live channel to the bridge.
LEMMA ClientForwards ==
  ASSUME Capacity \in Nat, MaxId \in Nat, NEW c, NEW rows, NEW sent, NEW late, NEW last, NEW d,
         ClientOk(c, rows, sent, late, last), c.pc = "bridged", c.live # <<>>, sent \subseteq rows,
         NEW q, q = Append(c.bridge, Head(c.live)),
         d = [c EXCEPT !.live = Tail(c.live), !.bridge = Pubsub!Kept(q),
                       !.lagged = c.lagged \cup Elems(Pubsub!Overflow(q))]
  PROVE  ClientOk(d, rows, sent, late, last)
<1> DEFINE h == Head(c.live)
           t == Tail(c.live)
           lost == Elems(Pubsub!Overflow(q))
<1>1. c \in Client
  BY DEF ClientOk
<1>2. c.live \in Seq(1..MaxId) /\ c.bridge \in Seq(1..MaxId) /\ c.got \in Seq(1..MaxId)
  BY <1>1, ClientTypes
<1>3. /\ t \in Seq(1..MaxId) /\ h \in 1..MaxId /\ Elems(c.live) = {h} \cup Elems(t)
      /\ Len(t) = Len(c.live) - 1 /\ Len(c.live) \in Nat
  BY <1>2, TailFacts
<1> HIDE DEF h, t
<1>4. q \in Seq(1..MaxId) /\ Elems(q) = Elems(c.bridge) \cup {h}
  <2>1. c.bridge \in Seq(1..MaxId) /\ h \in 1..MaxId /\ q = Append(c.bridge, h)
    BY <1>2, <1>3 DEF h
  <2>2. QED
    BY <2>1, AppendFacts
<1>5. /\ Pubsub!Kept(q) \in Seq(1..MaxId) /\ Len(Pubsub!Kept(q)) <= Capacity
      /\ Elems(q) = Elems(Pubsub!Kept(q)) \cup lost
  BY <1>4, KeptFacts
<1>6. lost \in SUBSET (1..MaxId)
  <2>1. Elems(q) \subseteq 1..MaxId
    BY <1>4, ElemsOf
  <2>2. QED
    BY <1>5, <2>1
<1> HIDE DEF lost
<1>7. /\ d.pc = c.pc /\ d.since = c.since /\ d.got = c.got /\ d.before = c.before
      /\ d.base = c.base /\ d.cut = c.cut /\ d.window = c.window
      /\ d.live = t /\ d.bridge = Pubsub!Kept(q) /\ d.lagged = c.lagged \cup lost /\ d \in Client
  <2>1. d = [c EXCEPT !.live = t, !.bridge = Pubsub!Kept(q), !.lagged = c.lagged \cup lost]
    BY DEF t, lost
  <2>2. c.lagged \cup lost \in SUBSET (1..MaxId)
    BY <1>1, <1>6 DEF Client
  <2>3. QED
    BY <1>1, <1>3, <1>5, <2>1, <2>2 DEF Client
<1>8. c.live \in Seq(Nat) /\ c.bridge \in Seq(Nat) /\ h \in Nat /\ q \in Seq(Nat) /\ t \in Seq(Nat)
  BY <1>2, <1>3, <1>4
<1>9. ClientShape(d, rows, sent, last)
  <2>1. ClientShape(c, rows, sent, last)
    BY DEF ClientOk
  <2>2. Len(t) <= Capacity /\ h \in rows
    BY <1>3, <2>1 DEF ClientShape
  <2>3. QED
    BY <1>3, <1>4, <1>5, <1>7, <2>1, <2>2 DEF ClientShape
<1>10. Known(d) = Known(c) \cup lost
  BY <1>7 DEF Known
<1>11. ClientCovered(d, sent)
  BY <1>3, <1>4, <1>5, <1>7, <1>10 DEF ClientOk, ClientCovered
<1>12. ClientOrdered(d, sent, late)
  <2> DEFINE owed == Owed(c, sent, late)
             known == Known(c)
             seen == Known(c) \cup Elems(c.bridge)
  <2>1. Owed(d, sent, late) = owed
    BY <1>7 DEF Owed
  <2>2. Led(c.bridge, owed, known) /\ Led(c.live, owed, seen)
    BY DEF ClientOk, ClientOrdered, Aside
  <2>3. \A i \in owed : \A j \in Elems(c.got) : i < j => i \in known
    BY DEF ClientOk, ClientOrdered
  <2>4. /\ Known(d) = known \cup lost /\ Known(d) \cup Aside(d) = (known \cup lost) \cup Elems(Pubsub!Kept(q))
        /\ seen \cup {h} = known \cup Elems(q)
    BY <1>4, <1>7, <1>10 DEF Aside
  <2>5. \A i \in seen : i \in known \cup Elems(c.bridge)
    OBVIOUS
  <2> HIDE DEF owed, known, seen
  <2>6. Led(t, owed, seen \cup {h}) /\ \A i \in owed : i < h => i \in seen
    BY <1>8, <2>2, LedTail DEF t, h
  <2>7. Led(q, owed, known)
    BY <1>8, <2>2, <2>5, <2>6, LedAppend DEF h
  <2>8. Led(Pubsub!Kept(q), owed, known \cup lost)
    BY <1>8, <2>7, LedKept DEF lost
  <2>9. Led(t, owed, (known \cup lost) \cup Elems(Pubsub!Kept(q)))
    BY <1>5, <2>4, <2>6 DEF Led
  <2>10. QED
    BY <1>7, <2>1, <2>3, <2>4, <2>8, <2>9 DEF ClientOrdered
<1>13. ClientSingle(d, sent)
  <2>1. ClientSingle(c, sent) /\ Elems(c.live) \subseteq sent
    BY DEF ClientOk, ClientShape
  <2>2. /\ h \in Elems(c.live) /\ (h \in Elems(c.bridge) => h \in c.window)
        /\ (h \in Elems(c.got) => h \in c.window)
    BY <1>3, <2>1 DEF ClientSingle
  <2>3. Once(q, c.window)
    BY <1>8, <2>1, <2>2, OnceAppend DEF h, ClientSingle
  <2>4. Once(t, c.window) /\ (h \in Elems(t) => h \in c.window)
    BY <1>8, <2>1, OnceTail DEF t, h, ClientSingle
  <2>5. Once(Pubsub!Kept(q), c.window)
    BY <1>8, <2>3, OnceKept
  <2>6. QED
    BY <1>3, <1>4, <1>5, <1>7, <2>1, <2>2, <2>4, <2>5 DEF ClientSingle
<1>14. QED
  BY <1>7, <1>9, <1>11, <1>12, <1>13 DEF ClientOk

\* The backfill query answers a first part of what is due, in order.
LEMMA PageFacts ==
  ASSUME PageLimit \in Nat, NEW due \in SUBSET Nat, NEW page \in Pubsub!Pages(due)
  PROVE  /\ page \in Seq(due) /\ page \in Seq(Nat) /\ Elems(page) \subseteq due
         /\ \A j, k \in 1..Len(page) : j < k => page[j] < page[k]
         /\ \A i \in due \ Elems(page) : \A k \in 1..Len(page) : page[k] < i
<1>1. PICK n \in 0..PageLimit : page \in [1..n -> due]
  BY DEF Pubsub!Pages
<1>2. page \in Seq(due) /\ page \in Seq(Nat) /\ DOMAIN page = 1..Len(page)
  <2>1. n \in Nat
    OBVIOUS
  <2>2. page \in Seq(due)
    BY <1>1, <2>1
  <2>3. page \in Seq(Nat)
    <3>1. (\A k \in 1..n : page[k] \in Nat) /\ page = [k \in 1..n |-> page[k]]
      BY <1>1
    <3>2. page \in [1..n -> Nat]
      BY <3>1
    <3>3. QED
      BY <2>1, <3>2
  <2>4. QED
    BY <2>2, <2>3
<1>3. Elems(page) \subseteq due
  BY <1>2, ElemsOf
<1>4. /\ \A j, k \in DOMAIN page : j < k => page[j] < page[k]
      /\ \A i \in due \ Elems(page) : \A k \in DOMAIN page : page[k] < i
  BY DEF Pubsub!Pages, Elems
<1>5. QED
  BY <1>2, <1>3, <1>4

\* The query returns and the bridge is filled.
LEMMA ClientBackfills ==
  ASSUME Capacity \in Nat, PageLimit \in Nat, MaxId \in Nat, NEW c, NEW rows \in SUBSET (1..MaxId),
         NEW sent \in SUBSET rows, NEW late, NEW last, NEW d,
         ClientOk(c, rows, sent, late, last), c.pc = "attached",
         NEW page \in Pubsub!Pages({i \in rows : i > c.since}),
         d = [c EXCEPT !.pc = "bridged", !.bridge = Pubsub!Kept(page),
                       !.lagged = c.lagged \cup Elems(Pubsub!Overflow(page)),
                       !.cut = c.cut \cup ({i \in rows : i > c.since} \ Elems(page)),
                       !.window = c.window \cup (rows \ c.before)]
  PROVE  ClientOk(d, rows, sent, late, last)
<1> DEFINE due == {i \in rows : i > c.since}
           lost == Elems(Pubsub!Overflow(page))
           kept == Pubsub!Kept(page)
<1>1. c \in Client
  BY DEF ClientOk
<1>2. /\ c.live \in Seq(1..MaxId) /\ c.got \in Seq(1..MaxId) /\ c.since \in Nat /\ c.base \in Nat
      /\ Elems(c.got) \in SUBSET (1..MaxId) /\ Elems(c.live) \in SUBSET (1..MaxId)
  BY <1>1, ClientTypes
<1>3. due \in SUBSET Nat /\ due \in SUBSET (1..MaxId) /\ due \subseteq rows
  OBVIOUS
<1>4. /\ page \in Seq(due) /\ page \in Seq(Nat) /\ Elems(page) \subseteq due
      /\ \A j, k \in 1..Len(page) : j < k => page[j] < page[k]
      /\ \A i \in due \ Elems(page) : \A k \in 1..Len(page) : page[k] < i
  BY <1>3, PageFacts
<1>5. page \in Seq(1..MaxId)
  BY <1>3, <1>4
<1>6. /\ kept \in Seq(1..MaxId) /\ Len(kept) <= Capacity /\ Elems(page) = Elems(kept) \cup lost
  BY <1>5, KeptFacts
<1>7. \A i \in due : c.since < i /\ i \in rows
  BY <1>2
<1>8. \A i \in rows : i \in due \/ i <= c.since
  BY <1>2
<1> HIDE DEF due, lost, kept
<1>9. /\ d.pc = "bridged" /\ d.since = c.since /\ d.got = c.got /\ d.before = c.before
      /\ d.base = c.base /\ d.live = c.live
      /\ d.bridge = kept /\ d.lagged = c.lagged \cup lost /\ d.cut = c.cut \cup (due \ Elems(page))
      /\ d.window = c.window \cup (rows \ c.before) /\ d \in Client
  <2>1. d = [c EXCEPT !.pc = "bridged", !.bridge = kept, !.lagged = c.lagged \cup lost,
                      !.cut = c.cut \cup (due \ Elems(page)),
                      !.window = c.window \cup (rows \ c.before)]
    BY DEF kept, lost, due
  <2>2. /\ c.lagged \cup lost \in SUBSET (1..MaxId) /\ c.cut \cup (due \ Elems(page)) \in SUBSET (1..MaxId)
        /\ c.window \cup (rows \ c.before) \in SUBSET (1..MaxId)
    BY <1>1, <1>3, <1>4, <1>6 DEF Client
  <2>3. QED
    BY <1>1, <1>6, <2>1, <2>2 DEF Client
<1>10. ClientShape(d, rows, sent, last)
  <2>1. ClientShape(c, rows, sent, last)
    BY DEF ClientOk
  <2>2. Elems(kept) \subseteq rows
    BY <1>3, <1>4, <1>6
  <2>3. QED
    BY <1>6, <1>9, <2>1, <2>2 DEF ClientShape
<1>11. Known(d) = Known(c) \cup lost \cup (due \ Elems(page))
  BY <1>9 DEF Known
<1>12. \A i \in due : i \in Known(d) \cup Elems(kept)
  BY <1>6, <1>11
<1>13. ClientCovered(d, sent)
  <2>1. \A i \in sent : c.since < i => i \in due
    BY <1>2, <1>8
  <2>2. QED
    BY <1>9, <1>12, <2>1 DEF ClientCovered
<1>14. ClientOrdered(d, sent, late)
  <2> DEFINE owed == Owed(c, sent, late)
             known == Known(d)
  <2>1. Owed(d, sent, late) = owed
    BY <1>9 DEF Owed
  <2>2. owed \subseteq sent /\ owed \subseteq rows /\ sent \in SUBSET (1..MaxId)
    BY DEF Owed
  <2>3. /\ Led(c.live, owed, Known(c) \cup Aside(c)) /\ c.bridge = <<>>
        /\ \A i \in owed : \A j \in Elems(c.got) : i < j => i \in Known(c)
    BY DEF ClientOk, ClientOrdered, ClientShape
  <2>4. \A i \in owed : i <= c.since => i \in Known(c)
    BY <2>2, BelowCursor
  <2>5. Aside(c) = c.before /\ Aside(d) = Elems(kept)
    BY <1>9, <2>3, ElemsOfNone DEF Aside
  <2>6. Known(c) \subseteq known /\ lost \subseteq known
    BY <1>11
  <2> HIDE DEF owed, known
  <2>7. Led(page, owed, known)
    <3> SUFFICES ASSUME NEW b \in 1..Len(page), NEW i \in owed, i < page[b], i \notin known
                 PROVE  \E a \in 1..b - 1 : page[a] = i
      BY DEF Led
    <3>1. i \in due
      BY <1>8, <2>2, <2>4, <2>6
    <3>2. Len(page) \in Nat /\ page[b] \in Nat /\ i \in Nat
      BY <1>3, <1>4, <3>1
    <3>3. i \in Elems(page)
      BY <1>4, <3>1, <3>2
    <3>4. PICK a \in 1..Len(page) : page[a] = i
      BY <1>4, <3>3, ElemsOf
    <3>5. a < b
      BY <1>4, <3>2, <3>4
    <3>6. a \in 1..b - 1
      BY <3>2, <3>5
    <3>7. QED
      BY <3>4, <3>6
  <2>8. Led(kept, owed, known)
    <3>1. Led(kept, owed, known \cup lost)
      BY <1>4, <2>7, LedKept DEF kept, lost
    <3>2. known \cup lost = known
      BY <2>6
    <3>3. QED
      BY <3>1, <3>2
  <2>9. Led(c.live, owed, known \cup Elems(kept))
    <3>1. \A i \in owed : i \in Known(c) \cup Aside(c) => i \in known \cup Elems(kept)
      <4>1. \A i \in owed : i \in due \/ i \in known
        BY <1>8, <2>2, <2>4, <2>6
      <4>2. QED
        BY <1>12, <4>1 DEF known
    <3>2. QED
      BY <2>3, <3>1 DEF Led
  <2>10. QED
    BY <1>9, <2>1, <2>3, <2>5, <2>6, <2>8, <2>9 DEF ClientOrdered, known
<1>15. ClientSingle(d, sent)
  <2>1. ClientSingle(c, sent) /\ c.before \subseteq sent /\ \A i \in Elems(c.got) : i <= c.since
    BY DEF ClientOk, ClientShape
  <2>2. Once(page, c.window)
    BY <1>4 DEF Once
  <2>3. Once(kept, c.window)
    BY <1>4, <2>2, OnceKept DEF kept
  <2>4. Once(c.got, d.window) /\ Once(c.live, d.window) /\ Once(kept, d.window)
    BY <1>9, <2>1, <2>3 DEF Once, ClientSingle
  <2>5. Elems(c.got) \cap Elems(kept) = {}
    <3>1. \A i \in Elems(kept) : c.since < i /\ i \in Nat
      BY <1>3, <1>4, <1>6, <1>7
    <3>2. QED
      BY <1>2, <2>1, <3>1
  <2>6. Elems(kept) \subseteq rows
    BY <1>3, <1>4, <1>6
  <2>7. QED
    BY <1>9, <2>1, <2>4, <2>5, <2>6 DEF ClientSingle
<1>16. QED
  BY <1>9, <1>10, <1>13, <1>14, <1>15 DEF ClientOk

\* The publishers keep their own part.
LEMMA PublishStep ==
  ASSUME BrokerConstants, PublishInv, [Pubsub!Next]_Pubsub!vars
  PROVE  PublishInv'
<1> USE DEF BrokerConstants
<1>1. ASSUME NEW p \in Publishers, Pubsub!Allocate(p) PROVE PublishInv'
  <2>1. /\ publisher[p].pc = "idle" /\ lastId < MaxId /\ lastId' = lastId + 1
        /\ publisher' = [publisher EXCEPT ![p] = [pc |-> "insert", id |-> lastId + 1]]
        /\ pubsubRow' = pubsubRow /\ fanned' = fanned /\ overtaken' = overtaken
    BY <1>1 DEF Pubsub!Allocate
  <2>2. /\ lastId' \in 0..MaxId /\ pubsubRow' \in SUBSET (1..lastId') /\ fanned' \in SUBSET pubsubRow'
        /\ publisher' \in [Publishers -> [pc : {"idle", "insert", "send"}, id : 0..MaxId]]
    BY <2>1 DEF PublishInv
  <2>3. publisher'[p] = [pc |-> "insert", id |-> lastId + 1] /\ lastId + 1 \notin pubsubRow
    BY <2>1 DEF PublishInv
  <2>4. \A q \in Publishers : q # p => publisher'[q] = publisher[q]
    BY <2>1 DEF PublishInv
  <2>5. \A q \in Publishers : PublisherOk(q)'
    <3> SUFFICES ASSUME NEW q \in Publishers PROVE PublisherOk(q)'
      OBVIOUS
    <3>1. CASE q = p
      BY <2>1, <2>2, <2>3, <3>1 DEF PublishInv, PublisherOk
    <3>2. CASE q # p
      BY <2>1, <2>4, <3>2 DEF PublishInv, PublisherOk
    <3>3. QED
      BY <3>1, <3>2
  <2>6. \A q \in Publishers : q # p /\ publisher[q].pc # "idle" => publisher[q].id # lastId + 1
    BY DEF PublishInv, PublisherOk
  <2>7. \A q, r \in Publishers : (q # r /\ publisher'[q].pc # "idle" /\ publisher'[r].pc # "idle")
                                 => publisher'[q].id # publisher'[r].id
    BY <2>3, <2>4, <2>6 DEF PublishInv
  <2>8. QED
    BY <2>1, <2>2, <2>5, <2>7 DEF PublishInv
<1>2. ASSUME NEW p \in Publishers, Pubsub!InsertRow(p) PROVE PublishInv'
  <2>0. publisher[p].pc = "insert" /\ lastId' = lastId /\ fanned' = fanned
    BY <1>2 DEF Pubsub!InsertRow
  <2> DEFINE x == publisher[p].id
  <2>1. x \in 1..lastId /\ x \notin fanned /\ x \notin pubsubRow /\ lastId \in 0..MaxId
    BY <2>0 DEF PublishInv, PublisherOk
  <2>2. \A q \in Publishers : q # p /\ publisher[q].pc # "idle" => publisher[q].id # x
    BY <2>0 DEF PublishInv
  <2>3. CASE /\ pubsubRow' = pubsubRow \cup {x} /\ publisher' = [publisher EXCEPT ![p].pc = "send"]
             /\ overtaken' = overtaken \cup ((1..x - 1) \ fanned)
    <3>1. /\ publisher' \in [Publishers -> [pc : {"idle", "insert", "send"}, id : 0..MaxId]]
          /\ publisher'[p].pc = "send" /\ publisher'[p].id = x
          /\ \A q \in Publishers : q # p => publisher'[q] = publisher[q]
      BY <2>3 DEF PublishInv
    <3>2. /\ pubsubRow' \in SUBSET (1..lastId') /\ fanned' \in SUBSET pubsubRow'
          /\ overtaken' \in SUBSET (1..MaxId)
      BY <2>0, <2>1, <2>3 DEF PublishInv
    <3>3. \A q \in Publishers : PublisherOk(q)'
      BY <2>0, <2>1, <2>2, <2>3, <3>1 DEF PublishInv, PublisherOk
    <3>4. \A q, r \in Publishers : (q # r /\ publisher'[q].pc # "idle" /\ publisher'[r].pc # "idle")
                                   => publisher'[q].id # publisher'[r].id
      BY <2>2, <3>1 DEF PublishInv
    <3>5. \A g \in pubsubRow' : \A i \in 1..g - 1 : i \in fanned' \cup overtaken'
      BY <2>0, <2>3 DEF PublishInv
    <3>6. QED
      BY <2>0, <3>1, <3>2, <3>3, <3>4, <3>5 DEF PublishInv
  <2>4. CASE /\ publisher' = [publisher EXCEPT ![p].pc = "idle"]
             /\ pubsubRow' = pubsubRow /\ overtaken' = overtaken
    <3>1. /\ publisher' \in [Publishers -> [pc : {"idle", "insert", "send"}, id : 0..MaxId]]
          /\ publisher'[p].pc = "idle" /\ \A q \in Publishers : q # p => publisher'[q] = publisher[q]
      BY <2>4 DEF PublishInv
    <3>2. QED
      BY <2>0, <2>4, <3>1 DEF PublishInv, PublisherOk
  <2>5. QED
    BY <1>2, <2>3, <2>4 DEF Pubsub!InsertRow
<1>3. ASSUME NEW p \in Publishers, Pubsub!FanOut(p) PROVE PublishInv'
  <2> DEFINE x == publisher[p].id
  <2>1. /\ publisher[p].pc = "send" /\ fanned' = fanned \cup {x} /\ pubsubRow' = pubsubRow
        /\ lastId' = lastId /\ overtaken' = overtaken /\ publisher' = [publisher EXCEPT ![p].pc = "idle"]
    BY <1>3 DEF Pubsub!FanOut
  <2>2. x \in pubsubRow
    BY <2>1 DEF PublishInv, PublisherOk
  <2>3. /\ publisher' \in [Publishers -> [pc : {"idle", "insert", "send"}, id : 0..MaxId]]
        /\ publisher'[p].pc = "idle" /\ \A q \in Publishers : q # p => publisher'[q] = publisher[q]
    BY <2>1 DEF PublishInv
  <2>4. \A q \in Publishers : q # p /\ publisher[q].pc # "idle" => publisher[q].id # x
    BY <2>1 DEF PublishInv
  <2>5. \A q \in Publishers : PublisherOk(q)'
    BY <2>1, <2>3, <2>4 DEF PublishInv, PublisherOk
  <2>6. \A q, r \in Publishers : (q # r /\ publisher'[q].pc # "idle" /\ publisher'[r].pc # "idle")
                                 => publisher'[q].id # publisher'[r].id
    BY <2>3 DEF PublishInv
  <2>7. QED
    BY <2>1, <2>2, <2>3, <2>5, <2>6 DEF PublishInv
<1>4. ASSUME lastId' = lastId, pubsubRow' = pubsubRow, fanned' = fanned, publisher' = publisher, overtaken' = overtaken
      PROVE  PublishInv'
  BY <1>4 DEF PublishInv, PublisherOk
<1>5. ASSUME NEW s \in Subscribers, NEW since \in Pubsub!Since, Pubsub!Attach(s, since) PROVE PublishInv'
  BY <1>4, <1>5 DEF Pubsub!Attach
<1>6. ASSUME NEW s \in Subscribers,
             Pubsub!Backfill(s) \/ Pubsub!Forward(s) \/ Pubsub!Deliver(s) \/ Pubsub!Disconnect(s)
      PROVE  PublishInv'
  BY <1>4, <1>6 DEF Pubsub!Backfill, Pubsub!Forward, Pubsub!Deliver, Pubsub!Disconnect
<1>7. CASE UNCHANGED Pubsub!vars
  BY <1>4, <1>7 DEF Pubsub!vars
<1>8. QED
  BY <1>1, <1>2, <1>3, <1>5, <1>6, <1>7 DEF Pubsub!Next

\* A step of one subscriber leaves the publishers and the others alone.
LEMMA OneClientSteps ==
  ASSUME BrokerInv, NEW s \in Subscribers, NEW d,
         client' = [client EXCEPT ![s] = d],
         lastId' = lastId, pubsubRow' = pubsubRow, fanned' = fanned, overtaken' = overtaken,
         ClientOk(d, pubsubRow, fanned, overtaken, lastId)
  PROVE  /\ client' \in [Subscribers -> Client]
         /\ \A r \in Subscribers : ClientOk(client'[r], pubsubRow', fanned', overtaken', lastId')
<1>1. d \in Client /\ client \in [Subscribers -> Client]
  BY DEF ClientOk, BrokerInv
<1>2. client' \in [Subscribers -> Client]
  BY <1>1
<1>3. \A r \in Subscribers : client'[r] = IF r = s THEN d ELSE client[r]
  BY <1>1
<1>4. QED
  BY <1>2, <1>3 DEF BrokerInv

LEMMA BrokerStep ==
  ASSUME BrokerConstants, BrokerInv, [Pubsub!Next]_Pubsub!vars
  PROVE  BrokerInv'
<1> DEFINE Clients == /\ client' \in [Subscribers -> Client]
                      /\ \A r \in Subscribers : ClientOk(client'[r], pubsubRow', fanned', overtaken', lastId')
<1>0. Capacity \in Nat /\ PageLimit \in Nat /\ MaxId \in Nat
  BY DEF BrokerConstants
<1>1. PublishInv'
  BY PublishStep DEF BrokerInv
<1>2. /\ lastId \in 0..MaxId /\ lastId \in Nat /\ pubsubRow \in SUBSET (1..lastId) /\ pubsubRow \in SUBSET (1..MaxId)
      /\ fanned \in SUBSET pubsubRow /\ fanned \in SUBSET (1..lastId) /\ fanned \in SUBSET (1..MaxId)
  BY <1>0 DEF BrokerInv, PublishInv
<1>3. client \in [Subscribers -> Client] /\ \A s \in Subscribers : ClientOk(client[s], pubsubRow, fanned, overtaken, lastId)
  BY DEF BrokerInv
<1>4. lastId' \in Nat /\ fanned' \in SUBSET (1..MaxId)
  <2>1. lastId' \in 0..MaxId /\ pubsubRow' \in SUBSET (1..lastId') /\ fanned' \in SUBSET pubsubRow'
    BY <1>1 DEF PublishInv
  <2>2. QED
    BY <1>0, <2>1
<1>5. ASSUME client' = client, pubsubRow \subseteq pubsubRow', fanned' = fanned, overtaken \subseteq overtaken',
             lastId <= lastId'
      PROVE  Clients
  <2>1. ASSUME NEW r \in Subscribers PROVE ClientOk(client[r], pubsubRow', fanned', overtaken', lastId')
    BY <1>0, <1>2, <1>3, <1>4, <1>5, ClientRests
  <2>2. QED
    BY <1>3, <1>5, <2>1
<1>6. ASSUME NEW p \in Publishers, Pubsub!Allocate(p) PROVE Clients
  <2>1. /\ client' = client /\ pubsubRow' = pubsubRow /\ fanned' = fanned /\ overtaken' = overtaken
        /\ lastId' = lastId + 1
    BY <1>6 DEF Pubsub!Allocate
  <2>2. QED
    BY <1>2, <1>5, <2>1
<1>7. ASSUME NEW p \in Publishers, Pubsub!InsertRow(p) PROVE Clients
  <2>1. client' = client /\ fanned' = fanned /\ lastId' = lastId /\ lastId <= lastId'
    BY <1>2, <1>7 DEF Pubsub!InsertRow
  <2>2. pubsubRow \subseteq pubsubRow' /\ overtaken \subseteq overtaken'
    BY <1>7 DEF Pubsub!InsertRow
  <2>3. QED
    BY <1>5, <2>1, <2>2
<1>8. ASSUME NEW p \in Publishers, Pubsub!FanOut(p) PROVE Clients
  <2> DEFINE x == publisher[p].id
  <2>1. /\ publisher[p].pc = "send" /\ fanned' = fanned \cup {x}
        /\ pubsubRow' = pubsubRow /\ lastId' = lastId /\ overtaken' = overtaken
        /\ client' = [s \in Subscribers |->
             IF client[s].pc = "off" THEN client[s] ELSE Pubsub!Send(client[s], x)]
    BY <1>8 DEF Pubsub!FanOut
  <2>2. x \in pubsubRow /\ x \notin fanned /\ x \in 1..lastId /\ x \in 1..MaxId
    BY <1>2, <2>1 DEF BrokerInv, PublishInv, PublisherOk
  <2>3. x \in overtaken \/ \A j \in pubsubRow : j <= x
    <3> SUFFICES ASSUME NEW j \in pubsubRow, ~(j <= x) PROVE x \in overtaken
      OBVIOUS
    <3>1. j \in Nat /\ x \in 1..j - 1
      BY <1>2, <2>2
    <3>2. QED
      BY <2>2, <3>1 DEF BrokerInv, PublishInv
  <2> HIDE DEF x
  <2>4. ASSUME NEW r \in Subscribers
        PROVE  ClientOk(client'[r], pubsubRow', fanned', overtaken', lastId')
    <3>1. CASE client[r].pc = "off"
      <4>1. client'[r] = client[r] /\ ClientOk(client[r], pubsubRow, fanned, overtaken, lastId)
        BY <1>3, <2>1, <3>1
      <4>2. ClientOk(client[r], pubsubRow, fanned \cup {x}, overtaken, lastId)
        BY <1>0, <1>2, <2>2, <2>3, <3>1, <4>1, ClientIsAway
      <4>3. QED
        BY <2>1, <4>1, <4>2
    <3>2. CASE client[r].pc # "off"
      <4>1. client'[r] = Pubsub!Send(client[r], x) /\ ClientOk(client[r], pubsubRow, fanned, overtaken, lastId)
        BY <1>3, <2>1, <3>2
      <4>2. ClientOk(Pubsub!Send(client[r], x), pubsubRow, fanned \cup {x}, overtaken, lastId)
        BY <1>0, <1>2, <2>2, <2>3, <3>2, <4>1, ClientIsSent
      <4>3. QED
        BY <2>1, <4>1, <4>2
    <3>3. QED
      BY <3>1, <3>2
  <2>5. client' = [s \in Subscribers |-> client'[s]] /\ \A s \in Subscribers : client'[s] \in Client
    BY <2>1, <2>4 DEF ClientOk
  <2>6. client' \in [Subscribers -> Client]
    BY <2>5
  <2>7. QED
    BY <2>4, <2>6
<1>9. ASSUME NEW s \in Subscribers, NEW since \in Pubsub!Since, Pubsub!Attach(s, since) PROVE Clients
  <2> DEFINE c == client[s]
             d == [c EXCEPT !.pc = IF since.cursor THEN "attached" ELSE "live", !.since = since.id,
                            !.connects = c.connects + 1, !.before = fanned,
                            !.base = IF since.cursor THEN c.base ELSE lastId]
  <2>0. since \in [cursor : {TRUE}, id : 0..MaxId] \/ since \in [cursor : {FALSE}, id : {0}]
    BY DEF Pubsub!Since, Pubsub!Live
  <2>1. /\ client' = [client EXCEPT ![s] = d] /\ c.pc = "off"
        /\ lastId' = lastId /\ pubsubRow' = pubsubRow /\ fanned' = fanned /\ overtaken' = overtaken
    BY <1>3, <1>9 DEF Pubsub!Attach
  <2>2. ClientOk(c, pubsubRow, fanned, overtaken, lastId)
    BY <1>3
  <2>3. CASE since.cursor = TRUE
    <3>1. since.id \in 0..MaxId
      <4>1. since \in [cursor : {TRUE}, id : 0..MaxId] => since.id \in 0..MaxId
        OBVIOUS
      <4>2. since \in [cursor : {FALSE}, id : {0}] => since.id = 0
        OBVIOUS
      <4>3. 0 \in 0..MaxId
        BY <1>0
      <4>4. QED
        BY <2>0, <4>1, <4>2, <4>3, Zenon
    <3>2. /\ since.id \in Elems(c.got) \cup {c.base} /\ \A i \in Elems(c.got) : i <= since.id
      BY <1>9, <2>3 DEF Pubsub!Attach, Elems
    <3>3. d = [c EXCEPT !.pc = "attached", !.since = since.id, !.connects = c.connects + 1,
                        !.before = fanned, !.base = c.base]
      BY <2>3
    <3>4. ClientOk(d, pubsubRow, fanned, overtaken, lastId)
      BY <1>0, <1>2, <2>1, <2>2, <3>1, <3>2, <3>3, ClientResumes
    <3>5. QED
      BY <2>1, <3>4, OneClientSteps
  <2>4. CASE since.cursor = FALSE
    <3>1. since.id = 0
      BY <2>0, <2>4
    <3>2. d = [c EXCEPT !.pc = "live", !.since = 0, !.connects = c.connects + 1,
                        !.before = fanned, !.base = lastId]
      BY <2>4, <3>1
    <3> HIDE DEF d
    <3>3. /\ d.pc = "live" /\ d.since = 0 /\ d.live = c.live /\ d.bridge = c.bridge /\ d.before = fanned
          /\ d.got = c.got /\ d.base = lastId /\ d.lagged = c.lagged /\ d.cut = c.cut
          /\ d.window = c.window /\ d \in Client
      <4>1. c \in Client /\ c.connects + 1 \in Nat
        BY <1>3 DEF Client
      <4>2. 0 \in 0..MaxId /\ lastId \in 0..MaxId /\ fanned \in SUBSET (1..MaxId)
        BY <1>0, <1>2
      <4> HIDE DEF c
      <4>3. QED
        BY <3>2, <4>1, <4>2 DEF Client
    <3> HIDE DEF c
    <3>5. ClientOk(d, pubsubRow, fanned, overtaken, lastId)
      BY <1>0, <1>2, <2>1, <2>2, <3>3, ClientJoins
    <3>4. QED
      BY <2>1, <3>5, OneClientSteps DEF c
  <2>5. QED
    BY <2>3, <2>4 DEF Pubsub!Since
<1>10. ASSUME NEW s \in Subscribers, Pubsub!Backfill(s) PROVE Clients
  <2> DEFINE c == client[s]
             due == {i \in pubsubRow : i > c.since}
  <2>1. PICK page \in Pubsub!Pages(due) :
          client' = [client EXCEPT ![s] =
            [c EXCEPT !.pc = "bridged", !.bridge = Pubsub!Kept(page),
                      !.lagged = c.lagged \cup Elems(Pubsub!Overflow(page)),
                      !.cut = c.cut \cup (due \ Elems(page)),
                      !.window = c.window \cup (pubsubRow \ c.before)]]
    BY <1>3, <1>10 DEF Pubsub!Backfill, Pubsub!ReplaySince, Elems
  <2>2. /\ c.pc = "attached"
        /\ lastId' = lastId /\ pubsubRow' = pubsubRow /\ fanned' = fanned /\ overtaken' = overtaken
    BY <1>10 DEF Pubsub!Backfill
  <2>3. ClientOk(c, pubsubRow, fanned, overtaken, lastId)
    BY <1>3
  <2> DEFINE d == [c EXCEPT !.pc = "bridged", !.bridge = Pubsub!Kept(page),
                      !.lagged = c.lagged \cup Elems(Pubsub!Overflow(page)),
                      !.cut = c.cut \cup (due \ Elems(page)),
                      !.window = c.window \cup (pubsubRow \ c.before)]
  <2>4. ClientOk(d, pubsubRow, fanned, overtaken, lastId)
    BY <1>0, <1>2, <2>2, <2>3, ClientBackfills
  <2>5. QED
    BY <2>1, <2>2, <2>4, OneClientSteps
<1>11. ASSUME NEW s \in Subscribers, Pubsub!Forward(s) PROVE Clients
  <2> DEFINE c == client[s]
             q == Append(c.bridge, Head(c.live))
             d == [c EXCEPT !.live = Tail(c.live), !.bridge = Pubsub!Kept(q),
                            !.lagged = c.lagged \cup Elems(Pubsub!Overflow(q))]
  <2>1. /\ client' = [client EXCEPT ![s] = d] /\ c.pc = "bridged" /\ c.live # <<>>
        /\ lastId' = lastId /\ pubsubRow' = pubsubRow /\ fanned' = fanned /\ overtaken' = overtaken
    BY <1>3, <1>11 DEF Pubsub!Forward, Elems
  <2>2. ClientOk(c, pubsubRow, fanned, overtaken, lastId)
    BY <1>3
  <2>3. ClientOk(d, pubsubRow, fanned, overtaken, lastId)
    BY <1>0, <1>2, <2>1, <2>2, ClientForwards
  <2>4. QED
    BY <2>1, <2>3, OneClientSteps
<1>12. ASSUME NEW s \in Subscribers, Pubsub!Deliver(s) PROVE Clients
  <2> DEFINE c == client[s]
             fromBridge == [c EXCEPT !.bridge = Tail(c.bridge), !.got = Append(c.got, Head(c.bridge))]
             fromLive == [c EXCEPT !.live = Tail(c.live), !.got = Append(c.got, Head(c.live))]
  <2>1. lastId' = lastId /\ pubsubRow' = pubsubRow /\ fanned' = fanned /\ overtaken' = overtaken
    BY <1>12 DEF Pubsub!Deliver
  <2>2. ClientOk(c, pubsubRow, fanned, overtaken, lastId)
    BY <1>3
  <2>3. CASE c.pc = "bridged" /\ c.bridge # <<>> /\ client' = [client EXCEPT ![s] = fromBridge]
    <3>1. ClientOk(fromBridge, pubsubRow, fanned, overtaken, lastId)
      BY <1>0, <2>2, <2>3, ClientReadsBridge
    <3>2. QED
      BY <2>1, <2>3, <3>1, OneClientSteps
  <2>4. CASE c.pc = "live" /\ c.live # <<>> /\ client' = [client EXCEPT ![s] = fromLive]
    <3>1. ClientOk(fromLive, pubsubRow, fanned, overtaken, lastId)
      BY <1>0, <1>2, <2>2, <2>4, ClientReadsLive
    <3>2. QED
      BY <2>1, <2>4, <3>1, OneClientSteps
  <2>5. QED
    BY <1>3, <1>12, <2>3, <2>4 DEF Pubsub!Deliver
<1>13. ASSUME NEW s \in Subscribers, Pubsub!Disconnect(s) PROVE Clients
  <2> DEFINE c == client[s]
             d == [c EXCEPT !.pc = "off", !.since = 0, !.live = <<>>, !.bridge = <<>>, !.before = {}]
  <2>1. /\ client' = [client EXCEPT ![s] = d]
        /\ lastId' = lastId /\ pubsubRow' = pubsubRow /\ fanned' = fanned /\ overtaken' = overtaken
    BY <1>3, <1>13 DEF Pubsub!Disconnect, Pubsub!Live
  <2>2. ClientOk(d, pubsubRow, fanned, overtaken, lastId)
    <3>1. ClientOk(c, pubsubRow, fanned, overtaken, lastId)
      BY <1>3
    <3>2. d = [c EXCEPT !.pc = "off", !.since = 0, !.live = <<>>, !.bridge = <<>>, !.before = {}]
      OBVIOUS
    <3>3. c \in Client
      BY <1>3
    <3> HIDE DEF c, d
    <3>4. /\ d.pc = "off" /\ d.since = 0 /\ d.live = <<>> /\ d.bridge = <<>> /\ d.before = {}
          /\ d.got = c.got /\ d.base = c.base /\ d.lagged = c.lagged /\ d.cut = c.cut
          /\ d.window = c.window /\ d \in Client
      <4>1. <<>> \in Seq(1..MaxId) /\ 0 \in 0..MaxId /\ {} \in SUBSET (1..MaxId)
        BY <1>0
      <4>2. QED
        BY <3>2, <3>3, <4>1 DEF Client
    <3>5. QED
      BY <1>0, <3>1, <3>4, ClientLeaves
  <2>3. QED
    BY <2>1, <2>2, OneClientSteps
<1>14. ASSUME UNCHANGED Pubsub!vars PROVE Clients
  <2>1. client' = client /\ pubsubRow' = pubsubRow /\ fanned' = fanned /\ overtaken' = overtaken /\ lastId' = lastId
    BY <1>14 DEF Pubsub!vars
  <2>2. lastId <= lastId'
    BY <1>2, <2>1
  <2>3. QED
    BY <1>5, <2>1, <2>2
<1> HIDE DEF Clients
<1>15. Clients
  BY <1>6, <1>7, <1>8, <1>9, <1>10, <1>11, <1>12, <1>13, <1>14 DEF Pubsub!Next
<1>16. QED
  BY <1>1, <1>15 DEF BrokerInv, Clients

\* Whatever the capacity of the channels, the limit of a page, the number of
\* publishers and the reconnects: no message is lost between the backfill and
\* the live channel, a resume skips only what a greater id overtook, what lagged
\* and what the limit cut off, only the window repeats, and all of it is stored.
THEOREM TopicsAreAccounted ==
  ASSUME BrokerConstants
  PROVE  Pubsub!Spec => [](/\ Pubsub!TypeOK
                           /\ Pubsub!ConnectedMissesNothing /\ Pubsub!ResumeSkipsOnlyOvertaken
                           /\ Pubsub!TwiceOnlyInTheWindow /\ Pubsub!ReceivedIsPersisted)
<1>1. Pubsub!Init => BrokerInv
  <2> SUFFICES ASSUME Pubsub!Init PROVE BrokerInv
    OBVIOUS
  <2>1. PublishInv
    BY DEF Pubsub!Init, PublishInv, PublisherOk, BrokerConstants
  <2>2. ASSUME NEW s \in Subscribers PROVE ClientOk(client[s], pubsubRow, fanned, overtaken, lastId)
    <3> DEFINE c == client[s]
    <3>1. /\ c.pc = "off" /\ c.since = 0 /\ c.live = <<>> /\ c.bridge = <<>> /\ c.before = {}
          /\ c.connects = 0 /\ c.got = <<>> /\ c.base = 0 /\ c.lagged = {} /\ c.cut = {} /\ c.window = {}
      BY DEF Pubsub!Init, Pubsub!NewClient, Pubsub!Live
    <3>2. c \in Client
      BY DEF Pubsub!Init, Pubsub!NewClient, Pubsub!Live, Client, BrokerConstants
    <3>3. lastId = 0 /\ fanned = {} /\ pubsubRow = {} /\ 0 <= Capacity
      BY DEF Pubsub!Init, BrokerConstants
    <3> HIDE DEF c
    <3>4. ClientShape(c, pubsubRow, fanned, lastId) /\ ClientCovered(c, fanned)
      BY <3>1, <3>3, ElemsOfNone DEF ClientShape, ClientCovered
    <3>5. ClientOrdered(c, fanned, overtaken) /\ ClientSingle(c, fanned)
      BY <3>1, <3>3, ElemsOfNone DEF ClientOrdered, ClientSingle, Owed
    <3>6. QED
      BY <3>2, <3>4, <3>5 DEF ClientOk, c
  <2>3. client \in [Subscribers -> Client]
    BY <2>2 DEF Pubsub!Init, ClientOk
  <2>4. QED
    BY <2>1, <2>2, <2>3 DEF BrokerInv
<1>2. BrokerInv /\ [Pubsub!Next]_Pubsub!vars => BrokerInv'
  BY BrokerStep
<1>3. ASSUME BrokerInv
      PROVE  /\ Pubsub!TypeOK
             /\ Pubsub!ConnectedMissesNothing /\ Pubsub!ResumeSkipsOnlyOvertaken
             /\ Pubsub!TwiceOnlyInTheWindow /\ Pubsub!ReceivedIsPersisted
  <2> USE <1>3
  <2>1. /\ MaxId \in Nat /\ lastId \in 0..MaxId /\ pubsubRow \in SUBSET (1..lastId)
        /\ fanned \in SUBSET pubsubRow /\ overtaken \in SUBSET (1..MaxId)
    BY DEF BrokerInv, PublishInv, BrokerConstants
  <2>2. ASSUME NEW s \in Subscribers
        PROVE  /\ client[s].pc \in {"off", "attached", "live", "bridged"}
               /\ Len(client[s].live) <= Capacity /\ Len(client[s].bridge) <= Capacity
               /\ Elems(client[s].got) \subseteq 1..MaxId
               /\ client[s].pc = "bridged" =>
                    \A i \in fanned : i > client[s].since =>
                      i \in Known(client[s]) \cup Elems(client[s].live) \cup Elems(client[s].bridge)
               /\ \A i \in fanned \ overtaken :
                    (client[s].base < i /\ \E j \in Elems(client[s].got) : i < j) => i \in Known(client[s])
               /\ \A j, k \in DOMAIN client[s].got :
                    (j # k /\ client[s].got[j] = client[s].got[k]) => client[s].got[j] \in client[s].window
               /\ Elems(client[s].got) \cup Elems(client[s].live) \cup Elems(client[s].bridge) \subseteq pubsubRow
    <3> DEFINE c == client[s]
    <3>1. ClientOk(c, pubsubRow, fanned, overtaken, lastId)
      BY DEF BrokerInv
    <3> HIDE DEF c
    <3>2. /\ c \in Client /\ ClientShape(c, pubsubRow, fanned, lastId) /\ ClientCovered(c, fanned)
          /\ ClientOrdered(c, fanned, overtaken) /\ ClientSingle(c, fanned)
      BY <3>1 DEF ClientOk
    <3>3. /\ c.pc \in {"off", "attached", "live", "bridged"} /\ c.since \in Nat
          /\ Elems(c.got) \in SUBSET (1..MaxId) /\ c.got \in Seq(Nat)
      BY <2>1, <3>2, ClientTypes
    <3>4. /\ Len(c.live) <= Capacity /\ Len(c.bridge) <= Capacity
          /\ Elems(c.got) \cup Elems(c.live) \cup Elems(c.bridge) \subseteq pubsubRow
      BY <2>1, <3>2 DEF ClientShape
    <3>5. c.pc = "bridged" => \A i \in fanned : i > c.since =>
            i \in Known(c) \cup Elems(c.live) \cup Elems(c.bridge)
      BY <2>1, <3>2, <3>3 DEF ClientCovered
    <3>6. \A i \in fanned \ overtaken : (c.base < i /\ \E j \in Elems(c.got) : i < j) => i \in Known(c)
      BY <3>2 DEF ClientOrdered, Owed
    <3>7. \A j, k \in DOMAIN c.got : (j # k /\ c.got[j] = c.got[k]) => c.got[j] \in c.window
      BY <3>2, <3>3 DEF ClientSingle, Once
    <3>8. QED
      BY <3>3, <3>4, <3>5, <3>6, <3>7 DEF c
  <2>3. \A s \in Subscribers :
          /\ Pubsub!Received(s) = Elems(client[s].got)
          /\ Pubsub!Pending(s) = Elems(client[s].live) \cup Elems(client[s].bridge)
          /\ Pubsub!Received(s) \cup Pubsub!Excused(s) = Known(client[s])
    BY DEF Pubsub!Received, Pubsub!Pending, Pubsub!Excused, Known, Elems
  <2>4. Pubsub!TypeOK
    BY <2>1, <2>2, <2>3 DEF Pubsub!TypeOK, Pubsub!Ids
  <2>5. Pubsub!ConnectedMissesNothing
    <3>1. \A s \in Subscribers : Known(client[s]) \cup Elems(client[s].live) \cup Elems(client[s].bridge)
                                  = Pubsub!Received(s) \cup Pubsub!Pending(s) \cup Pubsub!Excused(s)
      BY <2>3
    <3>2. QED
      BY <2>2, <3>1 DEF Pubsub!ConnectedMissesNothing
  <2>6. Pubsub!ResumeSkipsOnlyOvertaken
    BY <2>2, <2>3 DEF Pubsub!ResumeSkipsOnlyOvertaken
  <2>7. Pubsub!TwiceOnlyInTheWindow
    BY <2>2 DEF Pubsub!TwiceOnlyInTheWindow
  <2>8. Pubsub!ReceivedIsPersisted
    BY <2>2, <2>3 DEF Pubsub!ReceivedIsPersisted
  <2>9. QED
    BY <2>4, <2>5, <2>6, <2>7, <2>8
<1>4. QED
  BY <1>1, <1>2, <1>3, PTL DEF Pubsub!Spec

-----------------------------------------------------------------------------
(* The hub's socket and the client's stream.                               *)

CONSTANTS Frames, Buffer, Selected, Garbled

VARIABLES published, socket, unread, joined, wire, reader, items, failed

Socket == INSTANCE Hub

HubConstants == Frames \in Nat /\ Buffer \in Nat

HubTypes ==
  /\ published \in 0..Frames
  /\ socket \in {"open", "closed"} /\ unread \in Seq(Nat) /\ joined \in 0..Frames
  /\ wire \in Seq(Nat)
  /\ reader \in {"none", "run", "ended"} /\ items \in Seq(Nat)
  /\ joined <= published
  /\ reader = "none" => socket = "closed" /\ wire = <<>> /\ items = <<>> /\ failed = {}

\* The receiver has read up to here.
ReadUpTo == published - Len(unread)

\* Unread is everything published since.
UnreadIsARun ==
  socket = "open" => /\ joined <= ReadUpTo
                 /\ \A k \in 1..Len(unread) : unread[k] = ReadUpTo + k

\* n is one of the first k elements of q.
Among(n, q, k) == \E j \in 1..k : q[j] = n

\* The k-th frame on the wire: a close is the last one; a message matches,
\* and comes behind all items and all matching messages before it.
FrameInPlace(k) ==
  /\ wire[k] = 0 => k = Len(wire) /\ socket = "closed"
  /\ wire[k] # 0 =>
       /\ wire[k] \in Selected /\ joined < wire[k] /\ wire[k] <= published
       /\ socket = "open" => wire[k] <= ReadUpTo
       /\ \A j \in 1..k - 1 : wire[j] < wire[k]
       /\ \A j \in 1..Len(items) : items[j] < wire[k]
       /\ \A n \in joined + 1..wire[k] - 1 :
            n \in Selected => Among(n, items, Len(items)) \/ Among(n, wire, k - 1)

WireIsARun == \A k \in 1..Len(wire) : FrameInPlace(k)

\* What an open socket has read is on its way or there.
ReadIsSent ==
  socket = "open" =>
    /\ \A n \in joined + 1..ReadUpTo :
         n \in Selected => Among(n, items, Len(items)) \/ Among(n, wire, Len(wire))
    /\ \A j \in 1..Len(items) : items[j] <= ReadUpTo

ItemInPlace(k) ==
  /\ items[k] \in Selected /\ joined < items[k] /\ items[k] <= published
  /\ \A j \in 1..k - 1 : items[j] < items[k]
  /\ \A n \in joined + 1..items[k] - 1 : n \in Selected => Among(n, items, k - 1)

ItemsAreARun ==
  /\ \A k \in 1..Len(items) : ItemInPlace(k)
  /\ \A n : n \in failed <=> Among(n, items, Len(items)) /\ n \in Garbled

HubInv == HubTypes /\ UnreadIsARun /\ WireIsARun /\ ReadIsSent /\ ItemsAreARun

LEMMA AmongAppend ==
  ASSUME NEW q \in Seq(Nat), NEW x \in Nat
  PROVE  /\ Append(q, x) \in Seq(Nat) /\ Len(Append(q, x)) = Len(q) + 1
         /\ Append(q, x)[Len(q) + 1] = x
         /\ \A j \in 1..Len(q) : Append(q, x)[j] = q[j]
         /\ \A k \in 0..Len(q) : \A n : Among(n, Append(q, x), k) <=> Among(n, q, k)
         /\ \A n : Among(n, Append(q, x), Len(q) + 1) <=> n = x \/ Among(n, q, Len(q))
<1>1. /\ Append(q, x) \in Seq(Nat) /\ Len(Append(q, x)) = Len(q) + 1 /\ Len(q) \in Nat
      /\ Append(q, x)[Len(q) + 1] = x
      /\ \A j \in 1..Len(q) : Append(q, x)[j] = q[j]
  OBVIOUS
<1>2. QED
  BY <1>1 DEF Among

LEMMA AmongTail ==
  ASSUME NEW q \in Seq(Nat), q # <<>>
  PROVE  /\ Tail(q) \in Seq(Nat) /\ Len(Tail(q)) = Len(q) - 1 /\ Len(q) \in Nat \ {0}
         /\ Head(q) = q[1] /\ q[1] \in Nat
         /\ \A j \in 1..Len(q) - 1 : Tail(q)[j] = q[j + 1]
         /\ \A k \in 0..Len(q) - 1 : \A n : Among(n, q, k + 1) <=> n = q[1] \/ Among(n, Tail(q), k)
<1>1. /\ Tail(q) \in Seq(Nat) /\ Len(Tail(q)) = Len(q) - 1 /\ Len(q) \in Nat \ {0}
      /\ Head(q) = q[1] /\ q[1] \in Nat
      /\ \A j \in 1..Len(q) - 1 : Tail(q)[j] = q[j + 1]
  OBVIOUS
<1>2. ASSUME NEW k \in 0..Len(q) - 1, NEW n PROVE Among(n, q, k + 1) <=> n = q[1] \/ Among(n, Tail(q), k)
  <2>1. ASSUME NEW j \in 1..k + 1, q[j] = n, n # q[1] PROVE Among(n, Tail(q), k)
    <3>1. j - 1 \in 1..k /\ Tail(q)[j - 1] = n
      BY <1>1, <2>1
    <3>2. QED
      BY <3>1 DEF Among
  <2>2. ASSUME NEW j \in 1..k, Tail(q)[j] = n PROVE Among(n, q, k + 1)
    <3>1. j + 1 \in 1..k + 1 /\ q[j + 1] = n
      BY <1>1, <2>2
    <3>2. QED
      BY <3>1 DEF Among
  <2>3. Among(q[1], q, k + 1)
    BY DEF Among
  <2>4. QED
    BY <2>1, <2>2, <2>3 DEF Among
<1>3. QED
  BY <1>1, <1>2

LEMMA HubStep ==
  ASSUME HubConstants, HubInv, [Socket!Next]_Socket!vars
  PROVE  HubInv'
<1> USE DEF HubConstants, HubInv
<1>0. /\ published \in Nat /\ Len(wire) \in Nat /\ Len(unread) \in Nat
      /\ Len(items) \in Nat /\ ReadUpTo \in Int /\ joined \in Nat
      /\ \A k \in 1..Len(wire) : wire[k] \in Nat
      /\ \A k \in 1..Len(items) : items[k] \in Nat
  BY DEF HubTypes, ReadUpTo
<1>1. CASE Socket!Publish
  <2>1. /\ published' = published + 1 /\ wire' = wire /\ items' = items /\ failed' = failed
        /\ reader' = reader /\ joined' = joined /\ socket' = socket
        /\ unread' = IF socket = "open" THEN Append(unread, published + 1) ELSE unread
    BY <1>1 DEF Socket!Publish
  <2>2. HubTypes'
    BY <1>0, <1>1, <2>1 DEF Socket!Publish, HubTypes
  <2>3. socket = "open" => ReadUpTo' = ReadUpTo /\ Len(unread') = Len(unread) + 1
    BY <1>0, <2>1 DEF HubTypes, ReadUpTo
  <2>4. UnreadIsARun'
    BY <1>0, <2>1, <2>3 DEF HubTypes, UnreadIsARun, ReadUpTo
  <2>5. WireIsARun'
    BY <1>0, <2>1, <2>3 DEF WireIsARun, FrameInPlace
  <2>6. ReadIsSent'
    BY <1>0, <2>1, <2>3 DEF ReadIsSent
  <2>7. ItemsAreARun'
    BY <1>0, <2>1 DEF ItemsAreARun, ItemInPlace
  <2>8. QED
    BY <2>2, <2>4, <2>5, <2>6, <2>7
<1>2. CASE Socket!Subscribe
  <2>1. /\ published' = published /\ wire' = <<>> /\ items' = <<>> /\ failed' = {}
        /\ reader' = "run" /\ socket' = "open" /\ unread' = <<>> /\ joined' = published
    BY <1>2 DEF Socket!Subscribe, HubTypes
  <2>2. ReadUpTo' = published
    BY <1>0, <2>1 DEF ReadUpTo
  <2>3. HubTypes' /\ UnreadIsARun'
    BY <1>0, <2>1, <2>2 DEF HubTypes, UnreadIsARun
  <2>4. WireIsARun' /\ ReadIsSent'
    BY <1>0, <2>1, <2>2 DEF WireIsARun, ReadIsSent
  <2>5. ItemsAreARun'
    BY <2>1 DEF ItemsAreARun, Among
  <2>6. QED
    BY <2>3, <2>4, <2>5
<1>3. CASE Socket!RunSubscription
  <2>1. /\ published' = published /\ joined' = joined /\ reader' = reader /\ items' = items /\ failed' = failed
        /\ socket = "open" /\ unread # <<>> /\ reader # "none"
    BY <1>3 DEF Socket!RunSubscription, HubTypes
  <2>2. ItemsAreARun'
    BY <2>1 DEF ItemsAreARun, ItemInPlace
  <2>3. \A k \in 1..Len(wire) : wire[k] # 0 /\ wire[k] <= ReadUpTo
    BY <1>0, <2>1 DEF WireIsARun, FrameInPlace
  <2>4. CASE Len(unread) > Buffer
    <3>1. socket' = "closed" /\ wire' = Append(wire, 0) /\ unread' = unread
      BY <1>3, <2>4 DEF Socket!RunSubscription, Socket!Close
    <3>2. HubTypes' /\ UnreadIsARun' /\ ReadIsSent'
      BY <2>1, <3>1, AmongAppend DEF HubTypes, UnreadIsARun, ReadIsSent
    <3>3. WireIsARun'
      <4>1. wire \in Seq(Nat) /\ 0 \in Nat
        BY DEF HubTypes
      <4>2. ASSUME NEW k \in 1..Len(wire') PROVE FrameInPlace(k)'
        <5>1. CASE k = Len(wire) + 1
          BY <1>0, <3>1, <4>1, <5>1, AmongAppend DEF FrameInPlace
        <5>2. CASE k \in 1..Len(wire)
          <6>1. FrameInPlace(k) /\ wire[k] # 0 /\ wire'[k] = wire[k]
            BY <1>0, <2>3, <3>1, <4>1, <5>2, AmongAppend DEF WireIsARun
          <6>2. /\ \A j \in 1..k - 1 : wire'[j] = wire[j]
                /\ \A n : Among(n, wire', k - 1) <=> Among(n, wire, k - 1)
            BY <1>0, <3>1, <4>1, <5>2, AmongAppend
          <6>3. QED
            BY <1>0, <2>1, <3>1, <6>1, <6>2 DEF FrameInPlace
        <5>3. QED
          BY <1>0, <3>1, <4>1, <5>1, <5>2, AmongAppend
      <4>3. QED
        BY <4>2 DEF WireIsARun
    <3>4. QED
      BY <2>2, <3>2, <3>3
  <2>5. CASE Len(unread) <= Buffer
    <3>1. /\ socket' = socket /\ unread' = Tail(unread)
          /\ wire' = IF Head(unread) \in Selected THEN Append(wire, Head(unread)) ELSE wire
      BY <1>0, <1>3, <2>5 DEF Socket!RunSubscription, Socket!Matches
    <3>2. /\ Head(unread) = ReadUpTo + 1 /\ ReadUpTo' = ReadUpTo + 1 /\ ReadUpTo + 1 <= published
          /\ Len(unread') = Len(unread) - 1 /\ joined <= ReadUpTo
      BY <1>0, <2>1, <3>1 DEF HubTypes, UnreadIsARun, ReadUpTo
    <3>3. HubTypes'
      BY <1>0, <2>1, <3>1 DEF HubTypes
    <3>4. UnreadIsARun'
      <4>1. \A k \in 1..Len(unread') : unread'[k] = unread[k + 1]
        BY <1>0, <2>1, <3>1 DEF HubTypes
      <4>2. QED
        BY <1>0, <2>1, <3>2, <4>1 DEF UnreadIsARun
    <3>5. CASE ReadUpTo + 1 \notin Selected
      <4>1. wire' = wire
        BY <3>1, <3>2, <3>5
      <4>2. WireIsARun'
        BY <1>0, <2>1, <3>1, <3>2, <4>1 DEF WireIsARun, FrameInPlace
      <4>3. ReadIsSent'
        BY <1>0, <2>1, <3>1, <3>2, <3>5, <4>1 DEF ReadIsSent
      <4>4. QED
        BY <2>2, <3>3, <3>4, <4>2, <4>3
    <3>6. CASE ReadUpTo + 1 \in Selected
      <4>1. wire' = Append(wire, ReadUpTo + 1) /\ wire \in Seq(Nat) /\ ReadUpTo + 1 \in Nat
        BY <1>0, <3>1, <3>2, <3>6 DEF HubTypes
      <4>2. /\ Len(wire') = Len(wire) + 1 /\ wire'[Len(wire) + 1] = ReadUpTo + 1
            /\ \A k \in 1..Len(wire) : wire'[k] = wire[k]
            /\ \A k \in 0..Len(wire) : \A n : Among(n, wire', k) <=> Among(n, wire, k)
            /\ \A n : Among(n, wire', Len(wire) + 1) <=> n = ReadUpTo + 1 \/ Among(n, wire, Len(wire))
        BY <4>1, AmongAppend
      <4>3. ASSUME NEW k \in 1..Len(wire') PROVE FrameInPlace(k)'
        <5>1. CASE k = Len(wire) + 1
          BY <1>0, <2>1, <2>3, <3>1, <3>2, <3>6, <4>2, <5>1 DEF FrameInPlace, ReadIsSent
        <5>2. CASE k \in 1..Len(wire)
          <6>1. FrameInPlace(k) /\ wire[k] # 0 /\ wire[k] <= ReadUpTo
            BY <2>3, <5>2 DEF WireIsARun
          <6>2. QED
            BY <1>0, <2>1, <3>1, <3>2, <4>2, <5>2, <6>1 DEF FrameInPlace
        <5>3. QED
          BY <1>0, <4>2, <5>1, <5>2
      <4>4. ReadIsSent'
        <5>1. ASSUME NEW n \in joined + 1..ReadUpTo + 1, n \in Selected
              PROVE  Among(n, items, Len(items)) \/ Among(n, wire', Len(wire) + 1)
          <6>1. n = ReadUpTo + 1 \/ n \in joined + 1..ReadUpTo
            BY <1>0
          <6>2. QED
            BY <2>1, <4>2, <5>1, <6>1 DEF ReadIsSent
        <5>2. \A j \in 1..Len(items) : items[j] <= ReadUpTo + 1
          BY <1>0, <2>1 DEF ReadIsSent
        <5>3. QED
          BY <2>1, <3>1, <3>2, <4>2, <5>1, <5>2 DEF ReadIsSent
      <4>5. QED
        BY <2>2, <3>3, <3>4, <4>3, <4>4 DEF WireIsARun
    <3>7. QED
      BY <3>5, <3>6
  <2>6. QED
    BY <1>0, <2>4, <2>5
<1>4. CASE Socket!ReadFrame
  <2>1. /\ published' = published /\ socket' = socket /\ unread' = unread /\ joined' = joined
        /\ reader = "run" /\ wire # <<>> /\ wire' = Tail(wire) /\ wire \in Seq(Nat) /\ ReadUpTo' = ReadUpTo
    BY <1>4 DEF Socket!ReadFrame, ReadUpTo, HubTypes
  <2>2. /\ Len(wire) >= 1 /\ Head(wire) = wire[1] /\ Len(wire') = Len(wire) - 1 /\ wire' \in Seq(Nat)
        /\ \A k \in 1..Len(wire) - 1 : wire'[k] = wire[k + 1]
        /\ \A k \in 0..Len(wire) - 1 : \A n : Among(n, wire, k + 1) <=> n = wire[1] \/ Among(n, wire', k)
    BY <2>1, AmongTail
  <2>3. FrameInPlace(1)
    BY <1>0, <2>2 DEF WireIsARun
  <2>4. UnreadIsARun'
    BY <2>1 DEF UnreadIsARun
  <2>5. CASE wire[1] = 0
    <3>1. reader' = "ended" /\ items' = items /\ failed' = failed
      BY <1>4, <2>2, <2>5 DEF Socket!ReadFrame, Socket!Close
    <3>2. Len(wire) = 1 /\ socket = "closed"
      BY <2>3, <2>5 DEF FrameInPlace
    <3>3. HubTypes' /\ WireIsARun' /\ ReadIsSent'
      <4>1. HubTypes'
        BY <2>1, <2>2, <3>1 DEF HubTypes
      <4>2. WireIsARun' /\ ReadIsSent'
        BY <2>1, <2>2, <3>2 DEF WireIsARun, ReadIsSent
      <4>3. QED
        BY <4>1, <4>2
    <3>4. ItemsAreARun'
      BY <2>1, <3>1 DEF ItemsAreARun, ItemInPlace
    <3>5. QED
      BY <2>4, <3>3, <3>4
  <2>6. CASE wire[1] # 0
    <3>1. /\ items' = Append(items, wire[1]) /\ items \in Seq(Nat) /\ wire[1] \in Nat
          /\ failed' = failed \cup ({wire[1]} \cap Garbled) /\ reader' = reader
      BY <1>0, <1>4, <2>2, <2>6 DEF Socket!ReadFrame, Socket!Close, HubTypes
    <3>2. /\ items' \in Seq(Nat) /\ Len(items') = Len(items) + 1 /\ items'[Len(items) + 1] = wire[1]
          /\ \A j \in 1..Len(items) : items'[j] = items[j]
          /\ \A k \in 0..Len(items) : \A n : Among(n, items', k) <=> Among(n, items, k)
          /\ \A n : Among(n, items', Len(items) + 1) <=> n = wire[1] \/ Among(n, items, Len(items))
      BY <3>1, AmongAppend
    <3>3. HubTypes'
      BY <1>0, <2>1, <2>2, <3>1, <3>2 DEF HubTypes
    <3>4. ASSUME NEW k \in 1..Len(wire') PROVE FrameInPlace(k)'
      <4>1. /\ k + 1 \in 1..Len(wire) /\ wire'[k] = wire[k + 1] /\ wire[k + 1] \in Nat
            /\ FrameInPlace(k + 1)
        BY <1>0, <2>2 DEF WireIsARun
      <4>2. CASE wire[k + 1] = 0
        <5>1. k + 1 = Len(wire) /\ socket = "closed"
          BY <4>1, <4>2 DEF FrameInPlace
        <5>2. k = Len(wire')
          BY <1>0, <2>2, <5>1
        <5>3. QED
          BY <2>1, <4>1, <4>2, <5>1, <5>2 DEF FrameInPlace
      <4>3. CASE wire[k + 1] # 0
        <5>1. /\ wire[k + 1] \in Selected /\ joined < wire[k + 1] /\ wire[k + 1] <= published
              /\ socket = "open" => wire[k + 1] <= ReadUpTo
              /\ \A j \in 1..k : wire[j] < wire[k + 1]
              /\ \A j \in 1..Len(items) : items[j] < wire[k + 1]
              /\ \A n \in joined + 1..wire[k + 1] - 1 :
                   n \in Selected => Among(n, items, Len(items)) \/ Among(n, wire, k)
          BY <1>0, <4>1, <4>3 DEF FrameInPlace
        <5>2. ASSUME NEW j \in 1..Len(items') PROVE items'[j] < wire[k + 1]
          <6>1. j \in 1..Len(items) \/ j = Len(items) + 1
            BY <1>0, <3>2
          <6>2. wire[1] < wire[k + 1]
            BY <1>0, <5>1
          <6>3. QED
            BY <3>2, <5>1, <6>1, <6>2
        <5>3. ASSUME NEW j \in 1..k - 1 PROVE wire'[j] < wire[k + 1]
          <6>1. j + 1 \in 1..k /\ wire'[j] = wire[j + 1]
            <7>1. j \in 1..Len(wire) - 1 /\ j + 1 \in 1..k
              BY <1>0, <4>1
            <7>2. QED
              BY <2>2, <7>1
          <6>2. QED
            BY <5>1, <6>1
        <5>4. \A n : Among(n, wire, k) => n = wire[1] \/ Among(n, wire', k - 1)
          BY <1>0, <2>2, <4>1
        <5>5. \A n \in joined + 1..wire[k + 1] - 1 :
                n \in Selected => Among(n, items', Len(items')) \/ Among(n, wire', k - 1)
          BY <3>2, <5>1, <5>4
        <5>6. QED
          BY <2>1, <4>1, <4>3, <5>1, <5>2, <5>3, <5>5 DEF FrameInPlace
      <4>4. QED
        BY <4>2, <4>3
    <3>5. ReadIsSent'
      <4>1. \A n : Among(n, wire, Len(wire)) => n = wire[1] \/ Among(n, wire', Len(wire'))
        BY <1>0, <2>2
      <4>2. socket = "open" => \A j \in 1..Len(items') : items'[j] <= ReadUpTo
        <5>1. socket = "open" => wire[1] <= ReadUpTo /\ \A j \in 1..Len(items) : items[j] <= ReadUpTo
          BY <2>3, <2>6 DEF ReadIsSent, FrameInPlace
        <5>2. \A j \in 1..Len(items') : j \in 1..Len(items) \/ j = Len(items) + 1
          BY <1>0, <3>2
        <5>3. QED
          BY <3>2, <5>1, <5>2
      <4>3. QED
        BY <2>1, <3>2, <4>1, <4>2 DEF ReadIsSent
    <3>6. ItemsAreARun'
      <4>1. ASSUME NEW k \in 1..Len(items') PROVE ItemInPlace(k)'
        <5>1. CASE k \in 1..Len(items)
          <6>1. ItemInPlace(k) /\ items'[k] = items[k]
            BY <3>2, <5>1 DEF ItemsAreARun
          <6>2. /\ \A j \in 1..k - 1 : items'[j] = items[j]
                /\ \A n : Among(n, items', k - 1) <=> Among(n, items, k - 1)
            <7>1. k - 1 \in 0..Len(items) /\ \A j \in 1..k - 1 : j \in 1..Len(items)
              BY <1>0, <5>1
            <7>2. QED
              BY <3>2, <7>1
          <6>3. QED
            BY <2>1, <6>1, <6>2 DEF ItemInPlace
        <5>2. CASE k = Len(items) + 1
          <6>1. \A n : ~Among(n, wire, 0)
            BY DEF Among
          <6>2. QED
            BY <1>0, <2>1, <2>3, <2>6, <3>2, <5>2, <6>1 DEF FrameInPlace, ItemInPlace
        <5>3. QED
          BY <1>0, <3>2, <5>1, <5>2
      <4>2. QED
        BY <3>1, <3>2, <4>1 DEF ItemsAreARun
    <3>7. QED
      BY <2>4, <3>3, <3>4, <3>5, <3>6 DEF WireIsARun
  <2>7. QED
    BY <2>5, <2>6
<1>5. CASE Socket!Drop
  <2>1. /\ published' = published /\ wire' = <<0>> /\ socket' = "closed" /\ joined' = joined
        /\ reader' = reader /\ items' = items /\ failed' = failed /\ unread' = unread /\ socket = "open"
    BY <1>5 DEF Socket!Drop, Socket!Close
  <2>2. HubTypes' /\ UnreadIsARun' /\ ReadIsSent'
    BY <2>1 DEF HubTypes, UnreadIsARun, ReadIsSent
  <2>3. WireIsARun'
    BY <2>1 DEF WireIsARun, FrameInPlace
  <2>4. ItemsAreARun'
    BY <2>1 DEF ItemsAreARun, ItemInPlace
  <2>5. QED
    BY <2>2, <2>3, <2>4
<1>6. CASE UNCHANGED Socket!vars
  <2>1. HubTypes' /\ UnreadIsARun' /\ ReadIsSent'
    BY <1>6 DEF Socket!vars, HubTypes, UnreadIsARun, ReadIsSent, ReadUpTo
  <2>2. WireIsARun' /\ ItemsAreARun'
    BY <1>6 DEF Socket!vars, WireIsARun, FrameInPlace, ItemsAreARun, ItemInPlace, ReadUpTo
  <2>3. QED
    BY <2>1, <2>2
<1>7. QED
  BY <1>1, <1>2, <1>3, <1>4, <1>5, <1>6 DEF Socket!Next

\* A client of the hub sees an unbroken run of the messages its predicate
\* selects, whatever the buffer, the predicate and the frames it cannot decode.
THEOREM StreamsHaveNoGap ==
  ASSUME HubConstants
  PROVE  Socket!Spec => [](Socket!TypeOK /\ Socket!StreamHasNoGap)
<1>1. Socket!Init => HubInv
  <2> SUFFICES ASSUME Socket!Init PROVE HubInv
    OBVIOUS
  <2>1. HubTypes /\ UnreadIsARun /\ ReadIsSent
    BY DEF HubConstants, Socket!Init, HubTypes, UnreadIsARun, ReadIsSent
  <2>2. WireIsARun /\ ItemsAreARun
    BY DEF Socket!Init, WireIsARun, ItemsAreARun, Among
  <2>3. QED
    BY <2>1, <2>2 DEF HubInv
<1>2. HubInv /\ [Socket!Next]_Socket!vars => HubInv'
  BY HubStep
<1>3. HubInv => Socket!TypeOK /\ Socket!StreamHasNoGap
  <2> SUFFICES ASSUME HubInv PROVE Socket!TypeOK /\ Socket!StreamHasNoGap
    OBVIOUS
  <2>1. Socket!TypeOK
    BY DEF HubInv, HubTypes, Socket!TypeOK, HubConstants
  <2>2. failed = Socket!Range(items) \cap Garbled
    BY DEF HubInv, HubTypes, ItemsAreARun, Among, Socket!Range
  <2>3. ASSUME NEW k \in DOMAIN items
        PROVE  LET earlier == {items[j] : j \in 1..k - 1}
               IN  /\ Socket!Matches(items[k]) /\ items[k] \in joined + 1..published
                   /\ items[k] \notin earlier
                   /\ {n \in joined + 1..items[k] - 1 : Socket!Matches(n)} = earlier
    <3>1. /\ k \in 1..Len(items) /\ Len(items) \in Nat /\ joined \in Nat /\ published \in Nat
          /\ \A j \in 1..Len(items) : items[j] \in Nat
      BY DEF HubInv, HubTypes
    <3>2. ItemInPlace(k) /\ \A j \in 1..k - 1 : ItemInPlace(j) /\ items[j] \in Nat
      BY <3>1 DEF HubInv, ItemsAreARun
    <3>3. \A j \in 1..k - 1 : items[j] # items[k] /\ items[j] \in joined + 1..items[k] - 1
      BY <3>1, <3>2 DEF ItemInPlace
    <3>4. QED
      BY <3>1, <3>2, <3>3 DEF ItemInPlace, Among, Socket!Matches
  <2>4. QED
    BY <2>1, <2>2, <2>3 DEF Socket!StreamHasNoGap
<1>4. QED
  BY <1>1, <1>2, <1>3, PTL DEF Socket!Spec

-----------------------------------------------------------------------------

(* A subscriber misses only what it is told it misses. While a subscription
   with a cursor is up, a message whose publish returned is delivered,
   queued, lagged or past the limit of the backfill; a client that resumes
   from its greatest id lacks only that and what was not sent when a greater
   id got its row; a message comes twice only if its row was there before the
   backfill query and its fan-out after the live receiver; and what was
   received is stored. (Module Broker.)  A socket of the hub sees an
   unbroken run of the matching messages, a garbled one as an error, or is
   closed. (Module Hub.)                                                   *)
DeliveryIsAccounted ==
    /\ Pubsub!TypeOK
    /\ Pubsub!ConnectedMissesNothing /\ Pubsub!ResumeSkipsOnlyOvertaken
    /\ Pubsub!TwiceOnlyInTheWindow /\ Pubsub!ReceivedIsPersisted
    /\ Socket!TypeOK /\ Socket!StreamHasNoGap

\* Both live paths together, for every capacity, page limit and buffer, any
\* number of publishers and subscribers, every predicate and every frame that
\* cannot be decoded.
THEOREM DeliveryAccounted ==
  ASSUME BrokerConstants, HubConstants
  PROVE  Pubsub!Spec /\ Socket!Spec => []DeliveryIsAccounted
<1>1. /\ Pubsub!TypeOK
      /\ Pubsub!ConnectedMissesNothing /\ Pubsub!ResumeSkipsOnlyOvertaken
      /\ Pubsub!TwiceOnlyInTheWindow /\ Pubsub!ReceivedIsPersisted
      /\ Socket!TypeOK /\ Socket!StreamHasNoGap
      => DeliveryIsAccounted
  BY DEF DeliveryIsAccounted
<1>2. QED
  BY <1>1, TopicsAreAccounted, StreamsHaveNoGap, PTL
=============================================================================
