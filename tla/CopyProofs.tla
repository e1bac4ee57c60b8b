----------------------------- MODULE CopyProofs -----------------------------
(***************************************************************************)
(* Theorems about the components that copy data from one place to another, *)
(* replicated events, incremental backups and the exported file, and about *)
(* those that keep it: blob stores and contract schemas.  They hold for    *)
(* any number of devices, processes and importers, any events, writes and  *)
(* blobs, and any bounds.                                                  *)
(***************************************************************************)
EXTENDS Naturals, Sequences, FiniteSets, FiniteSetTheorems, TLAPS

---------------------------------------------------------------------------
(* Replication.                                                            *)

CONSTANTS Devices, ActorOf, Source, Rank(_), Defects, PageSize, MaxStamp, MaxRows, MaxBatches

VARIABLES store, clock, intake, batches, winner, unobserved, reader

Peers == INSTANCE Replication

EventRows == [actor : Nat, stamp : 1..MaxStamp, text : Devices]

\* Actors are numbers, and so are the places of content hashes; a reader that
\* has no cursor yet is at place 0.
PeerConstants ==
  /\ Source \in Devices /\ ActorOf \in [Devices -> Nat]
  /\ MaxStamp \in Nat \ {0} /\ PageSize \in Nat
  /\ \A ev \in EventRows : Rank(ev) \in Nat \ {0}

Letters == [ev : EventRows, defect : Defects]

Intakes == [todo : Seq(Letters), seen : 0..MaxStamp,
            taken : SUBSET EventRows, clocked : BOOLEAN, open : BOOLEAN]

Readers == [how : {"none", "hlc", "id"}, cursor : Nat, got : SUBSET EventRows, excused : SUBSET EventRows]

\* What the rows of the stores have to satisfy.
StoreInv ==
  /\ store \in [Devices -> SUBSET EventRows]
  /\ \A d \in Devices : IsFiniteSet(store[d])
  /\ Peers!RowsAreAuthentic

\* A store shows the last row it holds, or nothing when it is empty.
WinnerIsLast ==
  \A d \in Devices :
    /\ winner[d] \in store[d] \/ (store[d] = {} /\ winner[d] = Peers!None)
    /\ \A ev \in store[d] : ~Peers!Resolve(ev, winner[d])

WinnerInv == winner \in [Devices -> EventRows \cup {Peers!None}] /\ WinnerIsLast

ReaderInv ==
  /\ reader \in Readers /\ reader.got \cup reader.excused \subseteq store[Source]
  /\ reader.how = "none" => reader.cursor = 0
  /\ Peers!PagesCover

\* A message is made from a row its author holds.
MessagesAreMade ==
  \A d \in Devices : \A n \in DOMAIN intake[d].todo :
    LET ev == intake[d].todo[n].ev IN ev \in store[ev.text] /\ ev.actor = ActorOf[ev.text]

\* The highest stamp of a batch covers what was taken from it.
BatchIsSeen ==
  \A d \in Devices : \A ev \in intake[d].taken : ev \in store[d] /\ ev.stamp <= intake[d].seen

IntakeInv == intake \in [Devices -> Intakes] /\ MessagesAreMade /\ BatchIsSeen

ClockInv ==
  /\ clock \in [Devices -> 0..MaxStamp]
  /\ unobserved \in [Devices -> SUBSET EventRows]
  /\ \A d \in Devices : unobserved[d] \subseteq store[d]
  /\ Peers!ClockCoversRows

PeerInv == StoreInv /\ WinnerInv /\ ReaderInv /\ IntakeInv /\ ClockInv

LEMMA PeerCardinality == \A S : Peers!Cardinality(S) = Cardinality(S)
BY DEF Peers!Cardinality, Cardinality

\* The stamp, then the actor, order the rows.
LEMMA ResolveOrders ==
  ASSUME NEW a \in EventRows, NEW b \in EventRows \cup {Peers!None},
         NEW c \in EventRows \cup {Peers!None}
  PROVE  /\ ~Peers!Resolve(a, a)
         /\ Peers!Resolve(a, Peers!None)
         /\ Peers!Resolve(a, b) /\ Peers!Resolve(c, a) => Peers!Resolve(c, b)
         /\ ~Peers!Resolve(b, c) /\ Peers!Resolve(a, c) => Peers!Resolve(a, b)
<1>1. /\ a.stamp \in Nat /\ a.stamp > 0 /\ a.actor \in Nat
      /\ Peers!None.stamp = 0 /\ Peers!None.actor = 0
  BY DEF EventRows, Peers!None
<1>2. b.stamp \in Nat /\ b.actor \in Nat /\ c.stamp \in Nat /\ c.actor \in Nat
  BY <1>1 DEF EventRows
<1>3. QED
  BY <1>1, <1>2 DEF Peers!Resolve

\* Where the cursor of a page order stands.
LEMMA KeysAreNumbers ==
  ASSUME PeerConstants, NEW how, NEW ev \in EventRows
  PROVE  Peers!KeyOf(how, ev) \in Nat \ {0}
BY DEF PeerConstants, Peers!KeyOf, EventRows

---------------------------------------------------------------------------
\* A row that comes to a store keeps what is said of rows, winner and reader.
LEMMA ArriveKeeps ==
  ASSUME PeerConstants, StoreInv, WinnerInv, ReaderInv, NEW d \in Devices, NEW ev \in EventRows,
         Peers!Arrive(d, ev), ev.actor = ActorOf[ev.text], ev.text = d \/ ev \in store[ev.text]
  PROVE  StoreInv' /\ WinnerInv' /\ ReaderInv'
<1>1. /\ store' = [store EXCEPT ![d] = @ \cup {ev}] /\ store \in [Devices -> SUBSET EventRows]
      /\ \A e \in Devices : store'[e] = IF e = d THEN store[d] \cup {ev} ELSE store[e]
      /\ \A e \in Devices : store[e] \subseteq store'[e]
  BY DEF StoreInv, Peers!Arrive
<1>2. StoreInv'
  <2>1. \A e \in Devices : IsFiniteSet(store'[e])
    BY <1>1, FS_AddElement DEF StoreInv
  <2>2. Peers!RowsAreAuthentic'
    <3>1. SUFFICES ASSUME NEW e \in Devices, NEW x \in store'[e]
                   PROVE  x \in store'[x.text] /\ x.actor = ActorOf[x.text]
      BY DEF Peers!RowsAreAuthentic, Peers!Written
    <3>2. CASE x = ev
      BY <1>1, <3>2 DEF EventRows
    <3>3. CASE x # ev
      <4>1. x \in store[e] /\ x \in EventRows
        BY <1>1, <3>1, <3>3
      <4>2. x \in store[x.text] /\ x.actor = ActorOf[x.text]
        BY <4>1 DEF StoreInv, Peers!RowsAreAuthentic, Peers!Written
      <4>3. QED
        BY <1>1, <4>1, <4>2 DEF EventRows
    <3>4. QED
      BY <3>2, <3>3
  <2>3. QED
    BY <1>1, <2>1, <2>2 DEF StoreInv
<1>3. WinnerInv'
  <2>1. winner' = [winner EXCEPT ![d] = IF ev \notin store[d] /\ Peers!Resolve(ev, @) THEN ev ELSE @]
    BY DEF Peers!Arrive
  <2>2. winner' \in [Devices -> EventRows \cup {Peers!None}]
    BY <2>1 DEF WinnerInv
  <2>3. ASSUME NEW e \in Devices
        PROVE  /\ winner'[e] \in store'[e] \/ (store'[e] = {} /\ winner'[e] = Peers!None)
               /\ \A x \in store'[e] : ~Peers!Resolve(x, winner'[e])
    <3>1. /\ winner[e] \in store[e] \/ (store[e] = {} /\ winner[e] = Peers!None)
          /\ \A x \in store[e] : ~Peers!Resolve(x, winner[e])
          /\ winner[e] \in EventRows \cup {Peers!None} /\ store[e] \subseteq EventRows
      BY <1>1 DEF WinnerInv, WinnerIsLast
    <3>2. CASE e # d \/ ev \in store[d]
      BY <1>1, <2>1, <3>1, <3>2 DEF WinnerInv
    <3>3. CASE e = d /\ ev \notin store[d] /\ Peers!Resolve(ev, winner[d])
      <4>1. winner'[d] = ev /\ store'[d] = store[d] \cup {ev}
        BY <1>1, <2>1, <3>3 DEF WinnerInv
      <4>2. ASSUME NEW x \in store[d] PROVE ~Peers!Resolve(x, ev)
        <5>1. x \in EventRows /\ ~Peers!Resolve(x, winner[d]) /\ winner[d] \in EventRows \cup {Peers!None}
          BY <3>1, <3>3, <4>2
        <5>2. QED
          BY <3>3, <5>1, ResolveOrders
      <4>3. QED
        BY <3>3, <4>1, <4>2, ResolveOrders
    <3>4. CASE e = d /\ ev \notin store[d] /\ ~Peers!Resolve(ev, winner[d])
      <4>1. winner'[d] = winner[d] /\ store'[d] = store[d] \cup {ev}
        BY <1>1, <2>1, <3>4 DEF WinnerInv
      <4>2. winner[d] # Peers!None
        BY <3>4, ResolveOrders
      <4>3. QED
        BY <3>1, <3>4, <4>1, <4>2
    <3>5. QED
      BY <3>2, <3>3, <3>4
  <2>4. QED
    BY <2>2, <2>3 DEF WinnerInv, WinnerIsLast
<1>4. ReaderInv'
  <2>1. CASE reader' = reader /\ (d # Source \/ ev \in store[d] \/ reader.how = "none"
                                   \/ ~(Peers!KeyOf(reader.how, ev) <= reader.cursor))
    <3>1. reader'.got \cup reader'.excused \subseteq store'[Source]
      BY <1>1, <2>1 DEF ReaderInv, PeerConstants
    <3>2. Peers!PagesCover'
      <4>1. SUFFICES ASSUME reader.how # "none", NEW x \in store'[Source],
                            Peers!KeyOf(reader.how, x) <= reader.cursor
                     PROVE  x \in reader.got \cup reader.excused
        BY <2>1 DEF Peers!PagesCover, Peers!KeyOf
      <4>2. x \in store[Source]
        BY <1>1, <2>1, <4>1 DEF PeerConstants
      <4>3. QED
        BY <4>1, <4>2 DEF ReaderInv, Peers!PagesCover
    <3>3. QED
      BY <2>1, <3>1, <3>2 DEF ReaderInv
  <2>2. CASE /\ d = Source /\ ev \notin store[d] /\ reader.how # "none"
             /\ Peers!KeyOf(reader.how, ev) <= reader.cursor
             /\ reader' = [reader EXCEPT !.excused = @ \cup {ev}]
    <3>1. /\ reader'.how = reader.how /\ reader'.cursor = reader.cursor
          /\ reader'.got = reader.got /\ reader'.excused = reader.excused \cup {ev}
          /\ reader' \in Readers
      BY <2>2 DEF ReaderInv, Readers
    <3>2. reader'.got \cup reader'.excused \subseteq store'[Source]
      BY <1>1, <2>2, <3>1 DEF ReaderInv, PeerConstants
    <3>3. Peers!PagesCover'
      <4>1. SUFFICES ASSUME NEW x \in store'[Source], Peers!KeyOf(reader.how, x) <= reader.cursor
                     PROVE  x \in reader.got \cup reader.excused \cup {ev}
        BY <3>1 DEF Peers!PagesCover, Peers!KeyOf
      <4>2. x = ev \/ x \in store[Source]
        BY <1>1, <2>2, <4>1 DEF PeerConstants
      <4>3. QED
        BY <2>2, <4>1, <4>2 DEF ReaderInv, Peers!PagesCover
    <3>4. QED
      BY <3>1, <3>2, <3>3 DEF ReaderInv
  <2>3. QED
    BY <2>1, <2>2 DEF Peers!Arrive, Peers!Passed
<1>5. QED
  BY <1>2, <1>3, <1>4


\* Rows stay where they are.
Grows == \A e \in Devices : store[e] \subseteq store'[e]

LEMMA ArriveGrows ==
  ASSUME StoreInv, NEW d \in Devices, NEW ev, Peers!Arrive(d, ev)
  PROVE  Grows /\ \A e \in Devices : store'[e] = IF e = d THEN store[d] \cup {ev} ELSE store[e]
BY DEF StoreInv, Peers!Arrive, Grows

\* One device's batch changes, and rows may have come.
LEMMA IntakeChanges ==
  ASSUME IntakeInv, Grows, NEW d \in Devices, NEW rec \in Intakes,
         intake' = [intake EXCEPT ![d] = rec],
         \A n \in DOMAIN rec.todo :
            LET ev == rec.todo[n].ev IN ev \in store[ev.text] /\ ev.actor = ActorOf[ev.text],
         \A ev \in rec.taken : ev \in store'[d] /\ ev.stamp <= rec.seen
  PROVE  IntakeInv'
<1>1. /\ intake' \in [Devices -> Intakes]
      /\ \A e \in Devices : intake'[e] = IF e = d THEN rec ELSE intake[e]
  BY DEF IntakeInv
<1>2. MessagesAreMade'
  <2>1. SUFFICES ASSUME NEW e \in Devices, NEW n \in DOMAIN intake'[e].todo
                 PROVE  LET ev == intake'[e].todo[n].ev IN ev \in store'[ev.text] /\ ev.actor = ActorOf[ev.text]
    BY DEF MessagesAreMade
  <2> DEFINE ev == intake'[e].todo[n].ev
  <2>2. ev \in store[ev.text] /\ ev.actor = ActorOf[ev.text]
    BY <1>1, <2>1 DEF IntakeInv, MessagesAreMade
  <2>3. ev.text \in Devices
    <3>1. intake'[e].todo \in Seq(Letters)
      BY <1>1, <2>1 DEF Intakes
    <3>2. intake'[e].todo[n] \in Letters
      BY <2>1, <3>1
    <3>3. QED
      BY <3>2 DEF Letters, EventRows
  <2>4. QED
    BY <2>2, <2>3 DEF Grows
<1>3. BatchIsSeen'
  BY <1>1 DEF IntakeInv, BatchIsSeen, Grows
<1>4. QED
  BY <1>1, <1>2, <1>3 DEF IntakeInv

LEMMA IntakeStays ==
  ASSUME IntakeInv, Grows, intake' = intake
  PROVE  IntakeInv'
<1>1. MessagesAreMade'
  <2>1. SUFFICES ASSUME NEW e \in Devices, NEW n \in DOMAIN intake[e].todo
                 PROVE  LET ev == intake[e].todo[n].ev IN ev \in store'[ev.text] /\ ev.actor = ActorOf[ev.text]
    BY DEF MessagesAreMade
  <2> DEFINE ev == intake[e].todo[n].ev
  <2>2. ev \in store[ev.text] /\ ev.actor = ActorOf[ev.text]
    BY <2>1 DEF IntakeInv, MessagesAreMade
  <2>3. ev.text \in Devices
    <3>1. intake[e].todo \in Seq(Letters)
      BY <2>1 DEF IntakeInv, Intakes
    <3>2. intake[e].todo[n] \in Letters
      BY <2>1, <3>1
    <3>3. QED
      BY <3>2 DEF Letters, EventRows
  <2>4. QED
    BY <2>2, <2>3 DEF Grows
<1>2. BatchIsSeen'
  BY DEF IntakeInv, BatchIsSeen, Grows
<1>3. QED
  BY <1>1, <1>2 DEF IntakeInv

LEMMA NoBatchFits ==
  ASSUME PeerConstants
  PROVE  Peers!NoBatch \in Intakes /\ Peers!NoBatch.todo = <<>> /\ Peers!NoBatch.taken = {}
<1>1. <<>> \in Seq(Letters) /\ 0 \in 0..MaxStamp
  BY DEF PeerConstants
<1>2. QED
  BY <1>1 DEF Peers!NoBatch, Intakes

---------------------------------------------------------------------------
LEMMA WriteKeeps ==
  ASSUME PeerConstants, PeerInv, NEW d \in Devices, Peers!Write(d)
  PROVE  PeerInv'
<1> DEFINE ev == [actor |-> ActorOf[d], stamp |-> clock[d] + 1, text |-> d]
<1>1. /\ ev \in EventRows /\ ev.actor = ActorOf[d] /\ ev.text = d /\ ev.stamp = clock[d] + 1
      /\ clock[d] \in 0..MaxStamp /\ clock[d] < MaxStamp
  BY DEF PeerConstants, PeerInv, ClockInv, Peers!Write, EventRows
<1>2. /\ Peers!Arrive(d, ev) /\ intake' = intake /\ unobserved' = unobserved
      /\ clock' = [clock EXCEPT ![d] = @ + 1]
  BY DEF Peers!Write
<1> HIDE DEF ev
<1>3. StoreInv' /\ WinnerInv' /\ ReaderInv'
  BY <1>1, <1>2, ArriveKeeps DEF PeerInv
<1>4. Grows /\ \A e \in Devices : store'[e] = IF e = d THEN store[d] \cup {ev} ELSE store[e]
  BY <1>2, ArriveGrows DEF PeerInv
<1>5. IntakeInv'
  BY <1>2, <1>4, IntakeStays DEF PeerInv
<1>6. ClockInv'
  <2>1. /\ clock' \in [Devices -> 0..MaxStamp]
        /\ \A e \in Devices : clock'[e] = IF e = d THEN clock[d] + 1 ELSE clock[e]
    BY <1>1, <1>2 DEF PeerInv, ClockInv, PeerConstants
  <2>2. ASSUME NEW e \in Devices, NEW x \in store'[e]
        PROVE  x.stamp <= clock'[e] \/ x \in unobserved[e]
    <3>1. CASE e = d /\ x = ev
      BY <1>1, <2>1, <3>1
    <3>2. CASE x \in store[e]
      <4>1. x \in EventRows /\ clock[e] \in Nat
        BY <3>2 DEF PeerInv, StoreInv, ClockInv, PeerConstants
      <4>2. x.stamp \in Nat /\ (x.stamp <= clock[e] \/ x \in unobserved[e])
        BY <3>2, <4>1 DEF PeerInv, ClockInv, Peers!ClockCoversRows, EventRows
      <4>3. QED
        BY <2>1, <4>1, <4>2
    <3>3. QED
      BY <1>4, <2>2, <3>1, <3>2
  <2>3. \A e \in Devices : unobserved'[e] \subseteq store'[e]
    BY <1>2, <1>4 DEF PeerInv, ClockInv, Grows
  <2>4. QED
    BY <1>2, <2>1, <2>2, <2>3 DEF PeerInv, ClockInv, Peers!ClockCoversRows
<1>7. QED
  BY <1>3, <1>5, <1>6 DEF PeerInv

\* What a step leaves alone when no row comes.
LEMMA RowsUnchanged ==
  ASSUME PeerInv, UNCHANGED <<store, winner, reader>>
  PROVE  StoreInv' /\ WinnerInv' /\ ReaderInv' /\ Grows
<1>1. StoreInv' /\ Grows
  BY DEF PeerInv, StoreInv, Grows, Peers!RowsAreAuthentic, Peers!Written
<1>2. WinnerInv'
  BY DEF PeerInv, WinnerInv, WinnerIsLast, Peers!Resolve
<1>3. ReaderInv'
  BY DEF PeerInv, ReaderInv, Peers!PagesCover, Peers!KeyOf
<1>4. QED
  BY <1>1, <1>2, <1>3

LEMMA ReceiveKeeps ==
  ASSUME PeerConstants, PeerInv, NEW d \in Devices, NEW a \in Peers!Messages(d),
         NEW b \in Peers!Messages(d), NEW clocked \in BOOLEAN, Peers!Receive(d, <<a, b>>, clocked)
  PROVE  PeerInv'
<1>1. StoreInv' /\ WinnerInv' /\ ReaderInv' /\ Grows
  BY RowsUnchanged DEF Peers!Receive
<1>2. ClockInv'
  BY DEF PeerInv, ClockInv, Peers!ClockCoversRows, Peers!Receive
<1>3. ASSUME NEW m \in Peers!Messages(d)
      PROVE  /\ m \in Letters
             /\ m.ev \in store[m.ev.text] /\ m.ev.actor = ActorOf[m.ev.text]
  <2> DEFINE Rows == UNION {store[e] : e \in Devices \ {d}}
  <2>1. Rows \subseteq EventRows /\ Rows \subseteq Peers!Written
    BY DEF PeerInv, StoreInv, Peers!Written
  <2>2. m \in [ev : Rows, defect : Defects]
    BY <1>3 DEF Peers!Messages
  <2> HIDE DEF Rows
  <2>3. m \in Letters /\ m.ev \in Peers!Written
    BY <2>1, <2>2 DEF Letters
  <2>4. QED
    BY <2>3 DEF PeerInv, StoreInv, Peers!RowsAreAuthentic
<1> DEFINE rec == [todo |-> <<a, b>>, seen |-> 0, taken |-> {}, clocked |-> clocked, open |-> TRUE]
<1>4. /\ rec.todo = <<a, b>> /\ rec.taken = {} /\ rec \in Intakes
  <2>1. <<a, b>> \in Seq(Letters) /\ 0 \in 0..MaxStamp
    BY <1>3 DEF PeerConstants
  <2>2. QED
    BY <2>1 DEF Intakes
<1>5. intake' = [intake EXCEPT ![d] = rec]
  BY DEF Peers!Receive
<1> HIDE DEF rec
<1>6. \A n \in DOMAIN rec.todo :
         LET ev == rec.todo[n].ev IN ev \in store[ev.text] /\ ev.actor = ActorOf[ev.text]
  <2>1. \A n \in DOMAIN rec.todo : rec.todo[n] \in Peers!Messages(d)
    BY <1>4
  <2>2. QED
    BY <1>3, <2>1
<1>7. IntakeInv'
  BY <1>1, <1>4, <1>5, <1>6, IntakeChanges DEF PeerInv
<1>8. QED
  BY <1>1, <1>2, <1>7 DEF PeerInv

LEMMA ObserveKeeps ==
  ASSUME PeerConstants, PeerInv, NEW d \in Devices, Peers!Observe(d) \/ Peers!CutShort(d)
  PROVE  PeerInv'
<1>1. StoreInv' /\ WinnerInv' /\ ReaderInv' /\ Grows
  BY RowsUnchanged DEF Peers!Observe, Peers!CutShort
<1>2. IntakeInv'
  BY <1>1, NoBatchFits, IntakeChanges DEF PeerInv, Peers!Observe, Peers!CutShort
<1>3. CASE Peers!CutShort(d)
  BY <1>1, <1>2, <1>3 DEF PeerInv, ClockInv, Peers!ClockCoversRows, Peers!CutShort
<1>4. CASE Peers!Observe(d)
  <2>1. /\ store' = store
        /\ clock' = [clock EXCEPT ![d] =
              IF intake[d].clocked /\ intake[d].seen > @ THEN intake[d].seen ELSE @]
        /\ unobserved' = [unobserved EXCEPT ![d] =
              IF intake[d].clocked THEN @ \ intake[d].taken ELSE @]
    BY <1>4 DEF Peers!Observe
  <2>2. /\ intake[d].seen \in 0..MaxStamp /\ clock \in [Devices -> 0..MaxStamp]
        /\ unobserved \in [Devices -> SUBSET EventRows] /\ store \in [Devices -> SUBSET EventRows]
    BY DEF PeerInv, IntakeInv, Intakes, ClockInv, StoreInv
  <2>3. ASSUME NEW e \in Devices, NEW x \in store[e]
        PROVE  x.stamp <= clock'[e] \/ x \in unobserved'[e]
    <3>1. x.stamp \in Nat /\ (x.stamp <= clock[e] \/ x \in unobserved[e])
      BY <2>2, <2>3 DEF PeerInv, ClockInv, Peers!ClockCoversRows, EventRows
    <3>2. CASE e = d /\ intake[d].clocked
      <4>1. /\ unobserved'[d] = unobserved[d] \ intake[d].taken
            /\ clock'[d] = IF intake[d].seen > clock[d] THEN intake[d].seen ELSE clock[d]
        BY <2>1, <2>2, <3>2
      <4>2. x \in intake[d].taken => x.stamp <= intake[d].seen
        BY DEF PeerInv, IntakeInv, BatchIsSeen
      <4>3. clock[d] \in Nat /\ intake[d].seen \in Nat
        BY <2>2 DEF PeerConstants
      <4>4. QED
        BY <3>1, <3>2, <4>1, <4>2, <4>3
    <3>3. CASE ~(e = d /\ intake[d].clocked)
      <4>1. unobserved'[e] = unobserved[e] /\ clock'[e] = clock[e]
        BY <2>1, <2>2, <3>3
      <4>2. QED
        BY <3>1, <4>1
    <3>4. QED
      BY <3>2, <3>3
  <2>4. /\ clock' \in [Devices -> 0..MaxStamp] /\ unobserved' \in [Devices -> SUBSET EventRows]
        /\ \A e \in Devices : unobserved'[e] \subseteq store'[e]
    BY <2>1, <2>2 DEF PeerInv, ClockInv
  <2>5. ClockInv'
    BY <2>1, <2>3, <2>4 DEF ClockInv, Peers!ClockCoversRows
  <2>6. QED
    BY <1>1, <1>2, <2>5 DEF PeerInv
<1>5. QED
  BY <1>3, <1>4


\* One message of a batch: skipped, refused or taken.
LEMMA IngestKeeps ==
  ASSUME PeerConstants, PeerInv, NEW d \in Devices, Peers!IngestRow(d)
  PROVE  PeerInv'
<1> DEFINE m == Head(intake[d].todo)
           clocked == intake[d].clocked
           ev == Peers!Content(d, m, clocked)
           taken == ~Peers!Rejected(d, m, clocked)
           rec == [intake[d] EXCEPT !.todo = Tail(@),
                     !.seen = IF taken /\ Peers!Tracked(d, m) /\ ev.stamp > @ THEN ev.stamp ELSE @,
                     !.taken = IF taken THEN @ \cup {ev} ELSE @]
<1>1. /\ intake[d].todo # <<>> /\ intake' = [intake EXCEPT ![d] = rec] /\ clock' = clock
      /\ IF taken
         THEN /\ Peers!Arrive(d, ev)
              /\ unobserved' = [unobserved EXCEPT ![d] = @ \cup ({ev} \ store[d])]
         ELSE UNCHANGED <<store, winner, reader, unobserved>>
  BY DEF Peers!IngestRow, PeerInv, IntakeInv, Intakes
<1>2. /\ intake[d] \in Intakes /\ intake[d].todo \in Seq(Letters) /\ intake[d].seen \in 0..MaxStamp
      /\ intake[d].taken \subseteq EventRows
  BY DEF PeerInv, IntakeInv, Intakes
<1>3. /\ m \in Letters /\ m = intake[d].todo[1] /\ 1 \in DOMAIN intake[d].todo
      /\ Tail(intake[d].todo) \in Seq(Letters)
      /\ \A n \in DOMAIN Tail(intake[d].todo) :
            n + 1 \in DOMAIN intake[d].todo /\ Tail(intake[d].todo)[n] = intake[d].todo[n + 1]
  BY <1>1, <1>2
<1>4. /\ m.ev \in EventRows /\ m.ev \in store[m.ev.text] /\ m.ev.actor = ActorOf[m.ev.text]
      /\ m.ev.stamp \in 1..MaxStamp
  BY <1>3 DEF Letters, PeerInv, IntakeInv, MessagesAreMade, EventRows
<1>5. taken => ev = m.ev
  BY DEF Peers!Rejected, Peers!IdMatches
<1>6. \A ma : Peers!Tracked(d, ma)
  BY DEF Peers!Tracked
<1> HIDE DEF m, ev, taken
<1>7. /\ rec.todo = Tail(intake[d].todo)
      /\ rec.seen = IF taken /\ ev.stamp > intake[d].seen THEN ev.stamp ELSE intake[d].seen
      /\ rec.taken = IF taken THEN intake[d].taken \cup {ev} ELSE intake[d].taken
      /\ rec \in Intakes
  <2>1. /\ rec.todo = Tail(intake[d].todo)
        /\ rec.seen = IF taken /\ ev.stamp > intake[d].seen THEN ev.stamp ELSE intake[d].seen
        /\ rec.taken = IF taken THEN intake[d].taken \cup {ev} ELSE intake[d].taken
    BY <1>2, <1>6 DEF Intakes
  <2>2. rec.todo \in Seq(Letters) /\ rec.seen \in 0..MaxStamp /\ rec.taken \in SUBSET EventRows
    BY <1>2, <1>3, <1>4, <1>5, <2>1
  <2>3. QED
    BY <1>2, <2>1, <2>2 DEF Intakes
<1> HIDE DEF rec
<1>8. \A n \in DOMAIN rec.todo :
         LET x == rec.todo[n].ev IN x \in store[x.text] /\ x.actor = ActorOf[x.text]
  BY <1>3, <1>7 DEF PeerInv, IntakeInv, MessagesAreMade
<1>9. CASE taken
  <2>1. StoreInv' /\ WinnerInv' /\ ReaderInv'
    BY <1>1, <1>4, <1>5, <1>9, ArriveKeeps DEF PeerInv
  <2>2. Grows /\ \A e \in Devices : store'[e] = IF e = d THEN store[d] \cup {ev} ELSE store[e]
    BY <1>1, <1>9, ArriveGrows DEF PeerInv
  <2>3. \A x \in rec.taken : x \in store'[d] /\ x.stamp <= rec.seen
    <3>1. SUFFICES ASSUME NEW x \in rec.taken PROVE x \in store'[d] /\ x.stamp <= rec.seen
      OBVIOUS
    <3>2. /\ rec.seen = IF ev.stamp > intake[d].seen THEN ev.stamp ELSE intake[d].seen
          /\ x = ev \/ x \in intake[d].taken
          /\ ev.stamp \in Nat /\ intake[d].seen \in Nat
      BY <1>2, <1>4, <1>5, <1>7, <1>9, <3>1 DEF PeerConstants
    <3>3. CASE x = ev
      BY <2>2, <3>2, <3>3
    <3>4. CASE x \in intake[d].taken
      <4>1. x \in store[d] /\ x.stamp <= intake[d].seen /\ x.stamp \in Nat
        BY <1>2, <3>4 DEF PeerInv, IntakeInv, BatchIsSeen, EventRows
      <4>2. QED
        BY <2>2, <3>2, <4>1
    <3>5. QED
      BY <3>2, <3>3, <3>4
  <2>4. IntakeInv'
    BY <1>1, <1>7, <1>8, <2>2, <2>3, IntakeChanges DEF PeerInv
  <2>5. ClockInv'
    <3>1. /\ unobserved' = [unobserved EXCEPT ![d] = @ \cup ({ev} \ store[d])]
          /\ unobserved \in [Devices -> SUBSET EventRows] /\ ev \in EventRows
      BY <1>1, <1>4, <1>5, <1>9 DEF PeerInv, ClockInv
    <3>2. \A e \in Devices : unobserved'[e] =
              IF e = d THEN unobserved[d] \cup ({ev} \ store[d]) ELSE unobserved[e]
      BY <3>1
    <3>3. unobserved' \in [Devices -> SUBSET EventRows]
      BY <3>1
    <3>4. \A e \in Devices : unobserved'[e] \subseteq store'[e]
      BY <2>2, <3>2 DEF PeerInv, ClockInv
    <3>5. \A e \in Devices : \A x \in store'[e] : x.stamp <= clock[e] \/ x \in unobserved'[e]
      BY <2>2, <3>2 DEF PeerInv, ClockInv, Peers!ClockCoversRows
    <3>6. QED
      BY <1>1, <3>3, <3>4, <3>5 DEF PeerInv, ClockInv, Peers!ClockCoversRows
  <2>6. QED
    BY <2>1, <2>4, <2>5 DEF PeerInv
<1>10. CASE ~taken
  <2>1. StoreInv' /\ WinnerInv' /\ ReaderInv' /\ Grows
    BY <1>1, <1>10, RowsUnchanged
  <2>2. \A x \in rec.taken : x \in store'[d] /\ x.stamp <= rec.seen
    BY <1>7, <1>10, <2>1 DEF PeerInv, IntakeInv, BatchIsSeen, Grows
  <2>3. IntakeInv'
    BY <1>1, <1>7, <1>8, <2>1, <2>2, IntakeChanges DEF PeerInv
  <2>4. ClockInv'
    BY <1>1, <1>10 DEF PeerInv, ClockInv, Peers!ClockCoversRows
  <2>5. QED
    BY <2>1, <2>3, <2>4 DEF PeerInv
<1>11. QED
  BY <1>9, <1>10

---------------------------------------------------------------------------
\* The page order is total and transitive.
LEMMA BeforeOrders ==
  ASSUME PeerConstants, NEW how, NEW a \in EventRows, NEW b \in EventRows, NEW c \in EventRows
  PROVE  /\ Peers!KeyOf(how, a) < Peers!KeyOf(how, b) => Peers!Before(how, a, b)
         /\ Peers!Before(how, a, b) => Peers!KeyOf(how, a) <= Peers!KeyOf(how, b)
         /\ Peers!Before(how, a, b) /\ Peers!Before(how, b, c) => Peers!Before(how, a, c)
<1>1. /\ Peers!KeyOf(how, a) \in Nat /\ Peers!KeyOf(how, b) \in Nat /\ Peers!KeyOf(how, c) \in Nat
      /\ Rank(a) \in Nat /\ Rank(b) \in Nat /\ Rank(c) \in Nat
  BY KeysAreNumbers DEF PeerConstants
<1>2. QED
  BY <1>1 DEF Peers!Before

\* A page leaves out nothing that comes before a row of it.
LEMMA PageIsClosed ==
  ASSUME PeerConstants, NEW how, NEW S, S \subseteq EventRows, IsFiniteSet(S),
         NEW last \in Peers!FirstOf(how, S), NEW ev \in S,
         Peers!KeyOf(how, ev) < Peers!KeyOf(how, last)
  PROVE  ev \in Peers!FirstOf(how, S)
<1> DEFINE Upto(x) == {y \in S : Peers!Before(how, y, x)}
<1>1. last \in S /\ Cardinality(Upto(last)) <= PageSize
  BY PeerCardinality DEF Peers!FirstOf
<1>2. Upto(ev) \subseteq Upto(last)
  BY <1>1, BeforeOrders
<1>3. IsFiniteSet(Upto(last))
  BY FS_Subset
<1>4. /\ Cardinality(Upto(ev)) <= Cardinality(Upto(last))
      /\ Cardinality(Upto(ev)) \in Nat /\ Cardinality(Upto(last)) \in Nat
  <2> HIDE DEF Upto
  <2>1. IsFiniteSet(Upto(ev))
    BY <1>2, <1>3, FS_Subset
  <2> QED
    BY <1>2, <1>3, <2>1, FS_Subset, FS_CardinalityType
<1>5. Cardinality(Upto(ev)) <= PageSize
  <2> HIDE DEF Upto
  <2> QED
    BY <1>1, <1>4 DEF PeerConstants
<1>6. QED
  BY <1>5, PeerCardinality DEF Peers!FirstOf

LEMMA PageKeeps ==
  ASSUME PeerConstants, PeerInv, NEW how \in {"hlc", "id"}, Peers!ReadPage(how),
         UNCHANGED <<store, clock, intake, batches, winner, unobserved>>
  PROVE  PeerInv'
<1> DEFINE S == Peers!Above(how, reader.cursor)
           page == Peers!FirstOf(how, S)
<1>1. PICK last \in page :
        /\ Peers!IsLast(how, page, last)
        /\ reader' = [how |-> how, cursor |-> Peers!KeyOf(how, last), got |-> reader.got \cup page,
              excused |-> reader.excused
                  \cup {ev \in store[Source] \ page : Peers!KeyOf(how, ev) = Peers!KeyOf(how, last)}]
  BY DEF Peers!ReadPage
<1>2. /\ S \subseteq store[Source] /\ page \subseteq S /\ store[Source] \subseteq EventRows
      /\ IsFiniteSet(store[Source]) /\ reader.how \in {"none", how}
  BY DEF PeerInv, StoreInv, PeerConstants, Peers!Above, Peers!FirstOf, Peers!ReadPage
<1>3. IsFiniteSet(S)
  BY <1>2, FS_Subset
<1>4. StoreInv' /\ WinnerInv' /\ ClockInv' /\ IntakeInv'
  <2>1. StoreInv' /\ Grows
    BY DEF PeerInv, StoreInv, Grows, Peers!RowsAreAuthentic, Peers!Written
  <2>2. WinnerInv'
    BY DEF PeerInv, WinnerInv, WinnerIsLast, Peers!Resolve
  <2>3. ClockInv'
    BY DEF PeerInv, ClockInv, Peers!ClockCoversRows
  <2>4. QED
    BY <2>1, <2>2, <2>3, IntakeStays DEF PeerInv
<1>5. ReaderInv'
  <2> DEFINE ties == {ev \in store[Source] \ page : Peers!KeyOf(how, ev) = Peers!KeyOf(how, last)}
  <2>1. /\ last \in EventRows /\ ties \subseteq store[Source] /\ page \subseteq store[Source]
        /\ Peers!KeyOf(how, last) \in Nat
    BY <1>1, <1>2, KeysAreNumbers
  <2>2. /\ reader'.how = how /\ reader'.cursor = Peers!KeyOf(how, last)
        /\ reader'.got = reader.got \cup page /\ reader'.excused = reader.excused \cup ties
    BY <1>1
  <2>3. ASSUME NEW ev \in store[Source], Peers!KeyOf(how, ev) <= Peers!KeyOf(how, last)
        PROVE  ev \in reader.got \cup page \cup reader.excused \cup ties
    <3>1. ev \in EventRows /\ Peers!KeyOf(how, ev) \in Nat /\ reader.cursor \in Nat
      BY <1>2, <2>3, KeysAreNumbers DEF PeerInv, ReaderInv, Readers
    <3>2. CASE Peers!KeyOf(how, ev) = Peers!KeyOf(how, last)
      BY <2>3, <3>2
    <3>3. CASE ev \in S /\ Peers!KeyOf(how, ev) < Peers!KeyOf(how, last)
      BY <1>1, <1>2, <1>3, <3>3, PageIsClosed
    <3>4. CASE ev \notin S
      <4>1. Peers!KeyOf(how, ev) <= reader.cursor
        BY <2>3, <3>1, <3>4 DEF Peers!Above
      <4>2. CASE reader.how = how
        BY <2>3, <4>1, <4>2 DEF PeerInv, ReaderInv, Peers!PagesCover
      <4>3. reader.how # "none"
        BY <3>1, <4>1, KeysAreNumbers DEF PeerInv, ReaderInv
      <4>4. QED
        BY <1>2, <4>2, <4>3
    <3>5. QED
      BY <2>1, <2>3, <3>1, <3>2, <3>3, <3>4
  <2> HIDE DEF ties, page
  <2>4. Peers!PagesCover'
    <3>1. SUFFICES ASSUME NEW ev \in store[Source], Peers!KeyOf(how, ev) <= Peers!KeyOf(how, last)
                   PROVE  ev \in (reader.got \cup page) \cup (reader.excused \cup ties)
      BY <2>2 DEF Peers!PagesCover, Peers!KeyOf
    <3>2. QED
      BY <2>3, <3>1
  <2>5. reader' \in Readers
    BY <1>1, <1>2, <2>1 DEF PeerInv, ReaderInv, Readers
  <2>6. QED
    BY <2>1, <2>2, <2>4, <2>5 DEF PeerInv, ReaderInv
<1>6. QED
  BY <1>4, <1>5 DEF PeerInv

---------------------------------------------------------------------------
LEMMA PeerInit == ASSUME PeerConstants, Peers!Init PROVE PeerInv
<1>1. StoreInv
  BY FS_EmptySet DEF Peers!Init, StoreInv, Peers!RowsAreAuthentic, Peers!Written
<1>2. WinnerInv
  BY DEF Peers!Init, WinnerInv, WinnerIsLast
<1>3. ReaderInv
  BY DEF Peers!Init, ReaderInv, Readers, Peers!PagesCover, PeerConstants
<1>4. IntakeInv
  BY NoBatchFits DEF Peers!Init, IntakeInv, MessagesAreMade, BatchIsSeen
<1>5. ClockInv
  BY DEF Peers!Init, ClockInv, Peers!ClockCoversRows, PeerConstants
<1>6. QED
  BY <1>1, <1>2, <1>3, <1>4, <1>5 DEF PeerInv

LEMMA PeerStep ==
  ASSUME PeerConstants, PeerInv, [Peers!Next]_(Peers!vars)
  PROVE  PeerInv'
<1>1. CASE UNCHANGED Peers!vars
  <2>1. StoreInv' /\ WinnerInv' /\ ReaderInv' /\ Grows
    BY <1>1, RowsUnchanged DEF Peers!vars
  <2>2. IntakeInv'
    BY <1>1, <2>1, IntakeStays DEF PeerInv, Peers!vars
  <2>3. ClockInv'
    BY <1>1 DEF PeerInv, ClockInv, Peers!ClockCoversRows, Peers!vars
  <2>4. QED
    BY <2>1, <2>2, <2>3 DEF PeerInv
<1>2. ASSUME NEW d \in Devices,
             Peers!Write(d) \/ Peers!IngestRow(d) \/ Peers!Observe(d) \/ Peers!CutShort(d)
      PROVE  PeerInv'
  BY <1>2, WriteKeeps, IngestKeeps, ObserveKeeps
<1>3. ASSUME NEW d \in Devices, NEW a \in Peers!Messages(d), NEW b \in Peers!Messages(d),
             NEW clocked \in BOOLEAN, Peers!Receive(d, <<a, b>>, clocked)
      PROVE  PeerInv'
  BY <1>3, ReceiveKeeps
<1>4. CASE Peers!EventsSince \/ Peers!SyncSince
  BY <1>4, PageKeeps DEF Peers!EventsSince, Peers!SyncSince
<1>5. QED
  BY <1>1, <1>2, <1>3, <1>4 DEF Peers!Next

\* What the runs check of replication.
PeersAgree ==
  /\ Peers!TypeOK /\ Peers!RowsAreAuthentic /\ Peers!ClockCoversRows
  /\ Peers!SameRowsSameWinner /\ Peers!PagesCover

LEMMA PeerImplies == ASSUME PeerConstants, PeerInv PROVE PeersAgree
<1>1. Peers!TypeOK
  BY DEF PeerInv, StoreInv, ClockInv, ReaderInv, Peers!TypeOK, Peers!Written, EventRows
<1>2. Peers!SameRowsSameWinner
  <2>1. SUFFICES ASSUME NEW d \in Devices, NEW e \in Devices, store[d] = store[e]
                 PROVE  winner[d].stamp = winner[e].stamp /\ winner[d].actor = winner[e].actor
    BY DEF Peers!SameRowsSameWinner
  <2>2. CASE store[d] = {}
    BY <2>1, <2>2 DEF PeerInv, WinnerInv, WinnerIsLast
  <2>3. CASE store[d] # {}
    <3>1. /\ winner[d] \in store[d] /\ winner[e] \in store[d] /\ store[d] \subseteq EventRows
          /\ ~Peers!Resolve(winner[d], winner[e]) /\ ~Peers!Resolve(winner[e], winner[d])
      BY <2>1, <2>3 DEF PeerInv, WinnerInv, WinnerIsLast, StoreInv
    <3>2. /\ winner[d].stamp \in Nat /\ winner[e].stamp \in Nat
          /\ winner[d].actor \in Nat /\ winner[e].actor \in Nat
      BY <3>1 DEF EventRows
    <3>3. QED
      BY <3>1, <3>2 DEF Peers!Resolve
  <2>4. QED
    BY <2>2, <2>3
<1>3. QED
  BY <1>1, <1>2 DEF PeerInv, StoreInv, ClockInv, ReaderInv, PeersAgree

(* Replicas agree: for any devices, messages, hashes and page size, a row is
   what its author wrote, the clock covers every row but those of batches it
   never saw, the same rows show the same winner in whatever order they came,
   and a peer that pages has everything behind its cursor.                 *)
THEOREM ReplicasAgree ==
  ASSUME PeerConstants
  PROVE  Peers!Spec => []PeersAgree
<1>1. Peers!Init => PeerInv
  BY PeerInit
<1>2. PeerInv /\ [Peers!Next]_(Peers!vars) => PeerInv'
  BY PeerStep
<1>3. PeerInv => PeersAgree
  BY PeerImplies
<1>4. QED
  BY <1>1, <1>2, <1>3, PTL DEF Peers!Spec

---------------------------------------------------------------------------
(* Export and import.                                                      *)

CONSTANTS Events, Sessions, Importers, MaxLive, MaxId

VARIABLES file, known, carryTarget, imp, live, mixed, raced

Carry == INSTANCE Transfer WITH target <- carryTarget

\* The source's events have ids of their own, below those of the target's.
CarryConstants ==
  /\ Carry!NoSession \notin Sessions /\ MaxLive \in Nat /\ MaxId \in Nat
  /\ Events \subseteq [id : 1..MaxId, session : Sessions \cup {Carry!NoSession}, parent : Nat, secret : BOOLEAN]
  /\ \A e, f \in Events : e.id = f.id => e = f

Lines == {Carry!RowToJson(e) : e \in Events}

\* An event the target's own agents have written.
IsOwn(e) ==
  /\ e.id \in Nat /\ e.id > MaxId /\ e.session \in Sessions
  /\ e.parent = 0 /\ e.secret = FALSE /\ e.payload = e.hash

\* Both references of the foreign keys are there.
Refers(e) ==
  /\ e.session \in known \cup {Carry!NoSession}
  /\ e.parent # 0 => Carry!Present(e.parent)

TargetInv ==
  /\ known \subseteq Sessions /\ live \in 0..MaxLive /\ file \subseteq Lines
  /\ \A e \in carryTarget : e \in Lines \/ IsOwn(e)
  /\ \A e \in carryTarget : Refers(e)

Imports == [pc : {"idle", "check", "insert", "done", "refused", "failed"}, records : SUBSET Lines,
            sessions : SUBSET Sessions, left : SUBSET Lines]

\* What an importer is past is in the target.
PastIsThere(c) ==
  /\ c.left \subseteq c.records
  /\ c.pc \in {"insert", "done"} => \A r \in c.records \ c.left : Carry!Present(r.id) /\ Refers(r)
  /\ c.pc = "check" => c.left = c.records
  /\ c.pc = "done" => c.left = {}

\* A session the check is past has events of the target's own only since then.
CheckedIsApart(c) ==
  c.pc \in {"check", "insert"} =>
    /\ \A r \in c.records : r.session \in c.sessions \/ (Carry!OwnEvents(r.session) => r.session \in raced)
    /\ c.pc = "insert" => c.sessions = {}

ImportInv ==
  /\ imp \in [Importers -> Imports]
  /\ \A i \in Importers : PastIsThere(imp[i]) /\ CheckedIsApart(imp[i])

CarryInv == TargetInv /\ ImportInv /\ mixed \subseteq raced

LEMMA LineFacts ==
  ASSUME CarryConstants, NEW r \in Lines
  PROVE  /\ r.id \in Nat /\ ~(r.id > MaxId) /\ r.session \in Sessions \cup {Carry!NoSession}
         /\ r.secret <=> r.payload # r.hash
         /\ \A q \in Lines : q.id = r.id => q = r
<1>1. PICK e \in Events : r = Carry!RowToJson(e)
  BY DEF Lines
<1>2. /\ e.id \in 1..MaxId /\ e.session \in Sessions \cup {Carry!NoSession} /\ e.secret \in BOOLEAN
      /\ e.id # 0
  BY DEF CarryConstants
<1>3. /\ r.id = e.id /\ r.session = e.session /\ r.secret = e.secret /\ r.hash = e.id
      /\ r.payload = IF e.secret THEN 0 ELSE e.id
  BY <1>1 DEF Carry!RowToJson
<1>4. r.secret <=> r.payload # r.hash
  BY <1>2, <1>3, Zenon
<1>5. ASSUME NEW q \in Lines, q.id = r.id PROVE q = r
  <2>1. PICK f \in Events : q = Carry!RowToJson(f)
    BY DEF Lines
  <2>2. f.id = e.id
    BY <1>3, <1>5, <2>1 DEF Carry!RowToJson
  <2>3. QED
    BY <1>1, <2>1, <2>2 DEF CarryConstants
<1>6. r.id \in Nat /\ ~(r.id > MaxId)
  BY <1>2, <1>3 DEF CarryConstants
<1>7. r.session \in Sessions \cup {Carry!NoSession}
  BY <1>2, <1>3
<1>8. QED
  BY <1>4, <1>5, <1>6, <1>7

\* Own events are in a session of the target, and no line is one.
LEMMA OwnFacts ==
  ASSUME CarryConstants, TargetInv, NEW s
  PROVE  Carry!OwnEvents(s) <=> \E e \in carryTarget : e.session = s /\ IsOwn(e)
BY LineFacts DEF TargetInv, Carry!OwnEvents, IsOwn

\* Nothing leaves the target, and no session is closed.
TargetGrows == carryTarget \subseteq carryTarget' /\ known \subseteq known'

LEMMA RefersStays ==
  ASSUME TargetGrows, NEW r
  PROVE  /\ Refers(r) => Refers(r)'
         /\ Carry!Present(r.id) => Carry!Present(r.id)'
BY DEF TargetGrows, Refers, Carry!Present

\* Importers that do not move keep what is said of them.
LEMMA OthersStay ==
  ASSUME TargetGrows, raced \subseteq raced', NEW c, PastIsThere(c), CheckedIsApart(c),
         \A r \in c.records : c.pc \in {"check", "insert"} /\ Carry!OwnEvents(r.session)'
                                 => Carry!OwnEvents(r.session) \/ r.session \in raced'
  PROVE  PastIsThere(c)' /\ CheckedIsApart(c)'
<1>1. PastIsThere(c)'
  BY RefersStays DEF PastIsThere
<1>2. CheckedIsApart(c)'
  BY DEF CheckedIsApart
<1>3. QED
  BY <1>1, <1>2

\* One importer moves.
LEMMA ImportMoves ==
  ASSUME ImportInv, TargetGrows, raced \subseteq raced', NEW i \in Importers, NEW c \in Imports,
         imp' = [imp EXCEPT ![i] = c], PastIsThere(c)', CheckedIsApart(c)',
         \A s : Carry!OwnEvents(s)' => Carry!OwnEvents(s)
  PROVE  ImportInv'
<1>1. /\ imp' \in [Importers -> Imports]
      /\ \A j \in Importers : imp'[j] = IF j = i THEN c ELSE imp[j]
  BY DEF ImportInv
<1>2. ASSUME NEW j \in Importers, NEW b, b = imp'[j] PROVE PastIsThere(b)' /\ CheckedIsApart(b)'
  <2>1. CASE j = i
    BY <1>1, <1>2, <2>1
  <2>2. CASE j # i
    <3>1. PastIsThere(b) /\ CheckedIsApart(b)
      BY <1>1, <1>2, <2>2 DEF ImportInv
    <3>2. QED
      BY <3>1, OthersStay
  <2>3. QED
    BY <2>1, <2>2
<1>3. \A j \in Importers : PastIsThere(imp[j])' /\ CheckedIsApart(imp[j])'
  BY <1>2 DEF PastIsThere, CheckedIsApart
<1>4. QED
  BY <1>1, <1>3 DEF ImportInv

LEMMA ImportStays ==
  ASSUME ImportInv, TargetGrows, raced \subseteq raced', imp' = imp,
         \A i \in Importers : \A r \in imp[i].records :
            imp[i].pc \in {"check", "insert"} /\ Carry!OwnEvents(r.session)'
               => Carry!OwnEvents(r.session) \/ r.session \in raced'
  PROVE  ImportInv'
<1>1. ASSUME NEW j \in Importers, NEW b, b = imp[j] PROVE PastIsThere(b)' /\ CheckedIsApart(b)'
  <2>1. PastIsThere(b) /\ CheckedIsApart(b)
    BY <1>1 DEF ImportInv
  <2>2. QED
    BY <1>1, <2>1, OthersStay
<1>2. \A j \in Importers : PastIsThere(imp[j])' /\ CheckedIsApart(imp[j])'
  BY <1>1 DEF PastIsThere, CheckedIsApart
<1>3. QED
  BY <1>2 DEF ImportInv

\* An importer that is at rest has nothing to answer for.
LEMMA AtRest ==
  ASSUME NEW p \in {"idle", "refused", "failed"}, NEW c, c = [Carry!Idle EXCEPT !.pc = p]
  PROVE  c \in Imports /\ PastIsThere(c)' /\ CheckedIsApart(c)'
<1>1. c \in Imports /\ c.pc = p /\ c.left = {} /\ c.records = {}
  BY DEF Carry!Idle, Imports
<1>2. QED
  BY <1>1 DEF PastIsThere, CheckedIsApart

\* Steps that leave the rows of the target alone.
LEMMA TargetStays ==
  ASSUME TargetInv, UNCHANGED <<known, carryTarget, live, file>>
  PROVE  /\ TargetInv' /\ TargetGrows
         /\ \A s : Carry!OwnEvents(s)' = Carry!OwnEvents(s)
         /\ \A r : Refers(r)' = Refers(r)
         /\ \A r : Carry!Present(r.id)' = Carry!Present(r.id)
BY DEF TargetInv, TargetGrows, Carry!OwnEvents, Refers, IsOwn, Carry!Present

---------------------------------------------------------------------------
LEMMA ExportKeeps ==
  ASSUME CarryConstants, CarryInv, NEW S, Carry!RunExport(S)
  PROVE  CarryInv'
<1>1. file' \subseteq Lines
  BY DEF Carry!RunExport, Lines
<1>2. TargetInv' /\ TargetGrows /\ \A s : Carry!OwnEvents(s)' = Carry!OwnEvents(s)
  BY <1>1 DEF CarryInv, TargetInv, TargetGrows, Carry!OwnEvents, Refers, IsOwn, Carry!Present, Carry!RunExport
<1>3. ImportInv'
  BY <1>2, ImportStays DEF CarryInv, Carry!RunExport
<1>4. QED
  BY <1>2, <1>3 DEF CarryInv, Carry!RunExport

LEMMA OpenKeeps ==
  ASSUME CarryConstants, CarryInv, NEW t \in Sessions, Carry!OpenSession(t)
  PROVE  CarryInv'
<1>1. TargetInv' /\ TargetGrows /\ \A s : Carry!OwnEvents(s)' = Carry!OwnEvents(s)
  BY DEF CarryInv, TargetInv, TargetGrows, Carry!OwnEvents, Refers, IsOwn, Carry!Present, Carry!OpenSession
<1>2. ImportInv'
  BY <1>1, ImportStays DEF CarryInv, Carry!OpenSession
<1>3. QED
  BY <1>1, <1>2 DEF CarryInv, Carry!OpenSession

LEMMA LiveKeeps ==
  ASSUME CarryConstants, CarryInv, NEW t \in Sessions, Carry!LiveAppend(t)
  PROVE  CarryInv'
<1> DEFINE row == [id |-> MaxId + live', session |-> t, parent |-> 0, secret |-> FALSE,
                   payload |-> MaxId + live', hash |-> MaxId + live']
<1>1. /\ t \in known /\ live' = live + 1 /\ live < MaxLive /\ carryTarget' = carryTarget \cup {row}
      /\ raced' = IF Carry!Importing(t) THEN raced \cup {t} ELSE raced
      /\ file' = file /\ known' = known /\ imp' = imp /\ mixed' = mixed
  BY DEF Carry!LiveAppend
<1>2. live \in 0..MaxLive /\ MaxLive \in Nat /\ MaxId \in Nat
  BY DEF CarryInv, TargetInv, CarryConstants
<1>3. row.session = t /\ row.parent = 0 /\ IsOwn(row)
  <2>1. MaxId + live' \in Nat /\ MaxId + live' > MaxId
    BY <1>1, <1>2
  <2>2. QED
    BY <2>1 DEF IsOwn
<1> HIDE DEF row
<1>4. TargetGrows /\ raced \subseteq raced'
  BY <1>1 DEF TargetGrows
<1>5. TargetInv'
  <2>1. \A e \in carryTarget' : e \in Lines \/ IsOwn(e)
    BY <1>1, <1>3 DEF CarryInv, TargetInv
  <2>2. \A e \in carryTarget' : Refers(e)'
    BY <1>1, <1>3, <1>4, RefersStays DEF CarryInv, TargetInv, Refers
  <2>3. live' \in 0..MaxLive
    BY <1>1, <1>2
  <2>4. QED
    BY <1>1, <2>1, <2>2, <2>3 DEF CarryInv, TargetInv, IsOwn
<1>6. ASSUME NEW i \in Importers, NEW r \in imp[i].records, imp[i].pc \in {"check", "insert"},
             Carry!OwnEvents(r.session)'
      PROVE  Carry!OwnEvents(r.session) \/ r.session \in raced'
  <2>1. r.session = t \/ Carry!OwnEvents(r.session)
    BY <1>1, <1>3, <1>6 DEF Carry!OwnEvents
  <2>2. r.session = t => Carry!Importing(t)
    BY <1>6 DEF Carry!Importing
  <2>3. QED
    BY <1>1, <2>1, <2>2
<1>7. ImportInv'
  BY <1>1, <1>4, <1>6, ImportStays DEF CarryInv
<1>8. QED
  BY <1>1, <1>4, <1>5, <1>7 DEF CarryInv

LEMMA ReadKeeps ==
  ASSUME CarryConstants, CarryInv, NEW i \in Importers, Carry!ReadRecords(i) \/ Carry!Kill(i)
  PROVE  CarryInv'
<1>1. /\ TargetInv' /\ TargetGrows /\ raced' = raced /\ mixed' = mixed
      /\ \A s : Carry!OwnEvents(s)' = Carry!OwnEvents(s)
  BY TargetStays DEF CarryInv, Carry!ReadRecords, Carry!Kill
<1>2. PICK c \in Imports : imp' = [imp EXCEPT ![i] = c] /\ PastIsThere(c)' /\ CheckedIsApart(c)'
  <2>1. CASE Carry!Kill(i)
    <3>1. Carry!Idle = [Carry!Idle EXCEPT !.pc = "idle"]
      BY DEF Carry!Idle
    <3>2. Carry!Idle \in Imports /\ PastIsThere(Carry!Idle)' /\ CheckedIsApart(Carry!Idle)'
      BY <3>1, AtRest
    <3>3. QED
      BY <2>1, <3>2 DEF Carry!Kill
  <2>2. CASE Carry!ReadRecords(i)
    <3> DEFINE c == [pc |-> "check", records |-> file, left |-> file,
                     sessions |-> {r.session : r \in file} \ {Carry!NoSession}]
    <3>1. file \subseteq Lines
      BY DEF CarryInv, TargetInv
    <3>2. c.sessions \subseteq Sessions
      BY <3>1, LineFacts
    <3>3. c \in Imports
      BY <3>1, <3>2 DEF Imports
    <3>4. PastIsThere(c)'
      BY DEF PastIsThere
    <3>5. \A r \in file : r.session \in c.sessions \/ ~Carry!OwnEvents(r.session)
      <4>1. ~Carry!OwnEvents(Carry!NoSession)
        BY OwnFacts DEF CarryInv, IsOwn, CarryConstants
      <4>2. QED
        BY <4>1
    <3>6. CheckedIsApart(c)'
      BY <1>1, <3>5, <2>2 DEF CheckedIsApart, Carry!ReadRecords
    <3>7. QED
      BY <2>2, <3>3, <3>4, <3>6 DEF Carry!ReadRecords
  <2>3. QED
    BY <2>1, <2>2
<1>3. ImportInv'
  BY <1>1, <1>2, ImportMoves DEF CarryInv
<1>4. QED
  BY <1>1, <1>3 DEF CarryInv

LEMMA CheckKeeps ==
  ASSUME CarryConstants, CarryInv, NEW i \in Importers, Carry!CheckSession(i)
  PROVE  CarryInv'
<1>1. /\ TargetInv' /\ TargetGrows /\ raced' = raced /\ mixed' = mixed
      /\ \A s : Carry!OwnEvents(s)' = Carry!OwnEvents(s)
  BY TargetStays DEF CarryInv, Carry!CheckSession
<1>2. imp[i].pc = "check" /\ imp[i] \in Imports /\ PastIsThere(imp[i]) /\ CheckedIsApart(imp[i])
  BY DEF CarryInv, ImportInv, Carry!CheckSession
<1>3. PICK c \in Imports : imp' = [imp EXCEPT ![i] = c] /\ PastIsThere(c)' /\ CheckedIsApart(c)'
  <2>1. ASSUME imp[i].sessions = {}, imp' = [imp EXCEPT ![i].pc = "insert"]
        PROVE  \E c \in Imports : imp' = [imp EXCEPT ![i] = c] /\ PastIsThere(c)' /\ CheckedIsApart(c)'
    <3> DEFINE c == [imp[i] EXCEPT !.pc = "insert"]
    <3>1. /\ c \in Imports /\ c.pc = "insert" /\ c.left = imp[i].left
          /\ c.records = imp[i].records /\ c.sessions = imp[i].sessions
      BY <1>2 DEF Imports
    <3>2. imp' = [imp EXCEPT ![i] = c]
      BY <2>1
    <3> HIDE DEF c
    <3>3. \A b : b = c => PastIsThere(b)' /\ CheckedIsApart(b)'
      BY <1>1, <1>2, <2>1, <3>1 DEF PastIsThere, CheckedIsApart
    <3>4. PICK b : b = c
      OBVIOUS
    <3>5. b \in Imports /\ imp' = [imp EXCEPT ![i] = b] /\ PastIsThere(b)' /\ CheckedIsApart(b)'
      BY <3>1, <3>2, <3>3, <3>4
    <3>6. QED
      BY <3>5
  <2>2. ASSUME NEW s \in imp[i].sessions, Carry!HasEvents(s),
               imp' = [imp EXCEPT ![i] = [Carry!Idle EXCEPT !.pc = "refused"]]
        PROVE  \E c \in Imports : imp' = [imp EXCEPT ![i] = c] /\ PastIsThere(c)' /\ CheckedIsApart(c)'
    BY <2>2, AtRest
  <2>3. ASSUME NEW s \in imp[i].sessions, ~Carry!HasEvents(s),
               imp' = [imp EXCEPT ![i].sessions = @ \ {s}]
        PROVE  \E c \in Imports : imp' = [imp EXCEPT ![i] = c] /\ PastIsThere(c)' /\ CheckedIsApart(c)'
    <3> DEFINE c == [imp[i] EXCEPT !.sessions = @ \ {s}]
    <3>1. /\ c \in Imports /\ c.pc = "check" /\ c.left = imp[i].left
          /\ c.records = imp[i].records /\ c.sessions = imp[i].sessions \ {s}
      BY <1>2 DEF Imports
    <3>2. imp' = [imp EXCEPT ![i] = c]
      BY <2>3
    <3> HIDE DEF c
    <3>3. ~Carry!OwnEvents(s)
      BY <2>3 DEF Carry!HasEvents, Carry!OwnEvents
    <3>4. \A b : b = c => PastIsThere(b)' /\ CheckedIsApart(b)'
      BY <1>1, <1>2, <3>1, <3>3 DEF PastIsThere, CheckedIsApart
    <3>5. PICK b : b = c
      OBVIOUS
    <3>6. b \in Imports /\ imp' = [imp EXCEPT ![i] = b] /\ PastIsThere(b)' /\ CheckedIsApart(b)'
      BY <3>1, <3>2, <3>4, <3>5
    <3>7. QED
      BY <3>6
  <2>4. CASE imp[i].sessions = {} /\ imp' = [imp EXCEPT ![i].pc = "insert"]
    BY <2>1, <2>4
  <2>5. CASE \E s \in imp[i].sessions :
          imp' = IF Carry!HasEvents(s) THEN [imp EXCEPT ![i] = [Carry!Idle EXCEPT !.pc = "refused"]]
                 ELSE [imp EXCEPT ![i].sessions = @ \ {s}]
    <3>1. PICK s \in imp[i].sessions :
            imp' = IF Carry!HasEvents(s) THEN [imp EXCEPT ![i] = [Carry!Idle EXCEPT !.pc = "refused"]]
                   ELSE [imp EXCEPT ![i].sessions = @ \ {s}]
      BY <2>5
    <3>2. CASE Carry!HasEvents(s)
      <4>1. imp' = [imp EXCEPT ![i] = [Carry!Idle EXCEPT !.pc = "refused"]]
        BY <3>1, <3>2
      <4>2. QED
        BY <2>2, <3>2, <4>1
    <3>3. CASE ~Carry!HasEvents(s)
      <4>1. imp' = [imp EXCEPT ![i].sessions = @ \ {s}]
        BY <3>1, <3>3
      <4>2. QED
        BY <2>3, <3>3, <4>1
    <3>4. QED
      BY <3>2, <3>3
  <2>6. QED
    BY <2>4, <2>5 DEF Carry!CheckSession
<1>4. ImportInv'
  BY <1>1, <1>3, ImportMoves DEF CarryInv
<1>5. QED
  BY <1>1, <1>4 DEF CarryInv

LEMMA InsertKeeps ==
  ASSUME CarryConstants, CarryInv, NEW i \in Importers, Carry!InsertRecord(i)
  PROVE  CarryInv'
<1>1. /\ imp[i].pc = "insert" /\ imp[i] \in Imports /\ PastIsThere(imp[i]) /\ CheckedIsApart(imp[i])
      /\ raced' = raced /\ file' = file /\ known' = known /\ live' = live
  BY DEF CarryInv, ImportInv, Carry!InsertRecord
<1>2. CASE imp[i].left = {} /\ imp' = [imp EXCEPT ![i].pc = "done"] /\ UNCHANGED <<carryTarget, mixed>>
  <2>1. TargetInv' /\ TargetGrows /\ \A s : Carry!OwnEvents(s)' = Carry!OwnEvents(s)
    BY <1>1, <1>2, TargetStays DEF CarryInv
  <2>2. PICK c : c = [imp[i] EXCEPT !.pc = "done"]
    OBVIOUS
  <2>3. c \in Imports /\ c.pc = "done" /\ c.left = imp[i].left /\ c.records = imp[i].records
    BY <1>1, <2>2 DEF Imports
  <2>4. imp' = [imp EXCEPT ![i] = c]
    BY <1>2, <2>2
  <2>5. PastIsThere(c)
    BY <1>1, <1>2, <2>3 DEF PastIsThere
  <2>6. PastIsThere(c)' /\ CheckedIsApart(c)'
    BY <2>1, <2>3, <2>5, RefersStays DEF PastIsThere, CheckedIsApart
  <2>7. ImportInv'
    BY <1>1, <2>1, <2>3, <2>4, <2>6, ImportMoves DEF CarryInv
  <2>8. QED
    BY <1>1, <1>2, <2>1, <2>7 DEF CarryInv
<1>3. ASSUME NEW r \in imp[i].left, Carry!Present(r.id) \/ Carry!Admits(r),
             carryTarget' = (IF Carry!Present(r.id) THEN carryTarget ELSE carryTarget \cup {r}),
             imp' = [imp EXCEPT ![i].left = @ \ {r}],
             mixed' = (IF Carry!Present(r.id) \/ ~Carry!OwnEvents(r.session) THEN mixed
                       ELSE mixed \cup {r.session})
      PROVE  CarryInv'
  <2>1. r \in Lines /\ r \in imp[i].records
    BY <1>1, <1>3 DEF Imports, PastIsThere
  <2>2. Refers(r)
    <3>1. CASE Carry!Present(r.id)
      <4>1. PICK e \in carryTarget : e.id = r.id
        BY <3>1 DEF Carry!Present
      <4>2. e \in Lines
        BY <2>1, <4>1, LineFacts DEF CarryInv, TargetInv, IsOwn
      <4>3. e = r
        BY <2>1, <4>1, <4>2, LineFacts
      <4>4. QED
        BY <4>3 DEF CarryInv, TargetInv
    <3>2. CASE Carry!Admits(r)
      BY <3>2 DEF Carry!Admits, Refers
    <3>3. QED
      BY <1>3, <3>1, <3>2
  <2>3. TargetGrows /\ Carry!Present(r.id)' /\ \A e \in carryTarget' : e \in carryTarget \/ e = r
    BY <1>1, <1>3 DEF TargetGrows, Carry!Present
  <2>4. TargetInv'
    <3>1. \A e \in carryTarget' : Refers(e)'
      BY <2>2, <2>3, RefersStays DEF CarryInv, TargetInv
    <3>2. \A e \in carryTarget' : e \in Lines \/ IsOwn(e)
      BY <2>1, <2>3 DEF CarryInv, TargetInv
    <3>3. QED
      BY <1>1, <3>1, <3>2 DEF CarryInv, TargetInv, IsOwn
  <2>5. \A s : Carry!OwnEvents(s)' => Carry!OwnEvents(s)
    BY <2>1, <2>3, LineFacts DEF Carry!OwnEvents
  <2>6. PICK c : c = [imp[i] EXCEPT !.left = @ \ {r}]
    OBVIOUS
  <2>7. /\ c \in Imports /\ c.pc = "insert" /\ c.left = imp[i].left \ {r}
        /\ c.records = imp[i].records /\ c.sessions = imp[i].sessions
    BY <1>1, <2>6 DEF Imports
  <2>8. imp' = [imp EXCEPT ![i] = c]
    BY <1>3, <2>6
  <2>9. PastIsThere(c)'
    <3>1. \A q \in c.records \ c.left : Carry!Present(q.id)' /\ Refers(q)'
      BY <1>1, <2>2, <2>3, <2>7, RefersStays DEF PastIsThere
    <3>2. QED
      BY <1>1, <2>7, <3>1 DEF PastIsThere
  <2>10. CheckedIsApart(c)'
    BY <1>1, <2>5, <2>7 DEF CheckedIsApart
  <2>11. ImportInv'
    BY <1>1, <2>3, <2>5, <2>7, <2>8, <2>9, <2>10, ImportMoves DEF CarryInv
  <2>12. mixed' \subseteq raced'
    <3>1. Carry!OwnEvents(r.session) => r.session \in raced
      BY <1>1, <2>1 DEF CheckedIsApart
    <3>2. QED
      BY <1>1, <1>3, <3>1 DEF CarryInv
  <2>13. QED
    BY <2>4, <2>11, <2>12 DEF CarryInv
<1>4. CASE imp' = [imp EXCEPT ![i] = [Carry!Idle EXCEPT !.pc = "failed"]] /\ UNCHANGED <<carryTarget, mixed>>
  <2>1. TargetInv' /\ TargetGrows /\ \A s : Carry!OwnEvents(s)' = Carry!OwnEvents(s)
    BY <1>1, <1>4, TargetStays DEF CarryInv
  <2>2. PICK c : c = [Carry!Idle EXCEPT !.pc = "failed"]
    OBVIOUS
  <2>3. c \in Imports /\ PastIsThere(c)' /\ CheckedIsApart(c)'
    BY <2>2, AtRest
  <2>4. ImportInv'
    BY <1>1, <1>4, <2>1, <2>2, <2>3, ImportMoves DEF CarryInv
  <2>5. QED
    BY <1>1, <1>4, <2>1, <2>4 DEF CarryInv
<1>5. CASE \E r \in imp[i].left :
             /\ Carry!IsNext(i, r)
             /\ IF Carry!Present(r.id) \/ Carry!Admits(r)
                THEN /\ carryTarget' = IF Carry!Present(r.id) THEN carryTarget ELSE carryTarget \cup {r}
                     /\ imp' = [imp EXCEPT ![i].left = @ \ {r}]
                     /\ mixed' = IF Carry!Present(r.id) \/ ~Carry!OwnEvents(r.session) THEN mixed
                                 ELSE mixed \cup {r.session}
                ELSE /\ imp' = [imp EXCEPT ![i] = [Carry!Idle EXCEPT !.pc = "failed"]]
                     /\ UNCHANGED <<carryTarget, mixed>>
  BY <1>3, <1>4, <1>5
<1>6. QED
  BY <1>2, <1>5 DEF Carry!InsertRecord

\* What the runs check of export and import.
ImportsAreExact ==
  /\ Carry!TypeOK /\ Carry!DoneIsComplete /\ Carry!RedactionShows /\ Carry!SessionsAreNotMixed

LEMMA CarryImplies == ASSUME CarryConstants, CarryInv PROVE ImportsAreExact
<1>1. Carry!TypeOK
  BY DEF CarryInv, TargetInv, ImportInv, PastIsThere, Carry!TypeOK
<1>2. Carry!DoneIsComplete
  BY DEF CarryInv, ImportInv, PastIsThere, Refers, Carry!DoneIsComplete
<1>3. Carry!RedactionShows
  <2>1. SUFFICES ASSUME NEW e \in carryTarget PROVE e.secret <=> e.payload # e.hash
    BY DEF Carry!RedactionShows
  <2>2. CASE e \in Lines
    BY <2>2, LineFacts
  <2>3. CASE IsOwn(e)
    BY <2>3 DEF IsOwn
  <2>4. QED
    BY <2>2, <2>3 DEF CarryInv, TargetInv
<1>4. QED
  BY <1>1, <1>2, <1>3 DEF CarryInv, Carry!SessionsAreNotMixed, ImportsAreExact

LEMMA CarryStep ==
  ASSUME CarryConstants, CarryInv, [Carry!Next]_(Carry!vars)
  PROVE  CarryInv'
<1>1. CASE UNCHANGED Carry!vars
  <2>1. TargetInv' /\ TargetGrows /\ \A s : Carry!OwnEvents(s)' = Carry!OwnEvents(s)
    BY <1>1, TargetStays DEF CarryInv, Carry!vars
  <2>2. ImportInv'
    BY <1>1, <2>1, ImportStays DEF CarryInv, Carry!vars
  <2>3. QED
    BY <1>1, <2>1, <2>2 DEF CarryInv, Carry!vars
<1>2. QED
  BY <1>1, ExportKeeps, OpenKeeps, LiveKeeps, ReadKeeps, CheckKeeps, InsertKeeps DEF Carry!Next

LEMMA CarryInit == ASSUME CarryConstants, Carry!Init PROVE CarryInv
<1>1. TargetInv /\ mixed \subseteq raced
  BY DEF Carry!Init, TargetInv, CarryConstants
<1>2. Carry!Idle \in Imports /\ Carry!Idle.pc = "idle" /\ Carry!Idle.left = {}
  BY DEF Carry!Idle, Imports
<1>3. ImportInv
  BY <1>2 DEF Carry!Init, ImportInv, PastIsThere, CheckedIsApart
<1>4. QED
  BY <1>1, <1>3 DEF CarryInv

(* An import that reports success is complete: for any events, sessions and
   importers, beside the target's own agents, every line of the file is in
   the target with its references, a changed payload shows, and no import
   adds to a session the target's agents had written to before it began.   *)
THEOREM ImportIsComplete ==
  ASSUME CarryConstants
  PROVE  Carry!Spec => []ImportsAreExact
<1>1. Carry!Init => CarryInv
  BY CarryInit
<1>2. CarryInv /\ [Carry!Next]_(Carry!vars) => CarryInv'
  BY CarryStep
<1>3. CarryInv => ImportsAreExact
  BY CarryImplies
<1>4. QED
  BY <1>1, <1>2, <1>3, PTL DEF Carry!Spec

---------------------------------------------------------------------------
(* Incremental backups.                                                    *)

CONSTANTS Writes, Runs, MaxLsn

VARIABLES main, wal, committed, files, manifest, run, lost, promised, overlap, target

Vault == INSTANCE Backup

VaultConstants == MaxLsn \in Nat

\* A run holds what it has read of the log, or of the main file.
Captures == {"truncate", "number", "file", "list"}

RunStates == [pc : {"idle", "flush", "lsn", "snapshot", "check", "passive", "read"} \cup Captures,
              entries : Seq(Vault!Lsns), lsn : Vault!Lsns, writes : SUBSET Writes,
              mark : Vault!Lsns, due : SUBSET Writes]

Increments == [writes : SUBSET Writes, mark : Vault!Lsns, lsn : Vault!Lsns, previous : Vault!Lsns]

\* The database loses nothing: a log that may be restarted is in the main file.
DbInv ==
  /\ main \in [writes : SUBSET Writes, mark : Vault!Lsns]
  /\ wal \in [writes : SUBSET Writes, mark : Vault!Lsns, flushed : BOOLEAN]
  /\ committed \subseteq Writes /\ lost \subseteq committed /\ promised \subseteq committed
  /\ committed = main.writes \cup wal.writes
  /\ wal.flushed => wal.writes \subseteq main.writes /\ main.mark = Vault!LastLsn

\* The entries follow one another, and each names the file on disk.
Chained(entries) ==
  \A i \in DOMAIN entries :
    entries[i] + 1 = entries[1] + i /\ files[entries[i]].lsn = entries[i]

\* Where a run is in its chain.
Placed(c) ==
  /\ Chained(c.entries)
  /\ c.pc \in {"flush", "lsn", "snapshot"} => c.entries = <<>>
  /\ c.pc = "check" => c.entries # <<>>
  /\ c.pc \in {"passive", "read", "truncate", "number", "file"} =>
        c.entries # <<>> /\ c.entries[Len(c.entries)] = c.lsn
  /\ c.pc \in {"read", "truncate", "number", "file"} => c.lsn < MaxLsn
  /\ c.pc = "list" =>
        /\ files[c.lsn].lsn = c.lsn
        /\ c.entries # <<>> => c.lsn = c.entries[Len(c.entries)] + 1

ChainInv ==
  /\ files \in [Vault!Lsns -> Increments]
  /\ manifest \in Seq(Vault!Lsns) /\ Chained(manifest)
  /\ run \in [Runs -> RunStates]
  /\ \A r \in Runs : Placed(run[r]) /\ run[r].writes \cup run[r].due \subseteq committed

-----------------------------------------------------------------------------
(* What holds while no two backups have run at once.                       *)

Held(entries) == UNION {files[entries[i]].writes : i \in DOMAIN entries}

\* The snapshot's row is its own lsn; an increment carries none or the row of
\* the capture before it.
FollowsOn(l) ==
  /\ files[l].previous + 1 = l
  /\ files[l].mark \in {0, files[l].previous}

Shaped(entries) ==
  /\ entries # <<>> => files[entries[1]].mark = entries[1]
  /\ \A i \in DOMAIN entries : i > 1 => FollowsOn(entries[i])

\* The stored lsn is the one a run works from until it stores its own.
MarksFollow(c) ==
  /\ c.pc \in {"lsn", "snapshot"} => wal.mark = 0
  /\ c.pc = "snapshot" => c.lsn = main.mark
  /\ c.pc \in {"passive", "read", "truncate", "number", "list"} => c.lsn = Vault!LastLsn
  /\ c.pc \in {"truncate", "number", "file"} => c.mark \in {0, c.lsn}
  /\ c.pc = "file" => Vault!LastLsn = c.lsn + 1
  /\ c.pc = "list" =>
        /\ files[c.lsn].writes = c.writes
        /\ c.entries = <<>> => files[c.lsn].mark = c.lsn
        /\ c.entries # <<>> => FollowsOn(c.lsn)

\* What is committed has left the log unread, is still in it, has been read by
\* the run under way, or is in a listed file.
HeldBy(c) ==
  c.pc \in Captures =>
    /\ committed \subseteq lost \cup wal.writes \cup c.writes \cup Held(c.entries)
    /\ c.due \subseteq lost \cup c.writes \cup Held(c.entries)

HeldAtRest ==
  (\A r \in Runs : run[r].pc \notin Captures) /\ manifest # <<>> /\ Vault!LastLsn = manifest[Len(manifest)]
     => committed \subseteq lost \cup wal.writes \cup Held(manifest)

OneAtOnce == \A q, r \in Runs : run[q].pc # "idle" /\ run[r].pc # "idle" => q = r

SoloInv ==
  /\ OneAtOnce /\ Shaped(manifest) /\ HeldAtRest
  /\ \A r \in Runs : /\ run[r].pc # "idle" => run[r].entries = manifest
                     /\ MarksFollow(run[r]) /\ HeldBy(run[r])
  /\ promised \subseteq lost \cup Held(manifest)

\* A restore has applied the first increments of the manifest, up to its stop.
Applied(k) ==
  /\ k \in DOMAIN manifest /\ target.lsn = manifest[k] /\ manifest[k] <= target.stop
  /\ target.whole => target.writes = UNION {files[manifest[i]].writes : i \in 1..k}

RestoreInv ==
  /\ target \in [pc : {"idle", "apply", "done", "refused", "rejected"}, entries : Seq(Vault!Lsns),
                 stop : Vault!Lsns, writes : SUBSET Writes, lsn : Vault!Lsns, whole : BOOLEAN]
  /\ target.pc # "idle" => target.entries = manifest /\ \A r \in Runs : run[r].pc = "idle"
  /\ ~overlap =>
        /\ target.pc # "rejected"
        /\ target.pc = "apply" => \E k \in DOMAIN manifest : Applied(k)
        /\ target.pc = "done" /\ target.whole =>
              target.writes = UNION {files[manifest[i]].writes :
                  i \in {j \in DOMAIN manifest : manifest[j] <= target.stop}}

VaultInv == DbInv /\ ChainInv /\ overlap \in BOOLEAN /\ (~overlap => SoloInv) /\ RestoreInv


---------------------------------------------------------------------------
(* The database under a backup.                                            *)

\* The steps of the log: unchanged, appended to, restarted, merged, flushed.
LogStays == UNCHANGED <<main, wal, committed>>
LogGrows(w) ==
  /\ committed' = committed \cup {w} /\ main' = main
  /\ wal' = [wal EXCEPT !.writes = @ \cup {w}, !.flushed = FALSE]
LogRestarts(w) ==
  /\ committed' = committed \cup {w} /\ main' = main /\ wal.flushed
  /\ wal' = [writes |-> {w}, mark |-> 0, flushed |-> FALSE]
LogMerges == main' = Vault!Merged /\ wal' = Vault!EmptyLog /\ committed' = committed
LogFlushes == main' = Vault!Merged /\ wal' = [wal EXCEPT !.flushed = TRUE] /\ committed' = committed

\* Nothing changes the stored lsn, and nothing is lost from the database.
LEMMA LogMoves ==
  ASSUME VaultConstants, DbInv, lost' \subseteq committed', promised' \subseteq committed',
         \/ LogStays \/ LogMerges \/ LogFlushes
         \/ \E w \in Writes : LogGrows(w) \/ LogRestarts(w)
  PROVE  /\ DbInv' /\ committed \subseteq committed' /\ Vault!LastLsn' = Vault!LastLsn
         /\ wal.mark = 0 => wal'.mark = 0 /\ main'.mark = main.mark
         /\ committed' \subseteq committed \cup wal'.writes
<1>1. /\ main.mark \in Nat /\ wal.mark \in Nat /\ main.mark \in Vault!Lsns /\ wal.mark \in Vault!Lsns
      /\ main.writes \subseteq Writes /\ wal.writes \subseteq Writes
      /\ 0 \in Vault!Lsns /\ Vault!LastLsn \in Vault!Lsns
  BY DEF VaultConstants, DbInv, Vault!Lsns, Vault!LastLsn
<1>2. CASE LogStays
  BY <1>1, <1>2 DEF LogStays, DbInv, Vault!LastLsn
<1>3. ASSUME NEW w \in Writes, LogGrows(w)
      PROVE  /\ DbInv' /\ committed \subseteq committed' /\ Vault!LastLsn' = Vault!LastLsn
             /\ wal.mark = 0 => wal'.mark = 0 /\ main'.mark = main.mark
             /\ committed' \subseteq committed \cup wal'.writes
  <2>1. /\ wal'.writes = wal.writes \cup {w} /\ wal'.mark = wal.mark /\ wal'.flushed = FALSE
        /\ wal' \in [writes : SUBSET Writes, mark : Vault!Lsns, flushed : BOOLEAN]
    BY <1>1, <1>3 DEF LogGrows, DbInv
  <2>2. QED
    BY <1>1, <1>3, <2>1 DEF LogGrows, DbInv, Vault!LastLsn
<1>4. ASSUME NEW w \in Writes, LogRestarts(w)
      PROVE  /\ DbInv' /\ committed \subseteq committed' /\ Vault!LastLsn' = Vault!LastLsn
             /\ wal.mark = 0 => wal'.mark = 0 /\ main'.mark = main.mark
             /\ committed' \subseteq committed \cup wal'.writes
  <2>1. /\ wal'.writes = {w} /\ wal'.mark = 0 /\ wal'.flushed = FALSE
        /\ wal' \in [writes : SUBSET Writes, mark : Vault!Lsns, flushed : BOOLEAN]
    BY <1>1, <1>4 DEF LogRestarts
  <2>2. wal.writes \subseteq main.writes /\ main.mark = Vault!LastLsn
    BY <1>4 DEF LogRestarts, DbInv
  <2>3. Vault!LastLsn' = Vault!LastLsn
    BY <1>1, <1>4, <2>1, <2>2 DEF LogRestarts, Vault!LastLsn
  <2>4. QED
    BY <1>1, <1>4, <2>1, <2>2, <2>3 DEF LogRestarts, DbInv
<1>5. CASE LogMerges
  <2>1. /\ wal'.writes = {} /\ wal'.mark = 0 /\ wal'.flushed = FALSE
        /\ wal' \in [writes : SUBSET Writes, mark : Vault!Lsns, flushed : BOOLEAN]
    BY <1>1, <1>5 DEF LogMerges, Vault!EmptyLog
  <2>2. /\ main'.writes = main.writes \cup wal.writes /\ main'.mark = Vault!LastLsn
        /\ main' \in [writes : SUBSET Writes, mark : Vault!Lsns]
    BY <1>1, <1>5 DEF LogMerges, Vault!Merged
  <2>3. Vault!LastLsn' = Vault!LastLsn
    BY <1>1, <2>1, <2>2 DEF Vault!LastLsn
  <2>4. wal.mark = 0 => main'.mark = main.mark
    BY <1>1, <2>2 DEF Vault!LastLsn
  <2>5. QED
    BY <1>1, <1>5, <2>1, <2>2, <2>3, <2>4 DEF LogMerges, DbInv
<1>6. CASE LogFlushes
  <2>1. /\ wal'.writes = wal.writes /\ wal'.mark = wal.mark
        /\ wal' \in [writes : SUBSET Writes, mark : Vault!Lsns, flushed : BOOLEAN]
    BY <1>1, <1>6 DEF LogFlushes, DbInv
  <2>2. /\ main'.writes = main.writes \cup wal.writes /\ main'.mark = Vault!LastLsn
        /\ main' \in [writes : SUBSET Writes, mark : Vault!Lsns]
    BY <1>1, <1>6 DEF LogFlushes, Vault!Merged
  <2>3. Vault!LastLsn' = Vault!LastLsn
    BY <1>1, <2>1, <2>2 DEF Vault!LastLsn
  <2>4. wal.mark = 0 => main'.mark = main.mark
    BY <1>1, <2>2 DEF Vault!LastLsn
  <2>5. QED
    BY <1>1, <1>6, <2>1, <2>2, <2>3, <2>4 DEF LogFlushes, DbInv
<1>7. QED
  BY <1>2, <1>3, <1>4, <1>5, <1>6

\* The stored lsn goes up by one.
LEMMA LogIsNumbered ==
  ASSUME VaultConstants, DbInv, NEW l \in Vault!Lsns, l + 1 \in Vault!Lsns,
         wal' = [wal EXCEPT !.mark = l + 1, !.flushed = FALSE], UNCHANGED <<main, committed, lost, promised>>
  PROVE  DbInv' /\ Vault!LastLsn' = l + 1 /\ wal'.writes = wal.writes
<1>1. /\ wal'.writes = wal.writes /\ wal'.mark = l + 1 /\ wal'.flushed = FALSE
      /\ wal' \in [writes : SUBSET Writes, mark : Vault!Lsns, flushed : BOOLEAN]
  BY DEF DbInv
<1>2. Vault!LastLsn' = l + 1
  BY <1>1 DEF Vault!LastLsn, Vault!Lsns, VaultConstants
<1>3. QED
  BY <1>1, <1>2 DEF DbInv

---------------------------------------------------------------------------
(* The chain, whatever overlaps.                                           *)

\* A file once written keeps its lsn.
FilesKeep ==
  /\ files' \in [Vault!Lsns -> Increments]
  /\ \A l \in Vault!Lsns : files[l].lsn = l => files'[l].lsn = l

LEMMA ChainStays ==
  ASSUME FilesKeep, NEW entries \in Seq(Vault!Lsns), Chained(entries)
  PROVE  Chained(entries)'
BY DEF FilesKeep, Chained

LEMMA PlaceStays ==
  ASSUME FilesKeep, NEW c \in RunStates, Placed(c)
  PROVE  Placed(c)'
<1>1. c.entries \in Seq(Vault!Lsns) /\ c.lsn \in Vault!Lsns
  BY DEF RunStates
<1>2. Chained(c.entries)'
  BY <1>1, ChainStays DEF Placed
<1>3. QED
  BY <1>1, <1>2 DEF Placed, FilesKeep

\* One run moves.
LEMMA ChainMoves ==
  ASSUME ChainInv, FilesKeep, committed \subseteq committed', NEW r \in Runs, NEW c \in RunStates,
         run' = [run EXCEPT ![r] = c], Placed(c)', c.writes \cup c.due \subseteq committed',
         manifest' \in Seq(Vault!Lsns), manifest' = manifest \/ Chained(manifest)'
  PROVE  ChainInv' /\ \A q \in Runs : run'[q] = IF q = r THEN c ELSE run[q]
<1>1. /\ run' \in [Runs -> RunStates]
      /\ \A q \in Runs : run'[q] = IF q = r THEN c ELSE run[q]
  BY DEF ChainInv
<1>2. Chained(manifest)'
  <2>1. PICK m : m = manifest
    OBVIOUS
  <2>2. Chained(m)'
    BY <2>1, ChainStays DEF ChainInv
  <2>3. QED
    BY <2>1, <2>2 DEF Chained
<1>3. ASSUME NEW q \in Runs, NEW b, b = run'[q]
      PROVE  Placed(b)' /\ b.writes \cup b.due \subseteq committed'
  <2>1. CASE q = r
    BY <1>1, <1>3, <2>1
  <2>2. CASE q # r
    <3>1. b = run[q] /\ b \in RunStates /\ Placed(b) /\ b.writes \cup b.due \subseteq committed
      BY <1>1, <1>3, <2>2 DEF ChainInv
    <3>2. QED
      BY <3>1, PlaceStays
  <2>3. QED
    BY <2>1, <2>2
<1>4. \A q \in Runs : Placed(run[q])' /\ (run[q].writes \cup run[q].due \subseteq committed)'
  BY <1>3 DEF Placed, Chained
<1>5. QED
  BY <1>1, <1>2, <1>4 DEF ChainInv, FilesKeep

\* No run moves.
LEMMA ChainRests ==
  ASSUME ChainInv, committed \subseteq committed', UNCHANGED <<files, manifest, run>>
  PROVE  ChainInv'
BY DEF ChainInv, Placed, Chained

LEMMA FilesRest == ASSUME ChainInv, files' = files PROVE FilesKeep
BY DEF ChainInv, FilesKeep

---------------------------------------------------------------------------
(* One backup at a time.                                                   *)

OthersIdle(r) == \A q \in Runs \ {r} : run[q].pc = "idle"

LEMMA SoloMoves ==
  ASSUME NEW r \in Runs, NEW c, \A q \in Runs : run'[q] = IF q = r THEN c ELSE run[q], OthersIdle(r),
         Shaped(manifest)', HeldAtRest', promised' \subseteq lost' \cup Held(manifest)',
         MarksFollow(c)', HeldBy(c)', c.pc # "idle" => c.entries = manifest'
  PROVE  SoloInv'
<1>1. OneAtOnce'
  BY DEF OneAtOnce, OthersIdle
<1>2. ASSUME NEW q \in Runs, NEW b, b = run'[q]
      PROVE  (b.pc # "idle" => b.entries = manifest') /\ MarksFollow(b)' /\ HeldBy(b)'
  <2>1. CASE q = r
    BY <1>2, <2>1
  <2>2. CASE q # r
    <3>1. b.pc = "idle"
      BY <1>2, <2>2 DEF OthersIdle
    <3>2. QED
      BY <3>1 DEF MarksFollow, HeldBy, Captures
  <2>3. QED
    BY <2>1, <2>2
<1>3. \A q \in Runs : /\ (run[q].pc # "idle" => run[q].entries = manifest)'
                      /\ MarksFollow(run[q])' /\ HeldBy(run[q])'
  BY <1>2 DEF MarksFollow, HeldBy, Held
<1>4. QED
  BY <1>1, <1>3 DEF SoloInv

\* What is listed is what it was.
LEMMA ListStays ==
  ASSUME UNCHANGED <<files, manifest>>
  PROVE  /\ Held(manifest)' = Held(manifest) /\ Shaped(manifest)' = Shaped(manifest)
         /\ \A entries : Held(entries)' = Held(entries)
         /\ \A l : FollowsOn(l)' = FollowsOn(l)
BY DEF Held, Shaped, FollowsOn

\* A run at rest.
LEMMA IdleRun ==
  ASSUME VaultConstants, ChainInv, NEW c, c = Vault!Idle
  PROVE  /\ c \in RunStates /\ c.pc = "idle" /\ c.writes = {} /\ c.due = {}
         /\ Placed(c)' /\ MarksFollow(c)' /\ HeldBy(c)'
<1>1. 0 \in Vault!Lsns /\ <<>> \in Seq(Vault!Lsns)
  BY DEF VaultConstants, Vault!Lsns
<1>2. /\ c.pc = "idle" /\ c.entries = <<>> /\ c.lsn = 0 /\ c.writes = {} /\ c.mark = 0 /\ c.due = {}
      /\ c \in RunStates
  BY <1>1 DEF Vault!Idle, RunStates
<1>3. QED
  BY <1>2 DEF Placed, Chained, MarksFollow, HeldBy, Captures

LEMMA RestoreRests ==
  ASSUME RestoreInv, target.pc = "idle", target' = target
  PROVE  RestoreInv'
BY DEF RestoreInv

LEMMA ReadManifestKeeps ==
  ASSUME VaultConstants, VaultInv, target.pc = "idle", NEW r \in Runs, Vault!ReadManifest(r)
  PROVE  VaultInv'
<1> DEFINE c == [Vault!Idle EXCEPT !.pc = IF manifest = <<>> THEN "flush" ELSE "check", !.entries = manifest]
<1>1. /\ run' = [run EXCEPT ![r] = c] /\ run[r].pc = "idle"
      /\ overlap' = (overlap \/ \E q \in Runs \ {r} : run[q].pc # "idle")
      /\ UNCHANGED <<main, wal, committed, files, manifest, lost, promised, target>>
  BY DEF Vault!ReadManifest
<1>2. 0 \in Vault!Lsns /\ manifest \in Seq(Vault!Lsns) /\ Chained(manifest)
  BY DEF VaultConstants, Vault!Lsns, VaultInv, ChainInv
<1>3. /\ c.pc = (IF manifest = <<>> THEN "flush" ELSE "check") /\ c.entries = manifest
      /\ c.writes = {} /\ c.due = {} /\ c \in RunStates
  BY <1>2 DEF Vault!Idle, RunStates
<1> HIDE DEF c
<1>4. PICK b : b = c
  OBVIOUS
<1>5. ChainInv' /\ \A q \in Runs : run'[q] = IF q = r THEN b ELSE run[q]
  <2>1. Chained(b.entries)'
    BY <1>1, <1>2, <1>3, <1>4 DEF Chained
  <2>2. Placed(b)'
    BY <1>3, <1>4, <2>1 DEF Placed
  <2>3. /\ ChainInv /\ FilesKeep /\ committed \subseteq committed' /\ b \in RunStates
        /\ run' = [run EXCEPT ![r] = b] /\ b.writes \cup b.due \subseteq committed'
        /\ manifest' \in Seq(Vault!Lsns) /\ manifest' = manifest
    BY <1>1, <1>2, <1>3, <1>4, FilesRest DEF VaultInv
  <2>4. QED
    BY <2>2, <2>3, ChainMoves
<1>6. DbInv' /\ Vault!LastLsn' = Vault!LastLsn
  BY <1>1 DEF VaultInv, DbInv, Vault!LastLsn
<1>7. ASSUME ~overlap' PROVE SoloInv'
  <2>1. SoloInv /\ OthersIdle(r)
    BY <1>1, <1>7 DEF VaultInv, OthersIdle
  <2>2. /\ Held(manifest)' = Held(manifest) /\ Shaped(manifest)'
    BY <1>1, <2>1, ListStays DEF SoloInv
  <2>3. HeldAtRest'
    <3>1. \A q \in Runs : run[q].pc \notin Captures
      BY <1>1, <2>1 DEF OthersIdle, Captures
    <3>2. QED
      BY <1>1, <1>6, <2>1, <2>2, <3>1 DEF SoloInv, HeldAtRest
  <2>4. MarksFollow(b)' /\ HeldBy(b)'
    BY <1>3, <1>4 DEF MarksFollow, HeldBy, Captures
  <2>5. QED
    BY <1>1, <1>3, <1>4, <1>5, <2>1, <2>2, <2>3, <2>4, SoloMoves DEF SoloInv
<1>8. RestoreInv' /\ overlap' \in BOOLEAN
  BY <1>1, RestoreRests DEF VaultInv
<1>9. QED
  BY <1>5, <1>6, <1>7, <1>8 DEF VaultInv

\* A run that is under way is alone, and works from the manifest.
LEMMA Alone ==
  ASSUME VaultInv, ~overlap, NEW r \in Runs, run[r].pc # "idle"
  PROVE  /\ SoloInv /\ OthersIdle(r) /\ run[r].entries = manifest
         /\ MarksFollow(run[r]) /\ HeldBy(run[r])
BY DEF VaultInv, SoloInv, OneAtOnce, OthersIdle

LEMMA FlushKeeps ==
  ASSUME VaultConstants, VaultInv, target.pc = "idle", NEW r \in Runs, Vault!Flush(r)
  PROVE  VaultInv'
<1>1. /\ run' = [run EXCEPT ![r].pc = "lsn"] /\ run[r].pc = "flush" /\ LogMerges
      /\ UNCHANGED <<committed, files, manifest, lost, promised, overlap, target>>
  BY DEF Vault!Flush, Vault!Goto, LogMerges
<1>2. run[r] \in RunStates /\ Placed(run[r]) /\ run[r].writes \cup run[r].due \subseteq committed
  BY DEF VaultInv, ChainInv
<1>3. PICK b : b = [run[r] EXCEPT !.pc = "lsn"]
  OBVIOUS
<1>4. /\ b \in RunStates /\ b.pc = "lsn" /\ b.entries = run[r].entries /\ b.writes = run[r].writes
      /\ b.due = run[r].due /\ run' = [run EXCEPT ![r] = b] /\ b.entries = <<>>
  BY <1>1, <1>2, <1>3 DEF RunStates, Placed
<1>5. ChainInv' /\ \A q \in Runs : run'[q] = IF q = r THEN b ELSE run[q]
  <2>1. Placed(b)'
    BY <1>4 DEF Placed, Chained
  <2>2. QED
    BY <1>1, <1>2, <1>4, <2>1, FilesRest, ChainMoves DEF VaultInv, ChainInv
<1>6. DbInv' /\ wal'.mark = 0
  <2>1. DbInv'
    BY <1>1, LogMoves DEF VaultInv, DbInv
  <2>2. QED
    BY <1>1, <2>1 DEF LogMerges, Vault!EmptyLog
<1>7. ASSUME ~overlap' PROVE SoloInv'
  <2>1. SoloInv /\ OthersIdle(r) /\ manifest = <<>>
    BY <1>1, <1>4, <1>7, Alone
  <2>2. Held(manifest)' = Held(manifest) /\ Shaped(manifest)'
    BY <1>1, <2>1, ListStays DEF SoloInv
  <2>3. HeldAtRest'
    BY <1>1, <2>1 DEF HeldAtRest
  <2>4. MarksFollow(b)' /\ HeldBy(b)'
    BY <1>4, <1>6 DEF MarksFollow, HeldBy, Captures
  <2>5. QED
    BY <1>1, <1>4, <1>5, <2>1, <2>2, <2>3, <2>4, SoloMoves DEF SoloInv
<1>8. RestoreInv' /\ overlap' \in BOOLEAN
  BY <1>1, RestoreRests DEF VaultInv
<1>9. QED
  BY <1>5, <1>6, <1>7, <1>8 DEF VaultInv

LEMMA FullLsnKeeps ==
  ASSUME VaultConstants, VaultInv, target.pc = "idle", NEW r \in Runs, Vault!FullLsn(r)
  PROVE  VaultInv'
<1>1. /\ run' = [run EXCEPT ![r].pc = "snapshot", ![r].lsn = Vault!LastLsn] /\ run[r].pc = "lsn"
      /\ UNCHANGED <<main, wal, committed, files, manifest, lost, promised, overlap, target>>
  BY DEF Vault!FullLsn
<1>2. /\ run[r] \in RunStates /\ Placed(run[r]) /\ run[r].writes \cup run[r].due \subseteq committed
      /\ Vault!LastLsn \in Vault!Lsns
  BY DEF VaultInv, ChainInv, DbInv, Vault!LastLsn
<1>3. PICK b : b = [run[r] EXCEPT !.pc = "snapshot", !.lsn = Vault!LastLsn]
  OBVIOUS
<1>4. /\ b \in RunStates /\ b.pc = "snapshot" /\ b.lsn = Vault!LastLsn /\ b.writes = run[r].writes
      /\ b.due = run[r].due /\ run' = [run EXCEPT ![r] = b] /\ b.entries = <<>>
  BY <1>1, <1>2, <1>3 DEF RunStates, Placed
<1>5. ChainInv' /\ \A q \in Runs : run'[q] = IF q = r THEN b ELSE run[q]
  <2>1. Placed(b)'
    BY <1>4 DEF Placed, Chained
  <2>2. QED
    BY <1>1, <1>2, <1>4, <2>1, FilesRest, ChainMoves DEF VaultInv, ChainInv
<1>6. DbInv' /\ Vault!LastLsn' = Vault!LastLsn
  BY <1>1 DEF VaultInv, DbInv, Vault!LastLsn
<1>7. ASSUME ~overlap' PROVE SoloInv'
  <2>1. SoloInv /\ OthersIdle(r) /\ manifest = <<>> /\ wal.mark = 0
    BY <1>1, <1>2, <1>7, Alone DEF MarksFollow, Placed
  <2>2. Held(manifest)' = Held(manifest) /\ Shaped(manifest)'
    BY <1>1, <2>1, ListStays DEF SoloInv
  <2>3. HeldAtRest'
    BY <1>1, <2>1 DEF HeldAtRest
  <2>4. MarksFollow(b)' /\ HeldBy(b)'
    <3>1. b.lsn = main'.mark /\ wal'.mark = 0
      BY <1>1, <1>4, <2>1 DEF Vault!LastLsn
    <3>2. QED
      BY <1>4, <3>1 DEF MarksFollow, HeldBy, Captures
  <2>5. QED
    BY <1>1, <1>4, <1>5, <2>1, <2>2, <2>3, <2>4, SoloMoves DEF SoloInv
<1>8. RestoreInv' /\ overlap' \in BOOLEAN
  BY <1>1, RestoreRests DEF VaultInv
<1>9. QED
  BY <1>5, <1>6, <1>7, <1>8 DEF VaultInv

LEMMA SnapshotKeeps ==
  ASSUME VaultConstants, VaultInv, target.pc = "idle", NEW r \in Runs, Vault!Snapshot(r)
  PROVE  VaultInv'
<1> DEFINE l == run[r].lsn
           f == [writes |-> main.writes, mark |-> main.mark, lsn |-> l, previous |-> l]
<1>1. /\ run' = [run EXCEPT ![r].pc = "list", ![r].writes = main.writes, ![r].due = main.writes]
      /\ run[r].pc = "snapshot" /\ files' = [files EXCEPT ![l] = f]
      /\ UNCHANGED <<main, wal, committed, manifest, lost, promised, overlap, target>>
  BY DEF Vault!Snapshot
<1>2. /\ run[r] \in RunStates /\ Placed(run[r]) /\ l \in Vault!Lsns /\ run[r].entries = <<>>
      /\ main.writes \subseteq Writes /\ main.writes \subseteq committed /\ main.mark \in Vault!Lsns
      /\ files \in [Vault!Lsns -> Increments]
  BY <1>1 DEF VaultInv, ChainInv, DbInv, RunStates, Placed
<1>3. PICK b : b = [run[r] EXCEPT !.pc = "list", !.writes = main.writes, !.due = main.writes]
  OBVIOUS
<1>4. /\ b \in RunStates /\ b.pc = "list" /\ b.lsn = l /\ b.writes = main.writes
      /\ b.due = main.writes /\ run' = [run EXCEPT ![r] = b] /\ b.entries = <<>>
  BY <1>1, <1>2, <1>3 DEF RunStates, Captures
<1>5. /\ FilesKeep /\ files'[l].lsn = l /\ files'[l].writes = main.writes /\ files'[l].mark = main.mark
  BY <1>1, <1>2 DEF FilesKeep, Increments
<1> HIDE DEF l, f
<1>6. ChainInv' /\ \A q \in Runs : run'[q] = IF q = r THEN b ELSE run[q]
  <2>1. Placed(b)'
    BY <1>4, <1>5 DEF Placed, Chained
  <2>2. QED
    BY <1>1, <1>2, <1>4, <1>5, <2>1, ChainMoves DEF VaultInv, ChainInv
<1>7. DbInv' /\ Vault!LastLsn' = Vault!LastLsn
  BY <1>1 DEF VaultInv, DbInv, Vault!LastLsn
<1>8. ASSUME ~overlap' PROVE SoloInv'
  <2>1. SoloInv /\ OthersIdle(r) /\ manifest = <<>> /\ wal.mark = 0 /\ l = main.mark
    BY <1>1, <1>2, <1>8, Alone DEF MarksFollow, l
  <2>2. Held(manifest)' = Held(manifest) /\ Shaped(manifest)'
    BY <1>1, <2>1 DEF Held, Shaped
  <2>3. HeldAtRest'
    BY <1>1, <2>1 DEF HeldAtRest
  <2>4. MarksFollow(b)' /\ HeldBy(b)'
    <3>1. Vault!LastLsn' = l
      BY <1>1, <2>1 DEF Vault!LastLsn
    <3>2. committed' = b.writes \cup wal'.writes
      BY <1>1, <1>4 DEF VaultInv, DbInv
    <3>3. QED
      BY <1>4, <1>5, <2>1, <3>1, <3>2 DEF MarksFollow, HeldBy, Captures
  <2>5. QED
    BY <1>1, <1>4, <1>6, <2>1, <2>2, <2>3, <2>4, SoloMoves DEF SoloInv
<1>9. RestoreInv' /\ overlap' \in BOOLEAN
  BY <1>1, RestoreRests DEF VaultInv
<1>10. QED
  BY <1>6, <1>7, <1>8, <1>9 DEF VaultInv

LEMMA CheckLsnKeeps ==
  ASSUME VaultConstants, VaultInv, target.pc = "idle", NEW r \in Runs, Vault!CheckLsn(r)
  PROVE  VaultInv'
<1> DEFINE c == [run[r] EXCEPT !.pc = "passive", !.lsn = Vault!LastLsn]
<1>1. /\ run[r].pc = "check"
      /\ \/ run' = [run EXCEPT ![r] = Vault!Idle]
         \/ /\ Vault!LastEntry(run[r].entries) = Vault!LastLsn
            /\ run' = [run EXCEPT ![r] = c]
      /\ UNCHANGED <<main, wal, committed, files, manifest, lost, promised, overlap, target>>
  BY DEF Vault!CheckLsn
<1>2. /\ run[r] \in RunStates /\ Placed(run[r]) /\ run[r].writes \cup run[r].due \subseteq committed
      /\ Vault!LastLsn \in Vault!Lsns /\ ChainInv /\ manifest \in Seq(Vault!Lsns)
  BY DEF VaultInv, ChainInv, DbInv, Vault!LastLsn
<1>3. DbInv' /\ Vault!LastLsn' = Vault!LastLsn
  BY <1>1 DEF VaultInv, DbInv, Vault!LastLsn
<1>4. PICK b \in RunStates :
        /\ run' = [run EXCEPT ![r] = b] /\ Placed(b)' /\ b.writes \cup b.due \subseteq committed
        /\ MarksFollow(b)' /\ HeldBy(b)' /\ b.pc \in {"idle", "passive"}
        /\ b.pc = "passive" => b.entries = run[r].entries
  <2>1. CASE run' = [run EXCEPT ![r] = Vault!Idle]
    <3>1. PICK b : b = Vault!Idle
      OBVIOUS
    <3>2. QED
      BY <1>2, <2>1, <3>1, IdleRun
  <2>2. CASE Vault!LastEntry(run[r].entries) = Vault!LastLsn /\ run' = [run EXCEPT ![r] = c]
    <3>1. PICK b : b = c
      OBVIOUS
    <3>2. /\ b \in RunStates /\ b.pc = "passive" /\ b.lsn = Vault!LastLsn /\ b.writes = run[r].writes
          /\ b.due = run[r].due /\ b.entries = run[r].entries
      BY <1>2, <3>1 DEF RunStates
    <3>3. b.entries # <<>> /\ b.entries[Len(b.entries)] = b.lsn /\ Chained(b.entries)
      BY <1>1, <1>2, <2>2, <3>2 DEF Placed, Vault!LastEntry
    <3>4. Placed(b)'
      BY <1>1, <3>2, <3>3 DEF Placed, Chained
    <3>5. MarksFollow(b)' /\ HeldBy(b)'
      BY <1>3, <3>2 DEF MarksFollow, HeldBy, Captures
    <3>6. QED
      BY <1>2, <2>2, <3>1, <3>2, <3>4, <3>5
  <2>3. QED
    BY <1>1, <2>1, <2>2
<1>5. ChainInv' /\ \A q \in Runs : run'[q] = IF q = r THEN b ELSE run[q]
  BY <1>1, <1>2, <1>4, FilesRest, ChainMoves
<1>6. ASSUME ~overlap' PROVE SoloInv'
  <2>1. SoloInv /\ OthersIdle(r) /\ run[r].entries = manifest
    BY <1>1, <1>6, Alone
  <2>2. Held(manifest)' = Held(manifest) /\ Shaped(manifest)'
    BY <1>1, <2>1, ListStays DEF SoloInv
  <2>3. HeldAtRest'
    <3>1. \A q \in Runs : run[q].pc \notin Captures
      BY <1>1, <2>1 DEF OthersIdle, Captures
    <3>2. QED
      BY <1>1, <1>3, <2>1, <2>2, <3>1 DEF SoloInv, HeldAtRest
  <2>4. QED
    BY <1>1, <1>4, <1>5, <2>1, <2>2, <2>3, SoloMoves DEF SoloInv
<1>7. RestoreInv' /\ overlap' \in BOOLEAN
  BY <1>1, RestoreRests DEF VaultInv
<1>8. QED
  BY <1>3, <1>5, <1>6, <1>7 DEF VaultInv

LEMMA PassiveKeeps ==
  ASSUME VaultConstants, VaultInv, target.pc = "idle", NEW r \in Runs, Vault!Passive(r)
  PROVE  VaultInv'
<1>1. /\ run' = [run EXCEPT ![r].pc = "read"] /\ run[r].pc = "passive" /\ run[r].lsn < MaxLsn
      /\ LogFlushes
      /\ UNCHANGED <<committed, files, manifest, lost, promised, overlap, target>>
  BY DEF Vault!Passive, Vault!Goto, LogFlushes
<1>2. run[r] \in RunStates /\ Placed(run[r]) /\ run[r].writes \cup run[r].due \subseteq committed
  BY DEF VaultInv, ChainInv
<1>3. PICK b : b = [run[r] EXCEPT !.pc = "read"]
  OBVIOUS
<1>4. /\ b \in RunStates /\ b.pc = "read" /\ b.entries = run[r].entries /\ b.writes = run[r].writes
      /\ b.due = run[r].due /\ b.lsn = run[r].lsn /\ run' = [run EXCEPT ![r] = b]
  BY <1>1, <1>2, <1>3 DEF RunStates
<1>5. ChainInv' /\ \A q \in Runs : run'[q] = IF q = r THEN b ELSE run[q]
  <2>1. Placed(b)'
    BY <1>1, <1>2, <1>4 DEF Placed, Chained
  <2>2. QED
    BY <1>1, <1>2, <1>4, <2>1, FilesRest, ChainMoves DEF VaultInv, ChainInv
<1>6. DbInv' /\ Vault!LastLsn' = Vault!LastLsn /\ wal'.writes = wal.writes
  <2>1. DbInv' /\ Vault!LastLsn' = Vault!LastLsn
    BY <1>1, LogMoves DEF VaultInv, DbInv
  <2>2. QED
    BY <1>1, <2>1 DEF LogFlushes, VaultInv, DbInv
<1>7. ASSUME ~overlap' PROVE SoloInv'
  <2>1. SoloInv /\ OthersIdle(r) /\ run[r].entries = manifest /\ run[r].lsn = Vault!LastLsn
    BY <1>1, <1>7, Alone DEF MarksFollow
  <2>2. Held(manifest)' = Held(manifest) /\ Shaped(manifest)'
    BY <1>1, <2>1, ListStays DEF SoloInv
  <2>3. HeldAtRest'
    <3>1. \A q \in Runs : run[q].pc \notin Captures
      BY <1>1, <2>1 DEF OthersIdle, Captures
    <3>2. QED
      BY <1>1, <1>6, <2>1, <2>2, <3>1 DEF SoloInv, HeldAtRest
  <2>4. MarksFollow(b)' /\ HeldBy(b)'
    BY <1>4, <1>6, <2>1 DEF MarksFollow, HeldBy, Captures
  <2>5. QED
    BY <1>1, <1>4, <1>5, <2>1, <2>2, <2>3, <2>4, SoloMoves DEF SoloInv
<1>8. RestoreInv' /\ overlap' \in BOOLEAN
  BY <1>1, RestoreRests DEF VaultInv
<1>9. QED
  BY <1>5, <1>6, <1>7, <1>8 DEF VaultInv

LEMMA ReadWalKeeps ==
  ASSUME VaultConstants, VaultInv, target.pc = "idle", NEW r \in Runs, Vault!ReadWal(r)
  PROVE  VaultInv'
<1>1. /\ run' = [run EXCEPT ![r].pc = "truncate", ![r].writes = wal.writes, ![r].mark = wal.mark,
                            ![r].due = committed]
      /\ run[r].pc = "read"
      /\ UNCHANGED <<main, wal, committed, files, manifest, lost, promised, overlap, target>>
  BY DEF Vault!ReadWal
<1>2. /\ run[r] \in RunStates /\ Placed(run[r]) /\ wal.mark \in Vault!Lsns
      /\ wal.writes \subseteq committed /\ committed \subseteq Writes
  BY DEF VaultInv, ChainInv, DbInv
<1>3. PICK b : b = [run[r] EXCEPT !.pc = "truncate", !.writes = wal.writes, !.mark = wal.mark,
                                  !.due = committed]
  OBVIOUS
<1>4. /\ b \in RunStates /\ b.pc = "truncate" /\ b.entries = run[r].entries /\ b.writes = wal.writes
      /\ b.mark = wal.mark /\ b.due = committed /\ b.lsn = run[r].lsn /\ run' = [run EXCEPT ![r] = b]
  BY <1>1, <1>2, <1>3 DEF RunStates, Captures
<1>5. ChainInv' /\ \A q \in Runs : run'[q] = IF q = r THEN b ELSE run[q]
  <2>1. Placed(b)'
    BY <1>1, <1>2, <1>4 DEF Placed, Chained
  <2>2. QED
    BY <1>1, <1>2, <1>4, <2>1, FilesRest, ChainMoves DEF VaultInv, ChainInv
<1>6. DbInv' /\ Vault!LastLsn' = Vault!LastLsn
  BY <1>1 DEF VaultInv, DbInv, Vault!LastLsn
<1>7. ASSUME ~overlap' PROVE SoloInv'
  <2>1. SoloInv /\ OthersIdle(r) /\ run[r].entries = manifest /\ run[r].lsn = Vault!LastLsn
    BY <1>1, <1>7, Alone DEF MarksFollow
  <2>2. Held(manifest)' = Held(manifest) /\ Shaped(manifest)'
    BY <1>1, <2>1, ListStays DEF SoloInv
  <2>3. HeldAtRest'
    BY <1>4, <1>5 DEF HeldAtRest, Captures
  <2>4. committed \subseteq lost \cup wal.writes \cup Held(manifest)
    <3>1. \A q \in Runs : run[q].pc \notin Captures
      BY <1>1, <2>1 DEF OthersIdle, Captures
    <3>2. manifest # <<>> /\ manifest[Len(manifest)] = Vault!LastLsn
      BY <1>1, <1>2, <2>1 DEF Placed
    <3>3. QED
      BY <2>1, <3>1, <3>2 DEF SoloInv, HeldAtRest
  <2>5. MarksFollow(b)'
    <3>1. wal.mark \in {0, Vault!LastLsn}
      BY <1>2 DEF Vault!LastLsn, Vault!Lsns, VaultConstants
    <3>2. QED
      BY <1>4, <1>6, <2>1, <3>1 DEF MarksFollow
  <2>6. HeldBy(b)'
    <3>1. Held(b.entries)' = Held(manifest)
      BY <1>1, <1>4, <2>1, ListStays
    <3>2. QED
      BY <1>1, <1>4, <2>4, <3>1 DEF HeldBy
  <2>7. QED
    BY <1>1, <1>4, <1>5, <2>1, <2>2, <2>3, <2>5, <2>6, SoloMoves DEF SoloInv
<1>8. RestoreInv' /\ overlap' \in BOOLEAN
  BY <1>1, RestoreRests DEF VaultInv
<1>9. QED
  BY <1>5, <1>6, <1>7, <1>8 DEF VaultInv

LEMMA TruncateKeeps ==
  ASSUME VaultConstants, VaultInv, target.pc = "idle", NEW r \in Runs, Vault!Truncate(r)
  PROVE  VaultInv'
<1>1. /\ run' = [run EXCEPT ![r].pc = "number"] /\ run[r].pc = "truncate" /\ LogMerges
      /\ lost' = lost \cup Vault!Unread
      /\ UNCHANGED <<committed, files, manifest, promised, overlap, target>>
  BY DEF Vault!Truncate, Vault!Goto, LogMerges
<1>2. run[r] \in RunStates /\ Placed(run[r]) /\ run[r].writes \cup run[r].due \subseteq committed
  BY DEF VaultInv, ChainInv
<1>3. PICK b : b = [run[r] EXCEPT !.pc = "number"]
  OBVIOUS
<1>4. /\ b \in RunStates /\ b.pc = "number" /\ b.entries = run[r].entries /\ b.writes = run[r].writes
      /\ b.due = run[r].due /\ b.lsn = run[r].lsn /\ b.mark = run[r].mark /\ run' = [run EXCEPT ![r] = b]
  BY <1>1, <1>2, <1>3 DEF RunStates, Captures
<1>5. ChainInv' /\ \A q \in Runs : run'[q] = IF q = r THEN b ELSE run[q]
  <2>1. Placed(b)'
    BY <1>1, <1>2, <1>4 DEF Placed, Chained
  <2>2. QED
    BY <1>1, <1>2, <1>4, <2>1, FilesRest, ChainMoves DEF VaultInv, ChainInv
<1>6. DbInv' /\ Vault!LastLsn' = Vault!LastLsn
  <2>1. lost' \subseteq committed' /\ promised' \subseteq committed'
    BY <1>1 DEF VaultInv, DbInv, Vault!Unread
  <2>2. QED
    BY <1>1, <2>1, LogMoves DEF VaultInv
<1>7. ASSUME ~overlap' PROVE SoloInv'
  <2>1. SoloInv /\ OthersIdle(r) /\ run[r].entries = manifest /\ MarksFollow(run[r]) /\ HeldBy(run[r])
    BY <1>1, <1>7, Alone
  <2>2. Held(manifest)' = Held(manifest) /\ Shaped(manifest)'
    BY <1>1, <2>1, ListStays DEF SoloInv
  <2>3. HeldAtRest'
    BY <1>4, <1>5 DEF HeldAtRest, Captures
  <2>4. wal.writes \subseteq lost' \cup run[r].writes
    BY <1>1, <2>1 DEF OthersIdle, Vault!Unread
  <2>5. MarksFollow(b)'
    BY <1>1, <1>4, <1>6, <2>1 DEF MarksFollow
  <2>6. HeldBy(b)'
    <3>1. Held(b.entries)' = Held(run[r].entries)
      BY <1>1, <1>4, ListStays
    <3>2. /\ committed \subseteq lost \cup wal.writes \cup run[r].writes \cup Held(run[r].entries)
          /\ run[r].due \subseteq lost \cup run[r].writes \cup Held(run[r].entries)
      BY <1>1, <2>1 DEF HeldBy, Captures
    <3>3. QED
      BY <1>1, <1>4, <2>4, <3>1, <3>2 DEF HeldBy
  <2>7. QED
    BY <1>1, <1>4, <1>5, <2>1, <2>2, <2>3, <2>5, <2>6, SoloMoves DEF SoloInv
<1>8. RestoreInv' /\ overlap' \in BOOLEAN
  BY <1>1, RestoreRests DEF VaultInv
<1>9. QED
  BY <1>5, <1>6, <1>7, <1>8 DEF VaultInv

LEMMA NumberKeeps ==
  ASSUME VaultConstants, VaultInv, target.pc = "idle", NEW r \in Runs, Vault!NumberIncrement(r)
  PROVE  VaultInv'
<1>1. /\ run' = [run EXCEPT ![r].pc = "file"] /\ run[r].pc = "number"
      /\ wal' = [wal EXCEPT !.mark = run[r].lsn + 1, !.flushed = FALSE]
      /\ UNCHANGED <<main, committed, files, manifest, lost, promised, overlap, target>>
  BY DEF Vault!NumberIncrement, Vault!Goto
<1>2. /\ run[r] \in RunStates /\ Placed(run[r]) /\ run[r].writes \cup run[r].due \subseteq committed
      /\ run[r].lsn \in Vault!Lsns /\ run[r].lsn < MaxLsn
  BY <1>1 DEF VaultInv, ChainInv, RunStates, Placed
<1>3. PICK b : b = [run[r] EXCEPT !.pc = "file"]
  OBVIOUS
<1>4. /\ b \in RunStates /\ b.pc = "file" /\ b.entries = run[r].entries /\ b.writes = run[r].writes
      /\ b.due = run[r].due /\ b.lsn = run[r].lsn /\ b.mark = run[r].mark /\ run' = [run EXCEPT ![r] = b]
  BY <1>1, <1>2, <1>3 DEF RunStates, Captures
<1>5. ChainInv' /\ \A q \in Runs : run'[q] = IF q = r THEN b ELSE run[q]
  <2>1. Placed(b)'
    BY <1>1, <1>2, <1>4 DEF Placed, Chained
  <2>2. QED
    BY <1>1, <1>2, <1>4, <2>1, FilesRest, ChainMoves DEF VaultInv, ChainInv
<1>6. DbInv' /\ Vault!LastLsn' = run[r].lsn + 1 /\ wal'.writes = wal.writes
  <2>1. run[r].lsn + 1 \in Vault!Lsns
    BY <1>2 DEF Vault!Lsns, VaultConstants
  <2>2. QED
    BY <1>1, <1>2, <2>1, LogIsNumbered DEF VaultInv
<1>7. ASSUME ~overlap' PROVE SoloInv'
  <2>1. SoloInv /\ OthersIdle(r) /\ run[r].entries = manifest /\ MarksFollow(run[r]) /\ HeldBy(run[r])
    BY <1>1, <1>7, Alone
  <2>2. Held(manifest)' = Held(manifest) /\ Shaped(manifest)'
    BY <1>1, <2>1, ListStays DEF SoloInv
  <2>3. HeldAtRest'
    BY <1>4, <1>5 DEF HeldAtRest, Captures
  <2>4. MarksFollow(b)'
    BY <1>1, <1>4, <1>6, <2>1 DEF MarksFollow
  <2>5. HeldBy(b)'
    <3>1. Held(b.entries)' = Held(run[r].entries)
      BY <1>1, <1>4, ListStays
    <3>2. /\ committed \subseteq lost \cup wal.writes \cup run[r].writes \cup Held(run[r].entries)
          /\ run[r].due \subseteq lost \cup run[r].writes \cup Held(run[r].entries)
      BY <1>1, <2>1 DEF HeldBy, Captures
    <3>3. QED
      BY <1>1, <1>4, <1>6, <3>1, <3>2 DEF HeldBy
  <2>6. QED
    BY <1>1, <1>4, <1>5, <2>1, <2>2, <2>3, <2>4, <2>5, SoloMoves DEF SoloInv
<1>8. RestoreInv' /\ overlap' \in BOOLEAN
  BY <1>1, RestoreRests DEF VaultInv
<1>9. QED
  BY <1>5, <1>6, <1>7, <1>8 DEF VaultInv

\* A file past the end of the list leaves the list as it was.
LEMMA NewFile ==
  ASSUME NEW entries \in Seq(Vault!Lsns), NEW l, \A i \in DOMAIN entries : entries[i] # l,
         \A k \in Vault!Lsns : k # l => files'[k] = files[k]
  PROVE  Held(entries)' = Held(entries) /\ (Shaped(entries) => Shaped(entries)')
<1>1. \A i \in DOMAIN entries : files'[entries[i]] = files[entries[i]]
  OBVIOUS
<1>2. Held(entries)' = Held(entries)
  BY <1>1 DEF Held
<1>3. Shaped(entries) => Shaped(entries)'
  <2>1. \A i \in DOMAIN entries : FollowsOn(entries[i]) => FollowsOn(entries[i])'
    BY <1>1 DEF FollowsOn
  <2>2. entries # <<>> => 1 \in DOMAIN entries
    OBVIOUS
  <2>3. QED
    BY <1>1, <2>1, <2>2 DEF Shaped
<1>4. QED
  BY <1>2, <1>3

\* The last entry of a chain is the highest.
LEMMA LastIsHighest ==
  ASSUME VaultConstants, NEW entries \in Seq(Vault!Lsns), Chained(entries), entries # <<>>
  PROVE  /\ entries[1] \in Nat /\ entries[Len(entries)] \in Nat
         /\ \A i \in DOMAIN entries : entries[i] \in Nat /\ entries[i] <= entries[Len(entries)]
         /\ Len(entries) <= MaxLsn + 1 /\ Len(entries) \in DOMAIN entries
<1>1. /\ Len(entries) \in Nat /\ Len(entries) >= 1 /\ DOMAIN entries = 1..Len(entries)
      /\ \A i \in DOMAIN entries : entries[i] \in 0..MaxLsn
  <2>1. /\ Len(entries) \in Nat /\ Len(entries) >= 1 /\ DOMAIN entries = 1..Len(entries)
        /\ \A i \in DOMAIN entries : entries[i] \in Vault!Lsns
    OBVIOUS
  <2>2. QED
    BY <2>1 DEF Vault!Lsns
<1>2. \A i \in DOMAIN entries : entries[i] + 1 = entries[1] + i
  BY DEF Chained
<1>3. 1 \in DOMAIN entries /\ Len(entries) \in DOMAIN entries
  BY <1>1
<1>4. /\ entries[1] \in Nat /\ entries[Len(entries)] \in Nat /\ entries[Len(entries)] <= MaxLsn
      /\ entries[Len(entries)] + 1 = entries[1] + Len(entries)
  BY <1>1, <1>2, <1>3 DEF VaultConstants
<1>5. ASSUME NEW i \in DOMAIN entries
      PROVE  entries[i] \in Nat /\ entries[i] <= entries[Len(entries)]
  <2>1. i \in Nat /\ i <= Len(entries) /\ entries[i] \in Nat /\ entries[i] + 1 = entries[1] + i
    BY <1>1, <1>2, <1>5 DEF VaultConstants
  <2>2. QED
    BY <1>1, <1>4, <2>1
<1>6. Len(entries) <= MaxLsn + 1
  BY <1>1, <1>4 DEF VaultConstants
<1>7. QED
  BY <1>3, <1>4, <1>5, <1>6

LEMMA WriteIncrementKeeps ==
  ASSUME VaultConstants, VaultInv, target.pc = "idle", NEW r \in Runs, Vault!WriteIncrement(r)
  PROVE  VaultInv'
<1>0. PICK l : l = run[r].lsn + 1
  OBVIOUS
<1> DEFINE f == [writes |-> run[r].writes, mark |-> run[r].mark, lsn |-> l, previous |-> run[r].lsn]
<1>1. /\ run' = [run EXCEPT ![r].pc = "list", ![r].lsn = @ + 1]
      /\ run[r].pc = "file" /\ files' = [files EXCEPT ![l] = f]
      /\ UNCHANGED <<main, wal, committed, manifest, lost, promised, overlap, target>>
  BY <1>0 DEF Vault!WriteIncrement
<1>2. /\ run[r] \in RunStates /\ Placed(run[r]) /\ run[r].lsn \in Vault!Lsns /\ l \in Vault!Lsns
      /\ run[r].writes \cup run[r].due \subseteq committed
      /\ run[r].entries \in Seq(Vault!Lsns) /\ Chained(run[r].entries) /\ run[r].entries # <<>>
      /\ run[r].entries[Len(run[r].entries)] = run[r].lsn /\ l = run[r].lsn + 1 /\ l \in Nat
      /\ files \in [Vault!Lsns -> Increments] /\ f \in Increments
  <2>1. /\ run[r] \in RunStates /\ Placed(run[r]) /\ run[r].lsn \in Vault!Lsns
        /\ run[r].writes \cup run[r].due \subseteq committed /\ run[r].writes \subseteq Writes
        /\ run[r].mark \in Vault!Lsns /\ run[r].entries \in Seq(Vault!Lsns)
        /\ files \in [Vault!Lsns -> Increments] /\ run[r].lsn < MaxLsn
    BY <1>1 DEF VaultInv, ChainInv, RunStates, Placed
  <2>2. l \in Vault!Lsns /\ l \in Nat
    BY <1>0, <2>1 DEF Vault!Lsns, VaultConstants
  <2>3. QED
    BY <1>0, <1>1, <2>1, <2>2 DEF Placed, Increments
<1>3. PICK b : b = [run[r] EXCEPT !.pc = "list", !.lsn = l]
  OBVIOUS
<1>4. /\ b \in RunStates /\ b.pc = "list" /\ b.lsn = l /\ b.writes = run[r].writes
      /\ b.due = run[r].due /\ run' = [run EXCEPT ![r] = b] /\ b.entries = run[r].entries
  BY <1>0, <1>1, <1>2, <1>3 DEF RunStates, Captures
<1>5. /\ FilesKeep /\ files'[l].lsn = l /\ files'[l].writes = run[r].writes
      /\ files'[l].mark = run[r].mark /\ files'[l].previous = run[r].lsn
      /\ \A k \in Vault!Lsns : k # l => files'[k] = files[k]
  BY <1>1, <1>2 DEF FilesKeep
<1> HIDE DEF f
<1>6. ChainInv' /\ \A q \in Runs : run'[q] = IF q = r THEN b ELSE run[q]
  <2>1. Chained(b.entries)'
    BY <1>2, <1>4, <1>5, ChainStays
  <2>2. Placed(b)'
    BY <1>2, <1>4, <1>5, <2>1 DEF Placed
  <2>3. QED
    BY <1>1, <1>2, <1>4, <1>5, <2>2, ChainMoves DEF VaultInv, ChainInv
<1>7. DbInv' /\ Vault!LastLsn' = Vault!LastLsn
  BY <1>1 DEF VaultInv, DbInv, Vault!LastLsn
<1>8. ASSUME ~overlap' PROVE SoloInv'
  <2>1. SoloInv /\ OthersIdle(r) /\ run[r].entries = manifest /\ MarksFollow(run[r]) /\ HeldBy(run[r])
    BY <1>1, <1>8, Alone
  <2>2. PICK m : m = manifest
    OBVIOUS
  <2>3. \A i \in DOMAIN m : m[i] # l
    BY <1>2, <2>1, <2>2, LastIsHighest
  <2>4. m \in Seq(Vault!Lsns) /\ Shaped(m)
    BY <1>2, <2>1, <2>2 DEF SoloInv
  <2>5. Held(m)' = Held(m) /\ Shaped(m)'
    BY <1>5, <2>3, <2>4, NewFile
  <2>6. Held(manifest)' = Held(manifest) /\ Shaped(manifest)'
    BY <1>1, <2>2, <2>5 DEF Held, Shaped
  <2>7. HeldAtRest'
    BY <1>4, <1>6 DEF HeldAtRest, Captures
  <2>8. MarksFollow(b)'
    <3>1. Vault!LastLsn' = l /\ run[r].mark \in {0, run[r].lsn}
      BY <1>1, <1>2, <1>7, <2>1 DEF MarksFollow
    <3>2. FollowsOn(l)'
      BY <1>2, <1>5, <3>1 DEF FollowsOn
    <3>3. QED
      BY <1>2, <1>4, <1>5, <3>1, <3>2 DEF MarksFollow, FollowsOn
  <2>9. HeldBy(b)'
    <3>1. Held(b.entries)' = Held(run[r].entries)
      BY <1>4, <2>1, <2>2, <2>5 DEF Held
    <3>2. /\ committed \subseteq lost \cup wal.writes \cup run[r].writes \cup Held(run[r].entries)
          /\ run[r].due \subseteq lost \cup run[r].writes \cup Held(run[r].entries)
      BY <1>1, <2>1 DEF HeldBy, Captures
    <3>3. QED
      BY <1>1, <1>4, <3>1, <3>2 DEF HeldBy
  <2>10. QED
    BY <1>1, <1>4, <1>6, <2>1, <2>6, <2>7, <2>8, <2>9, SoloMoves DEF SoloInv
<1>9. RestoreInv' /\ overlap' \in BOOLEAN
  BY <1>1, RestoreRests DEF VaultInv
<1>10. QED
  BY <1>6, <1>7, <1>8, <1>9 DEF VaultInv

LEMMA WriteManifestKeeps ==
  ASSUME VaultConstants, VaultInv, target.pc = "idle", NEW r \in Runs, Vault!WriteManifest(r)
  PROVE  VaultInv'
<1>0. PICK e, l, m : e = run[r].entries /\ l = run[r].lsn /\ m = Append(run[r].entries, run[r].lsn)
  OBVIOUS
<1>1. /\ run' = [run EXCEPT ![r] = Vault!Idle] /\ run[r].pc = "list"
      /\ manifest' = m /\ promised' = run[r].due
      /\ UNCHANGED <<main, wal, committed, files, lost, overlap, target>>
  BY <1>0 DEF Vault!WriteManifest
<1>2. /\ run[r] \in RunStates /\ Placed(run[r]) /\ run[r].writes \cup run[r].due \subseteq committed
      /\ e \in Seq(Vault!Lsns) /\ l \in Vault!Lsns /\ ChainInv /\ Chained(e)
      /\ files[l].lsn = l /\ (e # <<>> => l = e[Len(e)] + 1)
  BY <1>0, <1>1 DEF VaultInv, ChainInv, RunStates, Placed
<1>3. /\ m \in Seq(Vault!Lsns) /\ m # <<>> /\ Len(m) = Len(e) + 1 /\ DOMAIN m = DOMAIN e \cup {Len(e) + 1}
      /\ m[Len(m)] = l /\ \A i \in DOMAIN e : m[i] = e[i]
      /\ Len(e) \in Nat /\ DOMAIN e = 1..Len(e)
  BY <1>0, <1>2
<1>4. Chained(m)
  <2>1. CASE e = <<>>
    <3>1. DOMAIN m = {1} /\ m[1] = l
      BY <1>3, <2>1
    <3>2. QED
      BY <1>2, <3>1 DEF Chained, Vault!Lsns, VaultConstants
  <2>2. CASE e # <<>>
    <3>1. /\ m[1] = e[1] /\ e[1] \in Nat /\ e[Len(e)] \in Nat /\ e[Len(e)] + 1 = e[1] + Len(e)
          /\ \A i \in DOMAIN e : e[i] + 1 = e[1] + i /\ files[e[i]].lsn = e[i]
      BY <1>2, <1>3, <2>2, LastIsHighest DEF Chained
    <3>2. l + 1 = m[1] + (Len(e) + 1)
      <4>1. l = e[Len(e)] + 1 /\ Len(e) \in Nat
        BY <1>2, <1>3, <2>2
      <4>2. QED
        BY <3>1, <4>1
    <3>3. QED
      BY <1>2, <1>3, <3>1, <3>2 DEF Chained
  <2>3. QED
    BY <2>1, <2>2
<1>5. PICK b : b = Vault!Idle
  OBVIOUS
<1>6. /\ b \in RunStates /\ b.pc = "idle" /\ b.writes = {} /\ b.due = {}
      /\ Placed(b)' /\ MarksFollow(b)' /\ HeldBy(b)'
  BY <1>2, <1>5, IdleRun
<1>7. ChainInv' /\ \A q \in Runs : run'[q] = IF q = r THEN b ELSE run[q]
  <2>1. Chained(manifest)'
    BY <1>1, <1>4 DEF Chained
  <2>2. FilesKeep /\ run' = [run EXCEPT ![r] = b] /\ manifest' \in Seq(Vault!Lsns)
    BY <1>1, <1>2, <1>3, <1>5, FilesRest
  <2>3. b.writes \cup b.due \subseteq committed' /\ committed \subseteq committed'
    BY <1>1, <1>6
  <2>4. QED
    BY <1>2, <1>6, <2>1, <2>2, <2>3, ChainMoves
<1>8. DbInv' /\ Vault!LastLsn' = Vault!LastLsn
  BY <1>1, <1>2 DEF VaultInv, DbInv, Vault!LastLsn
<1>9. ASSUME ~overlap' PROVE SoloInv'
  <2>1. /\ SoloInv /\ OthersIdle(r) /\ e = manifest /\ Shaped(manifest)
        /\ MarksFollow(run[r]) /\ HeldBy(run[r])
    BY <1>0, <1>1, <1>9, Alone DEF SoloInv
  <2>2. /\ Vault!LastLsn = l /\ files[l].writes = run[r].writes
        /\ e = <<>> => files[l].mark = l
        /\ e # <<>> => FollowsOn(l)
    BY <1>0, <1>1, <2>1 DEF MarksFollow
  <2>3. Held(m) = Held(e) \cup run[r].writes
    BY <1>3, <2>2 DEF Held
  <2>4. Shaped(m)
    <3>1. CASE e = <<>>
      <4>1. DOMAIN m = {1} /\ m[1] = l
        BY <1>3, <3>1
      <4>2. QED
        BY <2>2, <3>1, <4>1 DEF Shaped
    <3>2. CASE e # <<>>
      <4>1. m[1] = e[1] /\ m[Len(e) + 1] = l
        BY <1>3, <3>2
      <4>2. QED
        BY <1>3, <2>1, <2>2, <3>2, <4>1 DEF Shaped
    <3>3. QED
      BY <3>1, <3>2
  <2>5. Held(manifest)' = Held(m) /\ Shaped(manifest)'
    BY <1>1, <2>4 DEF Held, Shaped, FollowsOn
  <2>6. /\ committed \subseteq lost \cup wal.writes \cup Held(m)
        /\ run[r].due \subseteq lost \cup Held(m)
    BY <1>0, <1>1, <2>1, <2>3 DEF HeldBy, Captures
  <2>7. HeldAtRest'
    BY <1>1, <2>5, <2>6 DEF HeldAtRest
  <2>8. promised' \subseteq lost' \cup Held(manifest)'
    BY <1>1, <2>5, <2>6
  <2>9. QED
    BY <1>6, <1>7, <2>1, <2>5, <2>7, <2>8, SoloMoves
<1>10. RestoreInv' /\ overlap' \in BOOLEAN
  BY <1>1, RestoreRests DEF VaultInv
<1>11. QED
  BY <1>7, <1>8, <1>9, <1>10 DEF VaultInv

LEMMA AbortKeeps ==
  ASSUME VaultConstants, VaultInv, target.pc = "idle", NEW r \in Runs, Vault!Abort(r)
  PROVE  VaultInv'
<1>1. /\ run' = [run EXCEPT ![r] = Vault!Idle] /\ run[r].pc # "idle"
      /\ lost' = IF run[r].pc \in {"truncate", "number"} THEN lost \cup (run[r].writes \ wal.writes) ELSE lost
      /\ UNCHANGED <<main, wal, committed, files, manifest, promised, overlap, target>>
  BY DEF Vault!Abort
<1>2. /\ run[r] \in RunStates /\ Placed(run[r]) /\ run[r].writes \cup run[r].due \subseteq committed
      /\ ChainInv /\ manifest \in Seq(Vault!Lsns)
  BY DEF VaultInv, ChainInv
<1>3. PICK b : b = Vault!Idle
  OBVIOUS
<1>4. /\ b \in RunStates /\ b.pc = "idle" /\ b.writes = {} /\ b.due = {}
      /\ Placed(b)' /\ MarksFollow(b)' /\ HeldBy(b)'
  BY <1>2, <1>3, IdleRun
<1>5. ChainInv' /\ \A q \in Runs : run'[q] = IF q = r THEN b ELSE run[q]
  BY <1>1, <1>2, <1>3, <1>4, FilesRest, ChainMoves
<1>6. DbInv' /\ Vault!LastLsn' = Vault!LastLsn /\ lost \subseteq lost'
  <2>1. lost' \subseteq committed' /\ lost \subseteq lost'
    BY <1>1, <1>2 DEF VaultInv, DbInv
  <2>2. QED
    BY <1>1, <2>1 DEF VaultInv, DbInv, Vault!LastLsn
<1>7. ASSUME ~overlap' PROVE SoloInv'
  <2>1. /\ SoloInv /\ OthersIdle(r) /\ run[r].entries = manifest
        /\ MarksFollow(run[r]) /\ HeldBy(run[r])
    BY <1>1, <1>7, Alone
  <2>2. Held(manifest)' = Held(manifest) /\ Shaped(manifest)'
    BY <1>1, <2>1, ListStays DEF SoloInv
  <2>3. HeldAtRest'
    <3>1. CASE run[r].pc \notin Captures
      <4>1. \A q \in Runs : run[q].pc \notin Captures
        BY <2>1, <3>1 DEF OthersIdle, Captures
      <4>2. QED
        BY <1>1, <1>6, <2>1, <2>2, <4>1 DEF SoloInv, HeldAtRest
    <3>2. CASE run[r].pc \in {"truncate", "number"}
      <4>1. committed \subseteq lost \cup wal.writes \cup run[r].writes \cup Held(manifest)
        BY <2>1, <3>2 DEF HeldBy, Captures
      <4>2. QED
        BY <1>1, <2>2, <3>2, <4>1 DEF HeldAtRest
    <3>3. CASE run[r].pc \in {"file", "list"}
      <4>1. manifest # <<>> => manifest[Len(manifest)] \in Nat
        BY <1>2, LastIsHighest DEF ChainInv
      <4>2. manifest # <<>> => Vault!LastLsn = manifest[Len(manifest)] + 1
        BY <1>2, <2>1, <3>3 DEF MarksFollow, Placed
      <4>3. QED
        BY <1>1, <1>6, <4>1, <4>2 DEF HeldAtRest
    <3>4. QED
      BY <3>1, <3>2, <3>3 DEF Captures
  <2>4. promised' \subseteq lost' \cup Held(manifest)'
    BY <1>1, <1>6, <2>1, <2>2 DEF SoloInv
  <2>5. QED
    BY <1>4, <1>5, <2>1, <2>2, <2>3, <2>4, SoloMoves
<1>8. RestoreInv' /\ overlap' \in BOOLEAN
  BY <1>1, RestoreRests DEF VaultInv
<1>9. QED
  BY <1>5, <1>6, <1>7, <1>8 DEF VaultInv

---------------------------------------------------------------------------
(* The other connections, and restore.                                     *)

LEMMA CommitKeeps ==
  ASSUME VaultConstants, VaultInv, target.pc = "idle",
         Vault!Checkpoint \/ \E w \in Writes : Vault!Commit(w)
  PROVE  VaultInv'
<1>1. /\ LogMerges \/ \E w \in Writes : LogGrows(w) \/ LogRestarts(w)
      /\ UNCHANGED <<files, manifest, run, promised, overlap, target>>
      /\ lost' = lost \/ lost' = lost \cup Vault!Unread
      /\ wal.writes \subseteq wal'.writes \/ lost' = lost \cup Vault!Unread
      /\ committed \subseteq committed'
  <2>1. CASE Vault!Checkpoint
    BY <2>1 DEF Vault!Checkpoint, LogMerges
  <2>2. ASSUME NEW w \in Writes, Vault!Commit(w)
        PROVE  /\ LogMerges \/ \E x \in Writes : LogGrows(x) \/ LogRestarts(x)
               /\ UNCHANGED <<files, manifest, run, promised, overlap, target>>
               /\ lost' = lost \/ lost' = lost \cup Vault!Unread
               /\ wal.writes \subseteq wal'.writes \/ lost' = lost \cup Vault!Unread
               /\ committed \subseteq committed'
    <3>1. CASE LogGrows(w) /\ lost' = lost
      <4>1. wal.writes \subseteq wal'.writes
        BY <3>1 DEF LogGrows, VaultInv, DbInv
      <4>2. QED
        BY <2>2, <3>1, <4>1 DEF Vault!Commit
    <3>2. CASE LogRestarts(w) /\ lost' = lost \cup Vault!Unread
      BY <2>2, <3>2 DEF Vault!Commit
    <3>3. QED
      BY <2>2, <3>1, <3>2 DEF Vault!Commit, LogGrows, LogRestarts
  <2>3. QED
    BY <2>1, <2>2
<1>2. /\ DbInv' /\ Vault!LastLsn' = Vault!LastLsn /\ lost \subseteq lost'
      /\ wal.mark = 0 => wal'.mark = 0 /\ main'.mark = main.mark
      /\ committed' \subseteq committed \cup wal'.writes
  <2>1. lost' \subseteq committed' /\ promised' \subseteq committed' /\ lost \subseteq lost'
    BY <1>1 DEF VaultInv, DbInv, Vault!Unread
  <2>2. QED
    BY <1>1, <2>1, LogMoves DEF VaultInv
<1>3. ChainInv'
  BY <1>1, ChainRests DEF VaultInv
<1>4. ASSUME ~overlap' PROVE SoloInv'
  <2>1. SoloInv
    BY <1>1, <1>4 DEF VaultInv
  <2>2. /\ Held(manifest)' = Held(manifest) /\ Shaped(manifest)'
        /\ \A entries : Held(entries)' = Held(entries)
        /\ \A l : FollowsOn(l)' = FollowsOn(l)
    BY <1>1, <2>1, ListStays DEF SoloInv
  <2>3. HeldAtRest'
    <3>1. SUFFICES ASSUME \A r \in Runs : run[r].pc \notin Captures, manifest # <<>>,
                          Vault!LastLsn = manifest[Len(manifest)]
                   PROVE  committed' \subseteq lost' \cup wal'.writes \cup Held(manifest)
      BY <1>1, <1>2, <2>2 DEF HeldAtRest
    <3>2. wal.writes \subseteq lost' \cup wal'.writes
      BY <1>1, <3>1 DEF Vault!Unread, Captures
    <3>3. committed \subseteq lost \cup wal.writes \cup Held(manifest)
      BY <2>1, <3>1 DEF SoloInv, HeldAtRest
    <3>4. QED
      BY <1>2, <3>2, <3>3
  <2>4. ASSUME NEW r \in Runs, NEW c, c = run[r]
        PROVE  MarksFollow(c)' /\ HeldBy(c)'
    <3>1. MarksFollow(c) /\ HeldBy(c)
      BY <2>1, <2>4 DEF SoloInv
    <3>2. MarksFollow(c)'
      BY <1>1, <1>2, <2>2, <3>1 DEF MarksFollow
    <3>3. ASSUME c.pc \in Captures
          PROVE  /\ committed' \subseteq lost' \cup wal'.writes \cup c.writes \cup Held(c.entries)
                 /\ c.due \subseteq lost' \cup c.writes \cup Held(c.entries)
      <4>1. wal.writes \subseteq lost' \cup wal'.writes \cup c.writes
        <5>1. \A q \in Runs : run[q].pc \in Captures => q = r
          BY <2>1, <2>4, <3>3 DEF SoloInv, OneAtOnce, Captures
        <5>2. QED
          BY <1>1, <2>4, <5>1 DEF Vault!Unread, Captures
      <4>2. /\ committed \subseteq lost \cup wal.writes \cup c.writes \cup Held(c.entries)
            /\ c.due \subseteq lost \cup c.writes \cup Held(c.entries)
        BY <3>1, <3>3 DEF HeldBy
      <4>3. QED
        BY <1>2, <4>1, <4>2
    <3>4. HeldBy(c)'
      BY <2>2, <3>3 DEF HeldBy
    <3>5. QED
      BY <3>2, <3>4
  <2>5. \A r \in Runs : MarksFollow(run[r])' /\ HeldBy(run[r])'
    BY <1>1, <2>4 DEF MarksFollow, HeldBy, Held
  <2>6. QED
    BY <1>1, <1>2, <2>1, <2>2, <2>3, <2>5 DEF SoloInv, OneAtOnce
<1>5. RestoreInv' /\ overlap' \in BOOLEAN
  BY <1>1, RestoreRests DEF VaultInv
<1>6. QED
  BY <1>2, <1>3, <1>4, <1>5 DEF VaultInv

\* Nothing but the restored database changes.
LEMMA SourceRests ==
  ASSUME VaultInv, UNCHANGED <<main, wal, committed, files, manifest, run, lost, promised, overlap>>
  PROVE  DbInv' /\ ChainInv' /\ (overlap \in BOOLEAN)' /\ (~overlap => SoloInv)'
<1>1. DbInv' /\ Vault!LastLsn' = Vault!LastLsn
  BY DEF VaultInv, DbInv, Vault!LastLsn
<1>2. ChainInv' /\ (overlap \in BOOLEAN)'
  BY ChainRests DEF VaultInv
<1>3. ~overlap => SoloInv'
  <2>1. SUFFICES ASSUME ~overlap PROVE SoloInv'
    OBVIOUS
  <2>2. SoloInv
    BY <2>1 DEF VaultInv
  <2>3. Shaped(manifest)' /\ Held(manifest)' = Held(manifest)
    BY <2>2, ListStays DEF SoloInv
  <2>4. \A r \in Runs : MarksFollow(run[r])' /\ HeldBy(run[r])'
    BY <1>1, <2>2 DEF SoloInv, MarksFollow, HeldBy, Held, FollowsOn
  <2>5. HeldAtRest' /\ OneAtOnce'
    BY <1>1, <2>2, <2>3 DEF SoloInv, HeldAtRest, OneAtOnce
  <2>6. QED
    BY <2>2, <2>3, <2>4, <2>5 DEF SoloInv
<1>4. QED
  BY <1>1, <1>2, <1>3

LEMMA RestoreFullKeeps ==
  ASSUME VaultConstants, VaultInv, NEW stop \in Vault!Lsns, Vault!RestoreFull(stop)
  PROVE  VaultInv'
<1>1. /\ manifest # <<>> /\ \A r \in Runs : run[r].pc = "idle"
      /\ UNCHANGED <<main, wal, committed, files, manifest, run, lost, promised, overlap>>
  BY DEF Vault!RestoreFull
<1>2. PICK full : full = files[manifest[1]]
  OBVIOUS
<1>3. target' = [pc |-> IF full.lsn > stop THEN "refused" ELSE "apply", entries |-> manifest,
                 stop |-> stop, writes |-> full.writes, lsn |-> full.mark, whole |-> TRUE]
  BY <1>2 DEF Vault!RestoreFull
<1>4. /\ manifest \in Seq(Vault!Lsns) /\ 1 \in DOMAIN manifest /\ manifest[1] \in Vault!Lsns
      /\ full \in Increments /\ full.lsn = manifest[1]
  <2>1. manifest \in Seq(Vault!Lsns) /\ Chained(manifest) /\ files \in [Vault!Lsns -> Increments]
    BY DEF VaultInv, ChainInv
  <2>2. 1 \in DOMAIN manifest /\ manifest[1] \in Vault!Lsns
    BY <1>1, <2>1
  <2>3. QED
    BY <1>2, <2>1, <2>2 DEF Chained
<1>5. /\ target'.pc = (IF full.lsn > stop THEN "refused" ELSE "apply") /\ target'.entries = manifest
      /\ target'.stop = stop /\ target'.writes = full.writes /\ target'.lsn = full.mark
      /\ target' \in [pc : {"idle", "apply", "done", "refused", "rejected"}, entries : Seq(Vault!Lsns),
                 stop : Vault!Lsns, writes : SUBSET Writes, lsn : Vault!Lsns, whole : BOOLEAN]
  BY <1>3, <1>4 DEF Increments
<1>6. ASSUME ~overlap', target'.pc = "apply" PROVE Applied(1)'
  <2>1. Shaped(manifest)
    BY <1>1, <1>6 DEF VaultInv, SoloInv
  <2>2. target'.lsn = manifest[1] /\ manifest[1] <= stop
    <3>1. full.mark = manifest[1]
      BY <1>1, <1>2, <2>1 DEF Shaped
    <3>2. ~(full.lsn > stop) /\ full.lsn \in Nat /\ stop \in Nat
      BY <1>4, <1>5, <1>6 DEF Vault!Lsns, VaultConstants
    <3>3. QED
      BY <1>4, <1>5, <3>1, <3>2
  <2>3. target'.writes = UNION {files[manifest[i]].writes : i \in 1..1}
    <3>1. 1..1 = {1}
      OBVIOUS
    <3>2. QED
      BY <1>2, <1>5, <3>1
  <2>4. QED
    BY <1>1, <1>4, <1>5, <2>2, <2>3 DEF Applied
<1>7. RestoreInv'
  <2>1. target'.pc # "rejected" /\ target'.pc # "done"
    BY <1>5
  <2>2. QED
    BY <1>1, <1>4, <1>5, <1>6, <2>1 DEF RestoreInv
<1>8. QED
  BY <1>1, <1>7, SourceRests DEF VaultInv

LEMMA VaultCardinality == \A S : Vault!Cardinality(S) = Cardinality(S)
BY DEF Vault!Cardinality, Cardinality

\* The entries at or below the k-th, and those at or below a stop before the next.
LEMMA FirstEntries ==
  ASSUME VaultConstants, NEW m \in Seq(Vault!Lsns), Chained(m), NEW k \in DOMAIN m, NEW n \in Nat,
         m[k] <= n, k + 1 \in DOMAIN m => m[k + 1] > n
  PROVE  {i \in DOMAIN m : m[i] <= n} = 1..k /\ Cardinality(1..k) = k
<1>1. /\ DOMAIN m = 1..Len(m) /\ Len(m) \in Nat /\ k \in 1..Len(m)
      /\ m[1] \in Nat /\ \A i \in 1..Len(m) : m[i] \in Nat /\ m[i] + 1 = m[1] + i
  <2>1. DOMAIN m = 1..Len(m) /\ Len(m) \in Nat /\ m # <<>>
    OBVIOUS
  <2>2. QED
    BY <2>1, LastIsHighest DEF Chained
<1>2. ASSUME NEW i \in 1..Len(m) PROVE m[i] <= n <=> i <= k
  <2>1. CASE k + 1 \in 1..Len(m)
    <3>1. m[k] + 1 = m[1] + k /\ m[k + 1] + 1 = m[1] + (k + 1) /\ m[i] + 1 = m[1] + i
      BY <1>1, <2>1
    <3>2. m[k + 1] > n /\ m[k] \in Nat /\ m[k + 1] \in Nat /\ m[i] \in Nat /\ k \in Nat /\ i \in Nat
      BY <1>1, <2>1
    <3>3. QED
      BY <1>1, <3>1, <3>2
  <2>2. CASE k + 1 \notin 1..Len(m)
    <3>1. k = Len(m)
      BY <1>1, <2>2
    <3>2. m[k] + 1 = m[1] + k /\ m[i] + 1 = m[1] + i /\ m[k] \in Nat /\ m[i] \in Nat
      BY <1>1
    <3>3. QED
      BY <1>1, <3>1, <3>2
  <2>3. QED
    BY <2>1, <2>2
<1>3. {i \in DOMAIN m : m[i] <= n} = 1..k
  BY <1>1, <1>2
<1>4. Cardinality(1..k) = k
  BY <1>1, FS_Interval
<1>5. QED
  BY <1>3, <1>4

LEMMA ApplyNextKeeps ==
  ASSUME VaultConstants, VaultInv, NEW taken \in 0..(MaxLsn + 1), NEW replayed \in BOOLEAN,
         Vault!ApplyNext(taken, replayed)
  PROVE  VaultInv'
<1> DEFINE Targets == [pc : {"idle", "apply", "done", "refused", "rejected"}, entries : Seq(Vault!Lsns),
                       stop : Vault!Lsns, writes : SUBSET Writes, lsn : Vault!Lsns, whole : BOOLEAN]
<1>1. /\ target.pc = "apply" /\ target \in Targets /\ target.entries = manifest
      /\ \A r \in Runs : run[r].pc = "idle"
      /\ UNCHANGED <<main, wal, committed, files, manifest, run, lost, promised, overlap>>
  BY DEF Vault!ApplyNext, VaultInv, RestoreInv
<1>2. /\ manifest \in Seq(Vault!Lsns) /\ Chained(manifest) /\ files \in [Vault!Lsns -> Increments]
      /\ Len(manifest) \in Nat /\ DOMAIN manifest = 1..Len(manifest)
      /\ taken \in Nat /\ target.stop \in Nat /\ target.lsn \in Vault!Lsns
  BY <1>1 DEF VaultInv, ChainInv, Vault!Lsns, VaultConstants
<1>3. Vault!Stops(taken) <=> taken >= Len(manifest) \/ manifest[taken + 1] > target.stop
  BY <1>1, <1>2 DEF Vault!Stops
<1>4. ASSUME ~overlap
      PROVE  /\ SoloInv /\ taken \in DOMAIN manifest /\ target.lsn = manifest[taken]
             /\ manifest[taken] \in Nat /\ manifest[taken] <= target.stop
             /\ target.whole => target.writes = UNION {files[manifest[i]].writes : i \in 1..taken}
  <2>1. PICK k \in DOMAIN manifest : Applied(k)
    BY <1>1, <1>4 DEF VaultInv, RestoreInv
  <2>2. /\ manifest[k] \in Nat /\ manifest # <<>>
        /\ k + 1 \in DOMAIN manifest => manifest[k + 1] \in Nat /\ manifest[k + 1] > manifest[k]
    <3>1. manifest # <<>>
      BY <1>2, <2>1
    <3>2. \A i \in DOMAIN manifest : manifest[i] \in Nat /\ manifest[i] + 1 = manifest[1] + i
      BY <1>2, <3>1, LastIsHighest DEF Chained
    <3>3. manifest[1] \in Nat /\ k \in Nat
      BY <1>2, <2>1, <3>1, LastIsHighest
    <3>4. QED
      BY <2>1, <3>1, <3>2, <3>3
  <2>3. {i \in DOMAIN manifest : manifest[i] <= manifest[k]} = 1..k /\ Cardinality(1..k) = k
    <3>1. PICK m : m = manifest
      OBVIOUS
    <3>2. {i \in DOMAIN m : m[i] <= m[k]} = 1..k /\ Cardinality(1..k) = k
      BY <1>2, <2>1, <2>2, <3>1, FirstEntries
    <3>3. QED
      BY <3>1, <3>2
  <2>4. taken = k
    BY <1>1, <2>1, <2>3, VaultCardinality DEF Vault!ApplyNext, Applied
  <2>5. QED
    BY <1>4, <2>1, <2>2, <2>4 DEF Applied, VaultInv
<1>5. CASE Vault!Stops(taken) /\ target' = [target EXCEPT !.pc = "done"]
  <2>1. /\ target' \in Targets /\ target'.pc = "done" /\ target'.entries = manifest
        /\ target'.writes = target.writes /\ target'.stop = target.stop /\ target'.whole = target.whole
    BY <1>1, <1>5
  <2>2. ASSUME ~overlap, target.whole
        PROVE  target.writes = UNION {files[manifest[i]].writes :
                  i \in {j \in DOMAIN manifest : manifest[j] <= target.stop}}
    <3>1. PICK m, n : m = manifest /\ n = target.stop
      OBVIOUS
    <3>2. taken + 1 \in DOMAIN m => m[taken + 1] > n
      BY <1>2, <1>3, <1>5, <3>1
    <3>3. {i \in DOMAIN m : m[i] <= n} = 1..taken
      BY <1>2, <1>4, <2>2, <3>1, <3>2, FirstEntries
    <3>4. QED
      BY <1>4, <2>2, <3>1, <3>3
  <2>3. RestoreInv'
    BY <1>1, <2>1, <2>2 DEF RestoreInv
  <2>4. QED
    BY <1>1, <2>3, SourceRests DEF VaultInv
<1>6. CASE ~Vault!Stops(taken)
  <2>1. taken + 1 \in DOMAIN manifest /\ ~(manifest[taken + 1] > target.stop)
    BY <1>2, <1>3, <1>6
  <2>2. PICK inc : inc = files[manifest[taken + 1]]
    OBVIOUS
  <2>3. inc \in Increments /\ inc.lsn = manifest[taken + 1] /\ inc.lsn \in Vault!Lsns
    BY <1>2, <2>1, <2>2 DEF Chained
  <2> DEFINE empty == inc.writes = {} /\ inc.mark = 0
             current == IF replayed /\ inc.mark > 0 THEN inc.mark ELSE target.lsn
  <2>4. target' = IF inc.previous # current THEN [target EXCEPT !.pc = "rejected"]
                  ELSE [target EXCEPT !.lsn = inc.lsn, !.whole = @ /\ (replayed \/ empty),
                           !.writes = IF replayed THEN @ \cup inc.writes ELSE @]
    BY <1>1, <1>6, <2>2 DEF Vault!ApplyNext
  <2>5. target' \in Targets /\ target'.entries = manifest /\ target'.stop = target.stop
    <3>1. [target EXCEPT !.pc = "rejected"] \in Targets /\ [target EXCEPT !.pc = "rejected"].entries = manifest
          /\ [target EXCEPT !.pc = "rejected"].stop = target.stop
      BY <1>1
    <3> DEFINE v == target.whole /\ (replayed \/ empty)
               x == IF replayed THEN target.writes \cup inc.writes ELSE target.writes
               t == [target EXCEPT !.lsn = inc.lsn, !.whole = v, !.writes = x]
    <3>2. v \in BOOLEAN /\ x \subseteq Writes
      BY <1>1, <2>3 DEF Increments
    <3> HIDE DEF v, x
    <3>3. t \in Targets /\ t.entries = manifest /\ t.stop = target.stop
      BY <1>1, <2>3, <3>2
    <3>4. target' = [target EXCEPT !.pc = "rejected"] \/ target' = t
      BY <2>4 DEF v, x
    <3>5. QED
      BY <3>1, <3>3, <3>4
  <2>6. ASSUME ~overlap
        PROVE  target'.pc = "apply" /\ Applied(taken + 1)'
    <3>1. inc.previous + 1 = manifest[taken + 1] /\ inc.mark \in {0, inc.previous}
      <4>1. Shaped(manifest) /\ taken + 1 > 1
        BY <1>2, <1>4, <2>6 DEF SoloInv
      <4>2. FollowsOn(manifest[taken + 1])
        BY <2>1, <4>1 DEF Shaped
      <4>3. QED
        BY <2>2, <4>2 DEF FollowsOn
    <3>2. manifest[taken + 1] = manifest[taken] + 1
      <4>1. /\ manifest[taken] + 1 = manifest[1] + taken
            /\ manifest[taken + 1] + 1 = manifest[1] + (taken + 1)
        BY <1>2, <1>4, <2>1, <2>6 DEF Chained
      <4>2. manifest # <<>>
        BY <1>2, <2>1
      <4>3. manifest[1] \in Nat /\ manifest[taken + 1] \in Nat
        BY <1>2, <2>1, <4>2, LastIsHighest
      <4>4. QED
        BY <1>2, <1>4, <2>6, <4>1, <4>3
    <3>3. inc.previous \in Nat /\ inc.mark \in Nat
      BY <2>3 DEF Increments, Vault!Lsns, VaultConstants
    <3>4. inc.previous = manifest[taken]
      BY <1>4, <2>6, <3>1, <3>2, <3>3
    <3>5. inc.previous = current
      BY <1>4, <2>6, <3>1, <3>3, <3>4
    <3>6. target' = [target EXCEPT !.lsn = inc.lsn, !.whole = @ /\ (replayed \/ empty),
                           !.writes = IF replayed THEN @ \cup inc.writes ELSE @]
      BY <2>4, <3>5
    <3> HIDE DEF current
    <3>7. /\ target'.pc = "apply" /\ target'.lsn = inc.lsn
          /\ target'.whole = (target.whole /\ (replayed \/ empty))
          /\ target'.writes = IF replayed THEN target.writes \cup inc.writes ELSE target.writes
      BY <1>1, <3>6
    <3>8. ASSUME target'.whole
          PROVE  target'.writes = UNION {files[manifest[i]].writes : i \in 1..(taken + 1)}
      <4>1. 1..(taken + 1) = (1..taken) \cup {taken + 1}
        BY <1>2
      <4>2. target.writes = UNION {files[manifest[i]].writes : i \in 1..taken}
        BY <1>4, <2>6, <3>7, <3>8
      <4>3. UNION {files[manifest[i]].writes : i \in 1..(taken + 1)} = target.writes \cup inc.writes
        BY <2>2, <4>1, <4>2
      <4>4. target'.writes = target.writes \cup inc.writes
        BY <3>7, <3>8
      <4>5. QED
        BY <4>3, <4>4
    <3>9. manifest[taken + 1] <= target.stop
      BY <1>2, <2>1, <2>3 DEF Vault!Lsns, VaultConstants
    <3>10. /\ taken + 1 \in DOMAIN manifest' /\ target'.lsn = manifest'[taken + 1]
           /\ manifest'[taken + 1] <= target'.stop
      BY <1>1, <2>1, <2>3, <2>5, <3>7, <3>9
    <3>11. target'.whole => target'.writes = UNION {files'[manifest'[i]].writes : i \in 1..(taken + 1)}
      BY <1>1, <3>8
    <3>12. QED
      BY <3>7, <3>10, <3>11 DEF Applied
  <2>7. RestoreInv'
    <3>1. target'.entries = manifest' /\ \A r \in Runs : run'[r].pc = "idle"
      BY <1>1, <2>5
    <3>2. ASSUME ~overlap'
          PROVE  /\ target'.pc = "apply"
                 /\ \E k \in DOMAIN manifest' : Applied(k)'
      <4>1. ~overlap
        BY <1>1, <3>2
      <4>2. target'.pc = "apply" /\ Applied(taken + 1)'
        BY <2>6, <4>1
      <4>3. taken + 1 \in DOMAIN manifest'
        BY <1>1, <2>1
      <4>4. QED
        BY <4>2, <4>3
    <3>3. ~overlap' => target'.pc # "rejected" /\ target'.pc # "done"
      BY <3>2
    <3>4. QED
      BY <2>5, <3>1, <3>2, <3>3 DEF RestoreInv
  <2>8. QED
    BY <1>1, <2>7, SourceRests DEF VaultInv
<1>7. QED
  BY <1>5, <1>6 DEF Vault!ApplyNext

---------------------------------------------------------------------------
LEMMA VaultInit == ASSUME VaultConstants, Vault!Init PROVE VaultInv
<1>1. 0 \in Vault!Lsns /\ <<>> \in Seq(Vault!Lsns) /\ DOMAIN <<>> = {}
  BY DEF VaultConstants, Vault!Lsns
<1>2. /\ main = [writes |-> {}, mark |-> 0] /\ wal = [writes |-> {}, mark |-> 0, flushed |-> FALSE]
      /\ committed = {} /\ lost = {} /\ promised = {} /\ overlap = FALSE /\ manifest = <<>>
      /\ files = [l \in Vault!Lsns |-> Vault!NoFile] /\ run = [r \in Runs |-> Vault!Idle]
      /\ target = Vault!Resting
  BY DEF Vault!Init
<1>3. DbInv
  BY <1>1, <1>2 DEF DbInv
<1>4. /\ Vault!Idle \in RunStates /\ Vault!Idle.pc = "idle" /\ Vault!Idle.entries = <<>>
      /\ Vault!Idle.writes = {} /\ Vault!Idle.due = {}
  BY <1>1 DEF Vault!Idle, RunStates
<1>5. Vault!NoFile \in Increments
  BY <1>1 DEF Vault!NoFile, Increments
<1>6. \A r \in Runs : run[r] = Vault!Idle
  BY <1>2
<1>7. ChainInv
  <2>1. Chained(manifest)
    BY <1>1, <1>2 DEF Chained
  <2>2. ASSUME NEW r \in Runs PROVE Placed(run[r])
    BY <1>1, <1>4, <1>6 DEF Placed, Chained
  <2>3. QED
    BY <1>1, <1>2, <1>4, <1>5, <1>6, <2>1, <2>2 DEF ChainInv
<1>8. SoloInv
  <2>1. \A r \in Runs : MarksFollow(run[r]) /\ HeldBy(run[r])
    BY <1>4, <1>6 DEF MarksFollow, HeldBy, Captures
  <2>2. Shaped(manifest) /\ HeldAtRest /\ OneAtOnce
    BY <1>1, <1>2, <1>4, <1>6 DEF Shaped, HeldAtRest, OneAtOnce
  <2>3. QED
    BY <1>2, <1>4, <1>6, <2>1, <2>2 DEF SoloInv
<1>9. RestoreInv
  <2>1. /\ target \in [pc : {"idle", "apply", "done", "refused", "rejected"}, entries : Seq(Vault!Lsns),
                 stop : Vault!Lsns, writes : SUBSET Writes, lsn : Vault!Lsns, whole : BOOLEAN]
        /\ target.pc = "idle"
    BY <1>1, <1>2 DEF Vault!Resting
  <2>2. QED
    BY <2>1 DEF RestoreInv
<1>10. QED
  BY <1>2, <1>3, <1>7, <1>8, <1>9 DEF VaultInv

LEMMA VaultStep ==
  ASSUME VaultConstants, VaultInv, [Vault!Next]_(Vault!vars)
  PROVE  VaultInv'
<1>1. CASE UNCHANGED Vault!vars
  <2>1. UNCHANGED <<main, wal, committed, files, manifest, run, lost, promised, overlap>> /\ target' = target
    BY <1>1 DEF Vault!vars
  <2>2. RestoreInv'
    BY <2>1 DEF VaultInv, RestoreInv, Applied
  <2>3. QED
    BY <2>1, <2>2, SourceRests DEF VaultInv
<1>2. ASSUME target.pc = "idle", NEW w \in Writes, Vault!Commit(w) PROVE VaultInv'
  BY <1>2, CommitKeeps
<1>3. ASSUME target.pc = "idle", Vault!Checkpoint PROVE VaultInv'
  BY <1>3, CommitKeeps
<1>4. ASSUME target.pc = "idle", NEW r \in Runs, Vault!BackupStep(r) PROVE VaultInv'
  BY <1>4, ReadManifestKeeps, FlushKeeps, FullLsnKeeps, SnapshotKeeps, CheckLsnKeeps, PassiveKeeps,
     ReadWalKeeps, TruncateKeeps, NumberKeeps, WriteIncrementKeeps, WriteManifestKeeps, AbortKeeps
     DEF Vault!BackupStep
<1>5. QED
  BY <1>1, <1>2, <1>3, <1>4, RestoreFullKeeps, ApplyNextKeeps DEF Vault!Next

\* What the runs check of incremental backups.
BackupsAreExact ==
  /\ Vault!TypeOK /\ Vault!ManifestIsAChain /\ Vault!ChainCoversCommitted /\ Vault!RestoreIsExact

LEMMA VaultImplies == ASSUME VaultConstants, VaultInv PROVE BackupsAreExact
<1>1. manifest \in Seq(Vault!Lsns) /\ Chained(manifest) /\ Len(manifest) \in Nat
  BY DEF VaultInv, ChainInv
<1>2. Len(manifest) <= MaxLsn + 1
  <2>1. CASE manifest = <<>>
    BY <2>1 DEF VaultConstants
  <2>2. CASE manifest # <<>>
    BY <1>1, <2>2, LastIsHighest
  <2>3. QED
    BY <2>1, <2>2
<1>3. Vault!TypeOK
  <2>1. main.writes \cup wal.writes \cup lost \cup promised \subseteq committed
    BY DEF VaultInv, DbInv
  <2>2. \A r \in Runs : run[r].lsn \in Vault!Lsns
    BY DEF VaultInv, ChainInv, RunStates
  <2>3. target.pc \in {"idle", "apply", "done", "refused", "rejected"}
    BY DEF VaultInv, RestoreInv
  <2>4. QED
    BY <1>1, <1>2, <2>1, <2>2, <2>3 DEF Vault!TypeOK
<1>4. Vault!ManifestIsAChain
  <2>1. ASSUME NEW i \in 1..(Len(manifest) - 1) PROVE manifest[i + 1] = manifest[i] + 1
    <3>1. i \in DOMAIN manifest /\ i + 1 \in DOMAIN manifest /\ i \in Nat /\ manifest # <<>>
      BY <1>1, <2>1
    <3>2. manifest[i] + 1 = manifest[1] + i /\ manifest[i + 1] + 1 = manifest[1] + (i + 1)
      BY <1>1, <3>1 DEF Chained
    <3>3. manifest[1] \in Nat /\ manifest[i] \in Nat /\ manifest[i + 1] \in Nat
      BY <1>1, <3>1, LastIsHighest
    <3>4. QED
      BY <3>1, <3>2, <3>3
  <2>2. QED
    BY <1>1, <2>1 DEF Chained, Vault!ManifestIsAChain
<1>5. Vault!ChainCoversCommitted
  BY DEF VaultInv, SoloInv, Held, Vault!ChainCoversCommitted
<1>6. Vault!RestoreIsExact
  BY DEF VaultInv, RestoreInv, Vault!RestoreIsExact
<1>7. QED
  BY <1>3, <1>4, <1>5, <1>6 DEF BackupsAreExact

(* Backups lose only what left the log unread: for any writes, backup
   processes and lsns, the manifest is a chain whatever runs overlap or are
   killed, backups that never overlap cover every committed write but those
   the model records as lost, and a restore from them is never turned away
   and ends with what the entries up to its stop hold.                     *)
THEOREM RestoreIsFaithful ==
  ASSUME VaultConstants
  PROVE  Vault!Spec => []BackupsAreExact
<1>1. Vault!Init => VaultInv
  BY VaultInit
<1>2. VaultInv /\ [Vault!Next]_(Vault!vars) => VaultInv'
  BY VaultStep
<1>3. VaultInv => BackupsAreExact
  BY VaultImplies
<1>4. QED
  BY <1>1, <1>2, <1>3, PTL DEF Vault!Spec

---------------------------------------------------------------------------
(* A copy is what was copied. A replicated row is what its author wrote,
   the next local stamp is above every row but those of a batch cut short,
   stores with the same rows show the same winner, and a peer that pages
   has what is behind its cursor. (Module Replication.)  The increments of
   the backup manifest follow one another and miss a committed write only if
   it left the log unread, and a restore holds exactly what they hold.
   (Module Backup.)  An import that reports success is complete, shows what
   was redacted, and adds to no session the target's agents had written to.
   (Module Transfer.)                                                      *)
CopiesAgree == PeersAgree /\ BackupsAreExact /\ ImportsAreExact

\* The three ways of copying together, for every value of their constants.
THEOREM CopiesAreFaithful ==
  ASSUME PeerConstants, VaultConstants, CarryConstants
  PROVE  Peers!Spec /\ Vault!Spec /\ Carry!Spec => []CopiesAgree
<1>1. PeersAgree /\ BackupsAreExact /\ ImportsAreExact => CopiesAgree
  BY DEF CopiesAgree
<1>2. QED
  BY <1>1, ReplicasAgree, RestoreIsFaithful, ImportIsComplete, PTL

---------------------------------------------------------------------------
(* Blobs.                                                                  *)

CONSTANTS Procs, Keys, Defaults, Routed, MaxInodes, MaxArtifacts, MaxBoots

VARIABLES boot, default, whole, tmp, path, objects, rows, proc, overlapped, removed

Blobs == INSTANCE BlobStore WITH MaxRows <- MaxArtifacts

Stores == {"file", "mem", "s3", "ipfs"}

BlobConstants ==
  /\ Blobs!Nothing \notin Keys /\ Defaults \subseteq Stores /\ Routed \subseteq Stores
  /\ MaxArtifacts \in Nat /\ MaxBoots \in Nat

\* What put_artifact records: only a memory store's host says more than its scheme.
Uris == {u \in [scheme : Stores, host : Nat, key : Keys] : u.scheme # "mem" => u.host = 0}

Places == [pc : {"idle", "row", "fill", "rename", "failed", "reading", "read"},
           key : Keys \cup {Blobs!Nothing}, file : Nat, uri : Uris \cup {Blobs!NoUri},
           got : {"none", "whole", "part", "not found"}]

ShelfInv ==
  /\ boot \in 0..MaxBoots /\ default \in Defaults
  /\ whole \in Seq(BOOLEAN)
  /\ tmp \in [Keys -> 0..Len(whole)] /\ path \in [Keys -> 0..Len(whole)]
  /\ rows \subseteq Uris /\ IsFiniteSet(rows) /\ Cardinality(rows) <= MaxArtifacts
  /\ overlapped \subseteq Keys
  /\ proc \in [Procs -> Places]

\* A file has one name, and one that was renamed is whole.
FilesApart ==
  /\ \A j, k \in Keys : tmp[j] # 0 => path[k] # tmp[j] /\ (tmp[k] = tmp[j] => j = k)
  /\ \A k \in Keys : path[k] # 0 => whole[path[k]] \/ k \in overlapped

\* A put that is alone with its key has its own file, and has filled it before
\* it renames it.
PutInv(c) ==
  c.pc \in Blobs!Writing =>
    /\ c.key \in Keys /\ c.file \in 1..Len(whole)
    /\ c.key \notin overlapped => tmp[c.key] = c.file /\ (c.pc = "rename" => whole[c.file])

\* A file that is being read is no put's any more.
OpenFileInv(c) ==
  /\ c.pc = "reading" =>
        /\ c.file \in 1..Len(whole) /\ \A k \in Keys : tmp[k] # c.file
        /\ whole[c.file] \/ c.uri.key \in overlapped
  /\ c.got = "part" => c.pc = "read" /\ c.uri.key \in overlapped
  /\ c.pc = "failed" => c.key \in overlapped

OneWriter ==
  \A p, q \in Procs : proc[p].pc \in Blobs!Writing /\ proc[q].pc \in Blobs!Writing /\ proc[p].key = proc[q].key
                         => p = q \/ proc[p].key \in overlapped

\* Where a uri's blob is, unless it was deleted or went with its process.
Kept(u) ==
  \/ u \in removed
  \/ u.scheme = "mem" /\ u.host < boot
  \/ u.scheme = "file" /\ path[u.key] # 0
  \/ u.scheme # "file" /\ [store |-> u.scheme, host |-> u.host, key |-> u.key] \in objects

KeptInv ==
  /\ \A u \in rows : Kept(u) /\ u.host <= boot
  /\ \A p \in Procs : proc[p].pc = "row" => proc[p].uri \in Uris /\ Kept(proc[p].uri) /\ proc[p].uri.host <= boot

BlobInv ==
  /\ ShelfInv /\ FilesApart /\ OneWriter /\ KeptInv
  /\ \A p \in Procs : PutInv(proc[p]) /\ OpenFileInv(proc[p])

LEMMA BlobTypes ==
  ASSUME BlobConstants
  PROVE  /\ Blobs!NoUri.key = Blobs!Nothing /\ Blobs!NoUri.scheme = "none" /\ Blobs!NoUri.host = 0
         /\ Blobs!Idle \in Places /\ Blobs!Idle.pc = "idle" /\ Blobs!Idle.key = Blobs!Nothing
         /\ Blobs!Idle.file = 0 /\ Blobs!Idle.uri = Blobs!NoUri /\ Blobs!Idle.got = "none"
BY DEF Blobs!NoUri, Blobs!Idle, Places

\* One process moves; what holds of the others goes on to hold.
LEMMA ProcMoves ==
  ASSUME BlobInv, NEW p \in Procs, NEW c \in Places, proc' = [proc EXCEPT ![p] = c],
         ShelfInv', FilesApart', overlapped \subseteq overlapped',
         \A u \in rows' : Kept(u)' /\ u.host <= boot',
         PutInv(c)', OpenFileInv(c)',
         c.pc = "row" => c.uri \in Uris /\ Kept(c.uri)' /\ c.uri.host <= boot',
         c.pc \in Blobs!Writing => \A q \in Procs \ {p} : proc[q].pc \in Blobs!Writing /\ proc[q].key = c.key
                                                            => c.key \in overlapped',
         \A q \in Procs \ {p}, b \in Places : b = proc[q] =>
            PutInv(b)' /\ OpenFileInv(b)' /\ (b.pc = "row" => Kept(b.uri)' /\ b.uri.host <= boot')
  PROVE  BlobInv'
<1>1. proc \in [Procs -> Places] /\ \A q \in Procs : proc'[q] = IF q = p THEN c ELSE proc[q]
  BY DEF BlobInv, ShelfInv
<1>2. ASSUME NEW q \in Procs, NEW b \in Places, b = proc'[q]
      PROVE  /\ PutInv(b)' /\ OpenFileInv(b)'
             /\ b.pc = "row" => b.uri \in Uris /\ Kept(b.uri)' /\ b.uri.host <= boot'
  <2>1. CASE q = p
    BY <1>1, <1>2, <2>1
  <2>2. CASE q # p
    <3>1. b = proc[q]
      BY <1>1, <1>2, <2>2
    <3>2. b.pc = "row" => b.uri \in Uris
      BY <3>1 DEF BlobInv, KeptInv
    <3>3. QED
      BY <2>2, <3>1, <3>2
  <2>3. QED
    BY <2>1, <2>2
<1>3. OneWriter'
  <2>1. SUFFICES ASSUME NEW q \in Procs, NEW r \in Procs, q # r,
                        proc'[q].pc \in Blobs!Writing, proc'[r].pc \in Blobs!Writing, proc'[q].key = proc'[r].key
                 PROVE  proc'[q].key \in overlapped'
    BY DEF OneWriter, Blobs!Writing
  <2>2. CASE q = p
    BY <1>1, <2>1, <2>2
  <2>3. CASE r = p
    BY <1>1, <2>1, <2>3
  <2>4. CASE q # p /\ r # p
    BY <1>1, <2>1, <2>4 DEF BlobInv, OneWriter
  <2>5. QED
    BY <2>2, <2>3, <2>4
<1>4. \A q \in Procs : proc'[q] \in Places
  BY DEF ShelfInv
<1>5. ASSUME NEW q \in Procs PROVE PutInv(proc[q])' /\ OpenFileInv(proc[q])'
  <2>1. PICK b \in Places : b = proc'[q]
    BY <1>4
  <2>2. PutInv(b)' /\ OpenFileInv(b)'
    BY <1>2, <2>1
  <2>3. QED
    BY <2>1, <2>2 DEF PutInv, OpenFileInv
<1>6. ASSUME NEW q \in Procs, proc'[q].pc = "row"
      PROVE  proc'[q].uri \in Uris /\ Kept(proc[q].uri)' /\ proc'[q].uri.host <= boot'
  <2>1. PICK b \in Places : b = proc'[q]
    BY <1>4
  <2>2. b.uri \in Uris /\ Kept(b.uri)' /\ b.uri.host <= boot'
    BY <1>2, <1>6, <2>1
  <2>3. QED
    BY <2>1, <2>2 DEF Kept
<1>7. KeptInv'
  BY <1>6 DEF KeptInv, Kept
<1>8. QED
  BY <1>3, <1>5, <1>7 DEF BlobInv

\* What a process reads or forgets changes nothing else.
LEMMA ProcOnly ==
  ASSUME BlobInv, NEW p \in Procs, NEW c \in Places, proc' = [proc EXCEPT ![p] = c],
         UNCHANGED <<boot, default, whole, tmp, path, objects, rows, overlapped, removed>>,
         c.pc \notin {"row", "fill", "rename"}, OpenFileInv(c)
  PROVE  BlobInv'
<1>1. proc' \in [Procs -> Places] /\ ShelfInv'
  BY DEF BlobInv, ShelfInv
<1>2. FilesApart'
  BY DEF BlobInv, FilesApart
<1>3. \A b : /\ PutInv(b) => PutInv(b)'
             /\ OpenFileInv(b) => OpenFileInv(b)'
  BY DEF PutInv, OpenFileInv
<1>4. \A u : Kept(u) => Kept(u)'
  BY DEF Kept
<1>5. PutInv(c)'
  BY DEF PutInv, Blobs!Writing
<1>6. \A u \in rows' : Kept(u)' /\ u.host <= boot'
  BY <1>4 DEF BlobInv, KeptInv
<1>7. \A q \in Procs \ {p}, b \in Places : b = proc[q] =>
            PutInv(b)' /\ OpenFileInv(b)' /\ (b.pc = "row" => Kept(b.uri)' /\ b.uri.host <= boot')
  BY <1>3, <1>4 DEF BlobInv, KeptInv
<1>8. OpenFileInv(c)'
  BY <1>3
<1>9. QED
  BY <1>1, <1>2, <1>5, <1>6, <1>7, <1>8, ProcMoves DEF Blobs!Writing

LEMMA ReturnKeeps ==
  ASSUME BlobConstants, BlobInv, NEW p \in Procs, Blobs!Return(p) \/ Blobs!Crash(p)
  PROVE  BlobInv'
<1>1. /\ proc' = [proc EXCEPT ![p] = Blobs!Idle]
      /\ UNCHANGED <<boot, default, whole, tmp, path, objects, rows, overlapped, removed>>
  BY DEF Blobs!Return, Blobs!Crash
<1>2. OpenFileInv(Blobs!Idle)
  BY BlobTypes DEF OpenFileInv
<1>3. QED
  BY <1>1, <1>2, BlobTypes, ProcOnly

LEMMA ReadToEndKeeps ==
  ASSUME BlobConstants, BlobInv, NEW p \in Procs, Blobs!ReadToEnd(p)
  PROVE  BlobInv'
<1>1. proc[p] \in Places /\ OpenFileInv(proc[p]) /\ proc[p].pc = "reading"
  BY DEF BlobInv, ShelfInv, Blobs!ReadToEnd
<1>2. PICK g : g = IF whole[proc[p].file] THEN "whole" ELSE "part"
  OBVIOUS
<1>3. g \in {"whole", "part"} /\ (g = "part" => ~whole[proc[p].file])
  BY <1>2
<1>4. PICK c : c = [proc[p] EXCEPT !.pc = "read", !.got = g]
  OBVIOUS
<1>5. c \in Places /\ c.pc = "read" /\ c.got = g /\ c.uri = proc[p].uri
  BY <1>1, <1>3, <1>4 DEF Places
<1>6. /\ proc' = [proc EXCEPT ![p] = c]
      /\ UNCHANGED <<boot, default, whole, tmp, path, objects, rows, overlapped, removed>>
  BY <1>2, <1>4 DEF Blobs!ReadToEnd, BlobInv, ShelfInv
<1>7. OpenFileInv(c)
  BY <1>1, <1>3, <1>5 DEF OpenFileInv
<1>8. QED
  BY <1>5, <1>6, <1>7, ProcOnly

\* What a backend makes of the uri of a row.
LEMMA KeysFrom ==
  ASSUME BlobConstants, BlobInv, NEW u \in Uris
  PROVE  /\ Blobs!Route(u) \in Stores
         /\ Blobs!KeyFrom(Blobs!Route(u), u) # Blobs!Nothing =>
               /\ Blobs!Route(u) = u.scheme /\ Blobs!KeyFrom(Blobs!Route(u), u) = u.key
               /\ Blobs!Host(u.scheme) = u.host
<1>1. /\ u.scheme \in Stores /\ u.key \in Keys /\ u.scheme # "bare" /\ u.scheme # "none"
      /\ u.scheme # "mem" => u.host = 0
  BY DEF Uris, Stores
<1>2. Blobs!Route(u) \in Stores
  BY <1>1 DEF BlobConstants, BlobInv, ShelfInv, Blobs!Route
<1>3. ASSUME Blobs!KeyFrom(Blobs!Route(u), u) # Blobs!Nothing
      PROVE  /\ Blobs!Route(u) = u.scheme /\ Blobs!KeyFrom(Blobs!Route(u), u) = u.key
             /\ Blobs!Host(u.scheme) = u.host
  <2>1. CASE Blobs!Route(u) = "file"
    BY <1>1, <1>3, <2>1 DEF Blobs!KeyFrom, Blobs!FileKey, Blobs!Host
  <2>2. CASE Blobs!Route(u) = "mem"
    BY <1>1, <1>3, <2>2 DEF Blobs!KeyFrom, Blobs!MemKey, Blobs!Host
  <2>3. CASE Blobs!Route(u) = "s3"
    BY <1>1, <1>3, <2>3 DEF Blobs!KeyFrom, Blobs!S3Key, Blobs!Host
  <2>4. CASE Blobs!Route(u) = "ipfs"
    BY <1>1, <1>3, <2>4 DEF Blobs!KeyFrom, Blobs!CidFrom, Blobs!Host
  <2>5. QED
    BY <1>2, <2>1, <2>2, <2>3, <2>4 DEF Stores
<1>4. QED
  BY <1>2, <1>3

LEMMA GetKeeps ==
  ASSUME BlobConstants, BlobInv, NEW p \in Procs, NEW u \in rows, Blobs!Get(p, u)
  PROVE  BlobInv'
<1>1. u \in Uris /\ u \in Uris \cup {Blobs!NoUri}
  BY DEF BlobInv, ShelfInv
<1>2. UNCHANGED <<boot, default, whole, tmp, path, objects, rows, overlapped, removed>>
  BY DEF Blobs!Get
<1>3. PICK shelf, k, found :
         /\ shelf = Blobs!Route(u) /\ k = Blobs!KeyFrom(shelf, u)
         /\ found = IF shelf = "file" THEN k # Blobs!Nothing /\ path[k] # 0 ELSE Blobs!Holds(shelf, u)
  OBVIOUS
<1>4. proc' = [proc EXCEPT ![p] =
            IF ~found THEN [Blobs!Idle EXCEPT !.pc = "read", !.uri = u, !.got = "not found"]
            ELSE IF shelf = "file" THEN [Blobs!Idle EXCEPT !.pc = "reading", !.uri = u, !.file = path[k]]
            ELSE [Blobs!Idle EXCEPT !.pc = "read", !.uri = u, !.got = "whole"]]
  BY <1>3 DEF Blobs!Get
<1>5. CASE found /\ shelf = "file"
  <2>1. k # Blobs!Nothing /\ path[k] # 0
    BY <1>3, <1>5
  <2>2. k = u.key /\ k \in Keys
    BY <1>1, <1>3, <2>1, KeysFrom DEF Uris
  <2>3. path[k] \in 1..Len(whole) /\ path[k] \in Nat
    BY <2>1, <2>2 DEF BlobInv, ShelfInv
  <2>4. PICK c : c = [Blobs!Idle EXCEPT !.pc = "reading", !.uri = u, !.file = path[k]]
    OBVIOUS
  <2>5. c \in Places /\ c.pc = "reading" /\ c.uri = u /\ c.file = path[k] /\ c.got = "none"
    BY <1>1, <2>3, <2>4, BlobTypes DEF Places
  <2>6. (whole[path[k]] \/ k \in overlapped) /\ \A j \in Keys : tmp[j] # path[k]
    BY <2>1, <2>2 DEF BlobInv, FilesApart
  <2>7. OpenFileInv(c)
    BY <2>2, <2>3, <2>5, <2>6 DEF OpenFileInv
  <2>8. proc' = [proc EXCEPT ![p] = c]
    BY <1>4, <1>5, <2>4
  <2>9. QED
    BY <1>2, <2>5, <2>7, <2>8, ProcOnly
<1>6. CASE ~(found /\ shelf = "file")
  <2>1. PICK g \in {"not found", "whole"} : proc' = [proc EXCEPT ![p] = [Blobs!Idle EXCEPT !.pc = "read", !.uri = u, !.got = g]]
    BY <1>4, <1>6
  <2>2. PICK c : c = [Blobs!Idle EXCEPT !.pc = "read", !.uri = u, !.got = g]
    OBVIOUS
  <2>3. c \in Places /\ c.pc = "read" /\ c.got # "part"
    BY <1>1, <2>1, <2>2, BlobTypes DEF Places
  <2>4. OpenFileInv(c)
    BY <2>3 DEF OpenFileInv
  <2>5. QED
    BY <1>2, <2>1, <2>2, <2>3, <2>4, ProcOnly
<1>7. QED
  BY <1>5, <1>6

LEMMA PutArtifactKeeps ==
  ASSUME BlobConstants, BlobInv, NEW p \in Procs, Cardinality(rows) < MaxArtifacts, Blobs!PutArtifact(p)
  PROVE  BlobInv'
<1>1. /\ proc[p].pc = "row" /\ rows' = rows \cup {proc[p].uri} /\ proc' = [proc EXCEPT ![p] = Blobs!Idle]
      /\ UNCHANGED <<boot, default, whole, tmp, path, objects, overlapped, removed>>
  BY DEF Blobs!PutArtifact
<1>2. proc[p].uri \in Uris /\ Kept(proc[p].uri) /\ proc[p].uri.host <= boot
  BY <1>1 DEF BlobInv, KeptInv
<1>3. IsFiniteSet(rows') /\ Cardinality(rows') <= MaxArtifacts
  <2>1. IsFiniteSet(rows) /\ Cardinality(rows) \in Nat
    BY FS_CardinalityType DEF BlobInv, ShelfInv
  <2>2. /\ IsFiniteSet(rows')
        /\ Cardinality(rows') = IF proc[p].uri \in rows THEN Cardinality(rows) ELSE Cardinality(rows) + 1
    BY <1>1, <2>1, FS_AddElement
  <2>3. QED
    BY <2>1, <2>2 DEF BlobConstants
<1>4. ShelfInv'
  BY <1>1, <1>2, <1>3, BlobTypes DEF BlobInv, ShelfInv
<1>5. FilesApart'
  BY <1>1 DEF BlobInv, FilesApart
<1>6. \A b : (PutInv(b) => PutInv(b)') /\ (OpenFileInv(b) => OpenFileInv(b)')
  BY <1>1 DEF PutInv, OpenFileInv
<1>7. \A u : Kept(u) => Kept(u)'
  BY <1>1 DEF Kept
<1>8. \A u \in rows' : Kept(u)' /\ u.host <= boot'
  <2>1. SUFFICES ASSUME NEW u \in rows' PROVE Kept(u) /\ u.host <= boot
    BY <1>1, <1>7
  <2>2. QED
    BY <1>1, <1>2 DEF BlobInv, KeptInv
<1>9. \A q \in Procs \ {p}, b \in Places : b = proc[q] =>
            PutInv(b)' /\ OpenFileInv(b)' /\ (b.pc = "row" => Kept(b.uri)' /\ b.uri.host <= boot')
  BY <1>1, <1>6, <1>7 DEF BlobInv, KeptInv
<1>10. PICK c \in Places : c = Blobs!Idle
  BY BlobTypes
<1>11. c.pc = "idle" /\ PutInv(c)' /\ OpenFileInv(c)'
  BY <1>10, BlobTypes DEF PutInv, OpenFileInv, Blobs!Writing
<1>12. overlapped \subseteq overlapped' /\ proc' = [proc EXCEPT ![p] = c]
  BY <1>1, <1>10
<1>13. QED
  BY <1>4, <1>5, <1>8, <1>9, <1>11, <1>12, ProcMoves DEF Blobs!Writing

LEMMA PutObjectKeeps ==
  ASSUME BlobConstants, BlobInv, NEW p \in Procs, NEW k \in Keys, Blobs!PutObject(p, k)
  PROVE  BlobInv'
<1>1. PICK u : u = Blobs!UriFor(default, k)
  OBVIOUS
<1>2. /\ default # "file" /\ objects' = objects \cup {[store |-> default, host |-> Blobs!Host(default), key |-> k]}
      /\ removed' = removed \ {u}
      /\ proc' = [proc EXCEPT ![p] = [Blobs!Idle EXCEPT !.pc = "row", !.key = k, !.uri = u]]
      /\ UNCHANGED <<boot, default, whole, tmp, path, rows, overlapped>>
  BY <1>1 DEF Blobs!PutObject
<1>3. default \in Stores /\ boot \in Nat
  BY DEF BlobInv, ShelfInv, BlobConstants
<1>4. /\ u.scheme = default /\ u.host = Blobs!Host(default) /\ u.key = k
      /\ u \in Uris /\ u.host <= boot
  BY <1>1, <1>3 DEF Blobs!UriFor, Blobs!Host, Uris
<1>5. \A v \in Uris : Kept(v) => Kept(v)'
  <2>1. SUFFICES ASSUME NEW v \in Uris, Kept(v) PROVE Kept(v)'
    OBVIOUS
  <2>2. CASE v = u
    BY <1>2, <1>4, <2>2 DEF Kept
  <2>3. CASE v # u
    BY <1>2, <2>1, <2>3 DEF Kept
  <2>4. QED
    BY <2>2, <2>3
<1>6. PICK c : c = [Blobs!Idle EXCEPT !.pc = "row", !.key = k, !.uri = u]
  OBVIOUS
<1>7. c \in Places /\ c.pc = "row" /\ c.uri = u /\ c.got = "none"
  BY <1>4, <1>6, BlobTypes DEF Places
<1>8. ShelfInv' /\ FilesApart' /\ proc' = [proc EXCEPT ![p] = c]
  BY <1>2, <1>6, <1>7 DEF BlobInv, ShelfInv, FilesApart
<1>9. Kept(u)'
  BY <1>2, <1>4 DEF Kept
<1>10. PutInv(c)' /\ OpenFileInv(c)'
  BY <1>7 DEF PutInv, OpenFileInv, Blobs!Writing
<1>11. \A b : (PutInv(b) => PutInv(b)') /\ (OpenFileInv(b) => OpenFileInv(b)')
  BY <1>2 DEF PutInv, OpenFileInv
<1>12. \A v \in rows' : Kept(v)' /\ v.host <= boot'
  BY <1>2, <1>5 DEF BlobInv, KeptInv, ShelfInv
<1>13. \A q \in Procs \ {p}, b \in Places : b = proc[q] =>
            PutInv(b)' /\ OpenFileInv(b)' /\ (b.pc = "row" => Kept(b.uri)' /\ b.uri.host <= boot')
  BY <1>2, <1>5, <1>11 DEF BlobInv, KeptInv
<1>14. overlapped \subseteq overlapped' /\ (c.pc = "row" => c.uri \in Uris /\ Kept(c.uri)' /\ c.uri.host <= boot')
  BY <1>2, <1>4, <1>7, <1>9
<1>15. QED
  BY <1>7, <1>8, <1>10, <1>12, <1>13, <1>14, ProcMoves DEF Blobs!Writing

LEMMA FillTmpKeeps ==
  ASSUME BlobConstants, BlobInv, NEW p \in Procs, Blobs!FillTmp(p)
  PROVE  BlobInv'
<1>1. /\ proc[p].pc = "fill" /\ whole' = [whole EXCEPT ![proc[p].file] = TRUE]
      /\ proc' = [proc EXCEPT ![p].pc = "rename"]
      /\ UNCHANGED <<boot, default, tmp, path, objects, rows, overlapped, removed>>
  BY DEF Blobs!FillTmp
<1>2. proc[p] \in Places /\ PutInv(proc[p]) /\ OpenFileInv(proc[p])
  BY DEF BlobInv, ShelfInv
<1>3. /\ proc[p].key \in Keys /\ proc[p].file \in 1..Len(whole)
      /\ proc[p].key \notin overlapped => tmp[proc[p].key] = proc[p].file
  BY <1>1, <1>2 DEF PutInv, Blobs!Writing
<1>4. whole \in Seq(BOOLEAN)
  BY DEF BlobInv, ShelfInv
<1>5. /\ whole' \in Seq(BOOLEAN) /\ Len(whole') = Len(whole) /\ whole'[proc[p].file] = TRUE
      /\ \A i \in 1..Len(whole) : i # proc[p].file => whole'[i] = whole[i]
  BY <1>1, <1>3, <1>4
<1>6. \A i \in 1..Len(whole) : whole[i] => whole'[i]
  BY <1>5
<1>7. PICK c : c = [proc[p] EXCEPT !.pc = "rename"]
  OBVIOUS
<1>8. c \in Places /\ c.pc = "rename" /\ c.key = proc[p].key /\ c.file = proc[p].file /\ c.got = proc[p].got /\ c.uri = proc[p].uri
  BY <1>2, <1>7 DEF Places
<1>9. proc' = [proc EXCEPT ![p] = c]
  BY <1>1, <1>7 DEF BlobInv, ShelfInv
<1>10. ShelfInv'
  BY <1>1, <1>5, <1>8, <1>9 DEF BlobInv, ShelfInv
<1>11. FilesApart'
  <2>1. \A k \in Keys : path[k] \in 0..Len(whole) /\ path[k] \in Nat
    BY <1>4 DEF BlobInv, ShelfInv
  <2>2. QED
    BY <1>1, <1>6, <2>1 DEF BlobInv, FilesApart
<1>12. PutInv(c)' /\ OpenFileInv(c)'
  BY <1>1, <1>2, <1>3, <1>5, <1>8 DEF PutInv, OpenFileInv
<1>13. \A b : (PutInv(b) => PutInv(b)') /\ (OpenFileInv(b) => OpenFileInv(b)')
  BY <1>1, <1>5, <1>6 DEF PutInv, OpenFileInv
<1>14. \A v : Kept(v) => Kept(v)'
  BY <1>1 DEF Kept
<1>15. \A v \in rows' : Kept(v)' /\ v.host <= boot'
  BY <1>1, <1>14 DEF BlobInv, KeptInv
<1>16. \A q \in Procs \ {p}, b \in Places : b = proc[q] =>
            PutInv(b)' /\ OpenFileInv(b)' /\ (b.pc = "row" => Kept(b.uri)' /\ b.uri.host <= boot')
  BY <1>1, <1>13, <1>14 DEF BlobInv, KeptInv
<1>17. \A q \in Procs \ {p} : proc[q].pc \in Blobs!Writing /\ proc[q].key = c.key => c.key \in overlapped'
  BY <1>1, <1>8 DEF BlobInv, OneWriter, Blobs!Writing
<1>18. QED
  BY <1>1, <1>8, <1>9, <1>10, <1>11, <1>12, <1>15, <1>16, <1>17, ProcMoves

LEMMA OpenTmpKeeps ==
  ASSUME BlobConstants, BlobInv, NEW p \in Procs, NEW k \in Keys, Blobs!OpenTmp(p, k)
  PROVE  BlobInv'
<1>1. PICK f : f = IF tmp[k] = 0 THEN Len(whole) + 1 ELSE tmp[k]
  OBVIOUS
<1>2. /\ whole \in Seq(BOOLEAN) /\ Len(whole) \in Nat
      /\ \A j \in Keys : tmp[j] \in 0..Len(whole) /\ path[j] \in 0..Len(whole) /\ tmp[j] \in Nat /\ path[j] \in Nat
      /\ tmp \in [Keys -> Nat]
  BY DEF BlobInv, ShelfInv
<1>3. /\ whole' = IF tmp[k] = 0 THEN Append(whole, FALSE) ELSE [whole EXCEPT ![tmp[k]] = FALSE]
      /\ tmp' = [tmp EXCEPT ![k] = f]
      /\ overlapped' = IF Blobs!Other(p, k) THEN overlapped \cup {k} ELSE overlapped
      /\ proc' = [proc EXCEPT ![p] = [Blobs!Idle EXCEPT !.pc = "fill", !.key = k, !.file = f]]
      /\ UNCHANGED <<boot, default, path, objects, rows, removed>>
  BY <1>1, <1>2 DEF Blobs!OpenTmp
<1>4. /\ whole' \in Seq(BOOLEAN) /\ f \in 1..Len(whole') /\ Len(whole') \in Nat /\ Len(whole) <= Len(whole')
      /\ \A i \in 1..Len(whole) : i # f => whole'[i] = whole[i]
  <2>1. CASE tmp[k] = 0
    BY <1>1, <1>2, <1>3, <2>1
  <2>2. CASE tmp[k] # 0
    <3>1. tmp[k] \in 1..Len(whole) /\ f = tmp[k]
      BY <1>1, <1>2, <2>2
    <3>2. whole' = [whole EXCEPT ![tmp[k]] = FALSE]
      BY <1>3, <2>2
    <3>3. QED
      BY <1>2, <3>1, <3>2
  <2>3. QED
    BY <2>1, <2>2
<1>5. \A j \in Keys : path[j] # f /\ (j # k => tmp[j] # f) /\ tmp'[j] = IF j = k THEN f ELSE tmp[j]
  <2>1. CASE tmp[k] = 0
    BY <1>1, <1>2, <1>3, <2>1
  <2>2. CASE tmp[k] # 0
    BY <1>1, <1>2, <1>3, <2>2 DEF BlobInv, FilesApart
  <2>3. QED
    BY <2>1, <2>2
<1>6. overlapped \subseteq overlapped' /\ overlapped' \subseteq Keys
  BY <1>3 DEF BlobInv, ShelfInv
<1>7. PICK c : c = [Blobs!Idle EXCEPT !.pc = "fill", !.key = k, !.file = f]
  OBVIOUS
<1>8. c \in Places /\ c.pc = "fill" /\ c.key = k /\ c.file = f /\ c.got = "none"
  <2>1. f \in Nat
    BY <1>4
  <2>2. QED
    BY <1>7, <2>1, BlobTypes DEF Places
<1>9. proc' = [proc EXCEPT ![p] = c] /\ proc' \in [Procs -> Places]
  BY <1>3, <1>7, <1>8 DEF BlobInv, ShelfInv
<1>10. ShelfInv'
  <2>1. tmp' \in [Keys -> 0..Len(whole')]
    BY <1>2, <1>3, <1>4
  <2>2. path' \in [Keys -> 0..Len(whole')]
    <3>1. path \in [Keys -> 0..Len(whole)] /\ path' = path
      BY <1>3 DEF BlobInv, ShelfInv
    <3>2. QED
      BY <1>2, <1>4, <3>1
  <2>3. QED
    BY <1>3, <1>4, <1>6, <1>9, <2>1, <2>2 DEF BlobInv, ShelfInv
<1>11. FilesApart'
  <2>1. \A i, j \in Keys : tmp'[i] # 0 => path'[j] # tmp'[i] /\ (tmp'[j] = tmp'[i] => i = j)
    BY <1>2, <1>3, <1>5 DEF BlobInv, FilesApart
  <2>2. ASSUME NEW j \in Keys, path'[j] # 0 PROVE whole'[path'[j]] \/ j \in overlapped'
    <3>1. whole[path[j]] \/ j \in overlapped
      BY <1>3, <2>2 DEF BlobInv, FilesApart
    <3>2. path[j] \in 1..Len(whole) /\ path[j] # f /\ path'[j] = path[j]
      BY <1>2, <1>3, <1>5, <2>2
    <3>3. whole'[path[j]] = whole[path[j]]
      BY <1>4, <3>2
    <3>4. QED
      BY <1>6, <3>1, <3>2, <3>3
  <2>3. QED
    BY <2>1, <2>2 DEF FilesApart
<1>12. PutInv(c)' /\ OpenFileInv(c)'
  BY <1>4, <1>5, <1>8 DEF PutInv, OpenFileInv
<1>13. ASSUME NEW q \in Procs \ {p}, NEW b \in Places, b = proc[q]
       PROVE  PutInv(b)'
  <2>1. SUFFICES ASSUME b.pc \in Blobs!Writing PROVE PutInv(b)'
    BY DEF PutInv
  <2>2. b.key \in Keys /\ b.file \in 1..Len(whole) /\ b.file \in 1..Len(whole')
    BY <1>2, <1>4, <1>13, <2>1 DEF BlobInv, PutInv
  <2>3. CASE b.key = k
    <3>1. Blobs!Other(p, k)
      BY <1>13, <2>1, <2>3 DEF Blobs!Other
    <3>2. k \in overlapped'
      BY <1>3, <3>1
    <3>3. QED
      BY <2>2, <2>3, <3>2 DEF PutInv
  <2>4. CASE b.key # k
    <3>1. SUFFICES ASSUME b.key \notin overlapped'
                   PROVE  tmp'[b.key] = b.file /\ (b.pc = "rename" => whole'[b.file])
      BY <2>2 DEF PutInv
    <3>2. tmp[b.key] = b.file /\ (b.pc = "rename" => whole[b.file])
      BY <1>6, <1>13, <2>1, <3>1 DEF BlobInv, PutInv
    <3>3. tmp'[b.key] = b.file /\ b.file # f
      BY <1>5, <2>2, <2>4, <3>2
    <3>4. whole'[b.file] = whole[b.file]
      BY <1>4, <2>2, <3>3
    <3>5. QED
      BY <3>2, <3>3, <3>4
  <2>5. QED
    BY <2>3, <2>4
<1>14. ASSUME NEW q \in Procs \ {p}, NEW b \in Places, b = proc[q]
       PROVE  OpenFileInv(b)'
  <2>1. OpenFileInv(b)
    BY <1>14 DEF BlobInv
  <2>2. ASSUME b.pc = "reading"
        PROVE  /\ b.file \in 1..Len(whole') /\ \A j \in Keys : tmp'[j] # b.file
               /\ whole'[b.file] \/ b.uri.key \in overlapped'
    <3>1. /\ b.file \in 1..Len(whole) /\ \A j \in Keys : tmp[j] # b.file
          /\ whole[b.file] \/ b.uri.key \in overlapped
      BY <2>1, <2>2 DEF OpenFileInv
    <3>2. b.file # f
      BY <1>1, <1>2, <3>1
    <3>3. whole'[b.file] = whole[b.file]
      BY <1>4, <3>1, <3>2
    <3>4. QED
      BY <1>2, <1>4, <1>5, <1>6, <3>1, <3>2, <3>3
  <2>3. QED
    BY <1>6, <2>1, <2>2 DEF OpenFileInv
<1>15. \A v : Kept(v) => Kept(v)'
  BY <1>3 DEF Kept
<1>16. \A v \in rows' : Kept(v)' /\ v.host <= boot'
  BY <1>3, <1>15 DEF BlobInv, KeptInv
<1>17. \A q \in Procs \ {p}, b \in Places : b = proc[q] =>
            PutInv(b)' /\ OpenFileInv(b)' /\ (b.pc = "row" => Kept(b.uri)' /\ b.uri.host <= boot')
  BY <1>3, <1>13, <1>14, <1>15 DEF BlobInv, KeptInv
<1>18. \A q \in Procs \ {p} : proc[q].pc \in Blobs!Writing /\ proc[q].key = c.key => c.key \in overlapped'
  BY <1>3, <1>8 DEF Blobs!Other
<1>19. QED
  BY <1>6, <1>8, <1>9, <1>10, <1>11, <1>12, <1>16, <1>17, <1>18, ProcMoves

LEMMA RenameKeeps ==
  ASSUME BlobConstants, BlobInv, NEW p \in Procs, Blobs!Rename(p)
  PROVE  BlobInv'
<1>1. PICK k : k = proc[p].key
  OBVIOUS
<1>2. proc[p].pc = "rename" /\ UNCHANGED <<boot, default, whole, objects, rows, overlapped>>
  BY DEF Blobs!Rename
<1>3. proc[p] \in Places /\ PutInv(proc[p]) /\ OpenFileInv(proc[p])
  BY DEF BlobInv, ShelfInv
<1>4. /\ k \in Keys /\ proc[p].file \in 1..Len(whole)
      /\ k \notin overlapped => tmp[k] = proc[p].file /\ whole[proc[p].file]
  BY <1>1, <1>2, <1>3 DEF PutInv, Blobs!Writing
<1>5. /\ whole \in Seq(BOOLEAN) /\ Len(whole) \in Nat
      /\ tmp \in [Keys -> 0..Len(whole)] /\ path \in [Keys -> 0..Len(whole)]
  BY DEF BlobInv, ShelfInv
<1>6. CASE tmp[k] = 0
  <2>1. k \in overlapped
    BY <1>4, <1>5, <1>6
  <2>2. PICK c : c = [Blobs!Idle EXCEPT !.pc = "failed", !.key = k]
    OBVIOUS
  <2>3. proc' = [proc EXCEPT ![p] = c] /\ UNCHANGED <<tmp, path, removed>>
    BY <1>1, <1>6, <2>2 DEF Blobs!Rename
  <2>4. c \in Places /\ c.pc = "failed" /\ c.key = k /\ c.got = "none"
    BY <1>4, <2>2, BlobTypes DEF Places
  <2>5. OpenFileInv(c)
    BY <2>1, <2>4 DEF OpenFileInv
  <2>6. QED
    BY <1>2, <2>3, <2>4, <2>5, ProcOnly
<1>7. CASE tmp[k] # 0
  <2>1. PICK u : u = Blobs!UriFor("file", k)
    OBVIOUS
  <2>2. u \in Uris /\ u.scheme = "file" /\ u.host = 0 /\ u.key = k
    BY <1>4, <2>1 DEF Blobs!UriFor, Blobs!Host, Uris, Stores
  <2>3. PICK c : c = [proc[p] EXCEPT !.pc = "row", !.uri = u]
    OBVIOUS
  <2>4. /\ path' = [path EXCEPT ![k] = tmp[k]] /\ tmp' = [tmp EXCEPT ![k] = 0] /\ removed' = removed \ {u}
        /\ proc' = [proc EXCEPT ![p].pc = "row", ![p].uri = u]
    BY <1>1, <1>7, <2>1 DEF Blobs!Rename
  <2>5. proc' = [proc EXCEPT ![p] = c] /\ proc' \in [Procs -> Places] /\ c \in Places
    <3>1. c \in Places
      BY <1>3, <2>2, <2>3 DEF Places
    <3>2. proc \in [Procs -> Places]
      BY DEF BlobInv, ShelfInv
    <3>3. proc' = [proc EXCEPT ![p] = c]
      BY <2>3, <2>4, <3>2
    <3>4. QED
      BY <3>1, <3>2, <3>3
  <2>6. c.pc = "row" /\ c.uri = u /\ c.got = proc[p].got
    BY <1>3, <2>3 DEF Places
  <2>7. /\ \A j \in Keys : path'[j] = IF j = k THEN tmp[k] ELSE path[j]
        /\ \A j \in Keys : tmp'[j] = IF j = k THEN 0 ELSE tmp[j]
    BY <1>4, <1>5, <2>4
  <2>8. ShelfInv'
    <3>1. tmp' \in [Keys -> 0..Len(whole)] /\ path' \in [Keys -> 0..Len(whole)]
      BY <1>4, <1>5, <2>4
    <3>2. QED
      BY <1>2, <2>5, <3>1 DEF BlobInv, ShelfInv
  <2>9. whole[tmp[k]] \/ k \in overlapped
    BY <1>4
  <2>10. FilesApart'
    <3>1. \A i, j \in Keys : tmp'[i] # 0 => path'[j] # tmp'[i] /\ (tmp'[j] = tmp'[i] => i = j)
      BY <1>4, <2>7 DEF BlobInv, FilesApart
    <3>2. ASSUME NEW j \in Keys, path'[j] # 0 PROVE whole'[path'[j]] \/ j \in overlapped'
      <4>1. CASE j = k
        BY <1>2, <2>7, <2>9, <4>1
      <4>2. CASE j # k
        <5>1. path'[j] = path[j] /\ (whole[path[j]] \/ j \in overlapped)
          BY <2>7, <3>2, <4>2 DEF BlobInv, FilesApart
        <5>2. QED
          BY <1>2, <5>1
      <4>3. QED
        BY <4>1, <4>2
    <3>3. QED
      BY <3>1, <3>2 DEF FilesApart
  <2>11. PutInv(c)'
    BY <2>6 DEF PutInv, Blobs!Writing
  <2>12. OpenFileInv(c)'
    <3>1. c.got # "part"
      BY <1>2, <1>3, <2>6 DEF OpenFileInv
    <3>2. QED
      BY <2>6, <3>1 DEF OpenFileInv
  <2>13. ASSUME NEW q \in Procs \ {p}, NEW b \in Places, b = proc[q] PROVE PutInv(b)' /\ OpenFileInv(b)'
    <3>1. PutInv(b) /\ OpenFileInv(b)
      BY <2>13 DEF BlobInv
    <3>2. PutInv(b)'
      <4>1. SUFFICES ASSUME b.pc \in Blobs!Writing, b.key \notin overlapped PROVE tmp'[b.key] = tmp[b.key]
        BY <1>2, <3>1 DEF PutInv
      <4>2. b.key \in Keys /\ b.key # k
        BY <1>1, <1>2, <2>13, <3>1, <4>1 DEF BlobInv, OneWriter, PutInv, Blobs!Writing
      <4>3. QED
        BY <2>7, <4>2
    <3>3. OpenFileInv(b)'
      <4>1. b.pc = "reading" => b.file # 0
        BY <1>5, <3>1 DEF OpenFileInv
      <4>2. QED
        BY <1>2, <2>7, <3>1, <4>1 DEF OpenFileInv
    <3>4. QED
      BY <3>2, <3>3
  <2>14. \A v \in Uris : Kept(v) => Kept(v)'
    <3>1. SUFFICES ASSUME NEW v \in Uris, Kept(v) PROVE Kept(v)'
      OBVIOUS
    <3>2. v.key \in Keys
      BY DEF Uris
    <3>3. CASE v.scheme = "file" /\ v.key = k
      BY <1>4, <1>7, <2>7, <3>3 DEF Kept
    <3>4. CASE ~(v.scheme = "file" /\ v.key = k)
      <4>1. v # u
        BY <2>2, <3>4
      <4>2. QED
        BY <1>2, <2>4, <2>7, <3>1, <3>2, <3>4, <4>1 DEF Kept
    <3>5. QED
      BY <3>3, <3>4
  <2>15. Kept(u)' /\ u.host <= boot'
    <3>1. boot \in Nat
      BY DEF BlobInv, ShelfInv, BlobConstants
    <3>2. QED
      BY <1>2, <1>4, <1>7, <2>2, <2>7, <3>1 DEF Kept
  <2>16. \A v \in rows' : Kept(v)' /\ v.host <= boot'
    BY <1>2, <2>14 DEF BlobInv, KeptInv, ShelfInv
  <2>17. \A q \in Procs \ {p}, b \in Places : b = proc[q] =>
            PutInv(b)' /\ OpenFileInv(b)' /\ (b.pc = "row" => Kept(b.uri)' /\ b.uri.host <= boot')
    BY <1>2, <2>13, <2>14 DEF BlobInv, KeptInv
  <2>18. c.pc = "row" => c.uri \in Uris /\ Kept(c.uri)' /\ c.uri.host <= boot'
    BY <2>2, <2>6, <2>15
  <2>19. QED
    BY <1>2, <2>5, <2>6, <2>8, <2>10, <2>11, <2>12, <2>16, <2>17, <2>18, ProcMoves DEF Blobs!Writing
<1>8. QED
  BY <1>6, <1>7

\* A delete takes the blob of its own uri only.
LEMMA DeleteKeeps ==
  ASSUME BlobConstants, BlobInv, NEW u \in rows, Blobs!Delete(u)
  PROVE  BlobInv'
<1>1. u \in Uris
  BY DEF BlobInv, ShelfInv
<1>2. PICK shelf, k : shelf = Blobs!Route(u) /\ k = Blobs!KeyFrom(shelf, u)
  OBVIOUS
<1>3. /\ k # Blobs!Nothing /\ path' = IF shelf = "file" THEN [path EXCEPT ![k] = 0] ELSE path
      /\ objects' = objects \ {[store |-> shelf, host |-> Blobs!Host(shelf), key |-> k]}
      /\ removed' = removed \cup {u}
      /\ UNCHANGED <<boot, default, whole, tmp, rows, proc, overlapped>>
  BY <1>2 DEF Blobs!Delete
<1>4. shelf = u.scheme /\ k = u.key /\ Blobs!Host(shelf) = u.host /\ k \in Keys
  BY <1>1, <1>2, <1>3, KeysFrom DEF Uris
<1>5. path \in [Keys -> 0..Len(whole)] /\ Len(whole) \in Nat
  BY DEF BlobInv, ShelfInv
<1>6. path' \in [Keys -> 0..Len(whole)] /\ \A j \in Keys : path'[j] = path[j] \/ (shelf = "file" /\ j = k /\ path'[j] = 0)
  BY <1>3, <1>4, <1>5
<1>7. ShelfInv'
  BY <1>3, <1>6 DEF BlobInv, ShelfInv
<1>8. FilesApart'
  <2>1. \A i, j \in Keys : tmp'[i] # 0 => path'[j] # tmp'[i] /\ (tmp'[j] = tmp'[i] => i = j)
    BY <1>3, <1>6 DEF BlobInv, FilesApart
  <2>2. \A j \in Keys : path'[j] # 0 => whole'[path'[j]] \/ j \in overlapped'
    BY <1>3, <1>6 DEF BlobInv, FilesApart
  <2>3. QED
    BY <2>1, <2>2 DEF FilesApart
<1>9. ASSUME NEW v \in Uris, Kept(v) PROVE Kept(v)'
  <2>1. CASE v = u
    BY <1>3, <2>1 DEF Kept
  <2>2. CASE v # u
    <3>1. v.key \in Keys /\ (v.scheme # "mem" => v.host = 0) /\ (u.scheme # "mem" => u.host = 0)
      BY <1>1 DEF Uris
    <3>2. v.scheme # u.scheme \/ v.host # u.host \/ v.key # u.key
      BY <1>1, <2>2 DEF Uris
    <3>3. CASE v \in removed \/ (v.scheme = "mem" /\ v.host < boot)
      BY <1>3, <3>3 DEF Kept
    <3>4. CASE v.scheme = "file" /\ path[v.key] # 0
      <4>1. shelf # "file" \/ v.key # k
        BY <1>4, <3>1, <3>2, <3>4
      <4>2. QED
        BY <1>6, <3>1, <3>4, <4>1 DEF Kept
    <3>5. CASE v.scheme # "file" /\ [store |-> v.scheme, host |-> v.host, key |-> v.key] \in objects
      <4>1. [store |-> v.scheme, host |-> v.host, key |-> v.key] # [store |-> shelf, host |-> Blobs!Host(shelf), key |-> k]
        BY <1>4, <3>2
      <4>2. QED
        BY <1>3, <3>5, <4>1 DEF Kept
    <3>6. QED
      BY <1>9, <3>3, <3>4, <3>5 DEF Kept
  <2>3. QED
    BY <2>1, <2>2
<1>10. KeptInv'
  <2>1. \A v \in rows' : Kept(v)' /\ v.host <= boot'
    BY <1>3, <1>9 DEF BlobInv, KeptInv, ShelfInv
  <2>2. ASSUME NEW q \in Procs, proc'[q].pc = "row"
        PROVE  proc'[q].uri \in Uris /\ Kept(proc[q].uri)' /\ proc'[q].uri.host <= boot'
    <3>1. PICK v : v = proc[q].uri
      OBVIOUS
    <3>2. v \in Uris /\ Kept(v) /\ v.host <= boot
      BY <1>3, <2>2, <3>1 DEF BlobInv, KeptInv
    <3>3. Kept(v)'
      BY <1>9, <3>2
    <3>4. QED
      BY <1>3, <3>1, <3>2, <3>3 DEF Kept
  <2>3. QED
    BY <2>1, <2>2 DEF KeptInv, Kept
<1>11. QED
  BY <1>3, <1>7, <1>8, <1>10 DEF BlobInv, OneWriter, PutInv, OpenFileInv

LEMMA RestartKeeps ==
  ASSUME BlobConstants, BlobInv, NEW d \in Defaults, Blobs!Restart(d)
  PROVE  BlobInv'
<1>1. /\ boot < MaxBoots /\ boot' = boot + 1 /\ default' = d /\ objects' = {o \in objects : o.store # "mem"}
      /\ proc' = [p \in Procs |-> Blobs!Idle]
      /\ UNCHANGED <<whole, tmp, path, rows, overlapped, removed>>
  BY DEF Blobs!Restart
<1>2. boot \in Nat /\ boot' \in 0..MaxBoots /\ boot' > boot
  BY <1>1 DEF BlobConstants, BlobInv, ShelfInv
<1>3. \A p \in Procs : proc'[p] = Blobs!Idle
  BY <1>1
<1>4. ShelfInv'
  BY <1>1, <1>2, BlobTypes DEF BlobInv, ShelfInv
<1>5. FilesApart' /\ OneWriter'
  BY <1>1, <1>3, BlobTypes DEF BlobInv, FilesApart, OneWriter, Blobs!Writing
<1>6. \A p \in Procs : PutInv(proc[p])' /\ OpenFileInv(proc[p])'
  BY <1>3, BlobTypes DEF PutInv, OpenFileInv, Blobs!Writing
<1>7. ASSUME NEW u \in rows PROVE Kept(u)' /\ u.host <= boot'
  <2>1. u \in Uris /\ Kept(u) /\ u.host <= boot /\ u.host \in Nat
    BY DEF BlobInv, KeptInv, ShelfInv, Uris
  <2>2. CASE u.scheme = "mem"
    BY <1>2, <2>1, <2>2 DEF Kept
  <2>3. CASE u.scheme # "mem"
    BY <1>1, <1>2, <2>1, <2>3 DEF Kept
  <2>4. QED
    BY <2>2, <2>3
<1>8. KeptInv'
  BY <1>1, <1>3, <1>7, BlobTypes DEF KeptInv
<1>9. QED
  BY <1>4, <1>5, <1>6, <1>8 DEF BlobInv

LEMMA BlobInit == ASSUME BlobConstants, Blobs!Init PROVE BlobInv
<1>1. /\ boot = 0 /\ default \in Defaults /\ whole = <<>>
      /\ tmp = [k \in Keys |-> 0] /\ path = [k \in Keys |-> 0]
      /\ rows = {} /\ overlapped = {} /\ proc = [p \in Procs |-> Blobs!Idle]
  BY DEF Blobs!Init
<1>2. \A p \in Procs : proc[p] = Blobs!Idle
  BY <1>1
<1>3. ShelfInv
  <2>1. IsFiniteSet(rows) /\ Cardinality(rows) = 0
    BY <1>1, FS_EmptySet
  <2>2. whole \in Seq(BOOLEAN) /\ Len(whole) = 0
    BY <1>1
  <2>3. QED
    BY <1>1, <2>1, <2>2, BlobTypes DEF BlobConstants, ShelfInv
<1>4. FilesApart /\ OneWriter /\ KeptInv
  BY <1>1, <1>2, BlobTypes DEF FilesApart, OneWriter, KeptInv, Blobs!Writing
<1>5. \A p \in Procs : PutInv(proc[p]) /\ OpenFileInv(proc[p])
  BY <1>2, BlobTypes DEF PutInv, OpenFileInv, Blobs!Writing
<1>6. QED
  BY <1>3, <1>4, <1>5 DEF BlobInv

LEMMA BlobCardinality == \A S : Blobs!Cardinality(S) = Cardinality(S)
BY DEF Blobs!Cardinality, Cardinality

LEMMA BlobStep ==
  ASSUME BlobConstants, BlobInv, [Blobs!Next]_(Blobs!vars)
  PROVE  BlobInv'
<1>1. CASE UNCHANGED Blobs!vars
  <2>1. UNCHANGED <<boot, default, whole, tmp, path, objects, rows, proc, overlapped, removed>>
    BY <1>1 DEF Blobs!vars
  <2>2. ShelfInv' /\ FilesApart' /\ OneWriter' /\ KeptInv'
    BY <2>1 DEF BlobInv, ShelfInv, FilesApart, OneWriter, KeptInv, Kept
  <2>3. QED
    BY <2>1, <2>2 DEF BlobInv, PutInv, OpenFileInv
<1>2. ASSUME NEW p \in Procs, Blobs!Cardinality(rows) < MaxArtifacts, Blobs!PutArtifact(p) PROVE BlobInv'
  BY <1>2, BlobCardinality, PutArtifactKeeps
<1>3. QED
  BY <1>1, <1>2, PutObjectKeeps, OpenTmpKeeps, FillTmpKeeps, RenameKeeps, ReadToEndKeeps, ReturnKeeps,
     GetKeeps, DeleteKeeps, RestartKeeps DEF Blobs!Next

\* What the runs check of the blob stores.
BlobsReadBack ==
  /\ Blobs!TypeOK /\ Blobs!ReadIsWhole /\ Blobs!PutFailsOnlyByOverlap /\ Blobs!RowsReadBack

LEMMA BlobImplies == ASSUME BlobConstants, BlobInv PROVE BlobsReadBack
<1>1. Blobs!TypeOK
  BY BlobCardinality DEF BlobInv, ShelfInv, Blobs!TypeOK
<1>2. Blobs!ReadIsWhole /\ Blobs!PutFailsOnlyByOverlap
  BY DEF BlobInv, OpenFileInv, Blobs!ReadIsWhole, Blobs!PutFailsOnlyByOverlap
<1>3. Blobs!RowsReadBack
  <2>1. SUFFICES ASSUME NEW u \in rows, u \notin removed, ~(u.scheme = "mem" /\ u.host # boot),
                        u.scheme \in Routed \cup {default}
                 PROVE  IF u.scheme = "file"
                        THEN Blobs!Route(u) = "file" /\ path[u.key] # 0
                             /\ (whole[path[u.key]] \/ u.key \in overlapped)
                        ELSE Blobs!Holds(Blobs!Route(u), u)
    BY DEF Blobs!RowsReadBack
  <2>2. u \in Uris /\ Kept(u) /\ boot \in Nat
    BY DEF BlobInv, ShelfInv, KeptInv, BlobConstants
  <2>3. Blobs!Route(u) = u.scheme
    BY <2>1 DEF Blobs!Route
  <2>4. u.key \in Keys /\ u.scheme \in Stores /\ (u.scheme # "mem" => u.host = 0)
    BY <2>2 DEF Uris
  <2>5. CASE u.scheme = "file"
    BY <2>1, <2>2, <2>3, <2>4, <2>5 DEF Kept, BlobInv, FilesApart
  <2>6. CASE u.scheme # "file"
    <3>1. [store |-> u.scheme, host |-> u.host, key |-> u.key] \in objects
      <4>1. ~(u.scheme = "mem" /\ u.host < boot)
        BY <2>1, <2>2
      <4>2. QED
        BY <2>1, <2>2, <2>6, <4>1 DEF Kept
    <3>2. Blobs!Host(u.scheme) = u.host
      BY <2>1, <2>4 DEF Blobs!Host
    <3>3. Blobs!KeyFrom(u.scheme, u) = u.key
      <4>1. CASE u.scheme = "mem"
        BY <2>1, <4>1 DEF Blobs!KeyFrom, Blobs!MemKey
      <4>2. CASE u.scheme = "s3"
        BY <2>4, <4>2 DEF Blobs!KeyFrom, Blobs!S3Key
      <4>3. CASE u.scheme = "ipfs"
        BY <4>3 DEF Blobs!KeyFrom, Blobs!CidFrom
      <4>4. QED
        BY <2>4, <2>6, <4>1, <4>2, <4>3 DEF Stores
    <3>4. QED
      BY <2>3, <2>6, <3>1, <3>2, <3>3 DEF Blobs!Holds
  <2>7. QED
    BY <2>5, <2>6
<1>4. QED
  BY <1>1, <1>2, <1>3 DEF BlobsReadBack

(* A blob is read whole: for any number of processes, keys, files, rows and
   restarts and any backends as default or registered, part of a body is
   read and a put finds nothing to rename only where two puts of the same
   bytes overlapped, and the uri of an artifact row finds its blob until a
   delete takes it or the process that held it in memory is gone.          *)
THEOREM BlobsAreWhole ==
  ASSUME BlobConstants
  PROVE  Blobs!Spec => []BlobsReadBack
<1>1. Blobs!Init => BlobInv
  BY BlobInit
<1>2. BlobInv /\ [Blobs!Next]_(Blobs!vars) => BlobInv'
  BY BlobStep
<1>3. BlobInv => BlobsReadBack
  BY BlobImplies
<1>4. QED
  BY <1>1, <1>2, <1>3, PTL DEF Blobs!Spec

---------------------------------------------------------------------------
(* Contract schemas.                                                       *)

CONSTANTS Fields, Values, MaxReleases

VARIABLES first, baseline, releases

Contract == INSTANCE SchemaCompat

\* Nothing to report between two schemas, keyword by keyword.
NoViolation(base, cur) ==
  base.defined =>
    /\ cur.defined
    /\ base.enum # Contract!Absent => cur.enum # Contract!Absent /\ base.enum \subseteq cur.enum
    /\ Contract!HasProperties(base) =>
         /\ \A f \in Fields : /\ base.props[f] # "absent" => cur.props[f] # "absent"
                              /\ base.props[f] \in {"string", "number"} => cur.props[f] = base.props[f]
         /\ base.required = cur.required

LEMMA ViolationsRead ==
  ASSUME NEW base \in Contract!Schemas, NEW cur \in Contract!Schemas
  PROVE  Contract!CompatibilityViolations(base, cur) = {} <=> NoViolation(base, cur)
<1>1. /\ base.required \subseteq Fields /\ cur.required \subseteq Fields
      /\ base.defined \in BOOLEAN /\ cur.defined \in BOOLEAN
  BY DEF Contract!Schemas
<1>2. Contract!CompareEnum(base, cur) = {}
        <=> (base.enum # Contract!Absent => cur.enum # Contract!Absent /\ base.enum \subseteq cur.enum)
  BY DEF Contract!CompareEnum
<1>3. Contract!CompareRequired(base, cur) = {} <=> base.required = cur.required
  BY DEF Contract!CompareRequired
<1>4. Contract!CompareProperties(base, cur) = {}
        <=> \A f \in Fields : base.props[f] # "absent" => cur.props[f] # "absent"
  BY DEF Contract!CompareProperties
<1>5. Contract!CompareScalarField(base, cur) = {}
        <=> \A f \in Fields : base.props[f] \in {"string", "number"} /\ cur.props[f] # "absent"
                                 => cur.props[f] = base.props[f]
  BY DEF Contract!CompareScalarField
<1>6. CASE ~base.defined
  BY <1>6 DEF Contract!CompatibilityViolations, NoViolation
<1>7. CASE base.defined /\ ~cur.defined
  BY <1>7 DEF Contract!CompatibilityViolations, NoViolation
<1>8. CASE base.defined /\ cur.defined
  <2>1. CASE Contract!HasProperties(base)
    <3>1. Contract!CompatibilityViolations(base, cur) =
             Contract!CompareEnum(base, cur) \cup Contract!CompareScalarField(base, cur)
               \cup Contract!CompareProperties(base, cur) \cup Contract!CompareRequired(base, cur)
      BY <1>8, <2>1 DEF Contract!CompatibilityViolations
    <3>2. Contract!CompatibilityViolations(base, cur) = {}
            <=> /\ Contract!CompareEnum(base, cur) = {} /\ Contract!CompareScalarField(base, cur) = {}
                /\ Contract!CompareProperties(base, cur) = {} /\ Contract!CompareRequired(base, cur) = {}
      BY <3>1
    <3>3. QED
      BY <1>2, <1>3, <1>4, <1>5, <1>8, <2>1, <3>2 DEF NoViolation
  <2>2. CASE ~Contract!HasProperties(base)
    <3>1. Contract!CompatibilityViolations(base, cur) = Contract!CompareEnum(base, cur)
      BY <1>8, <2>2 DEF Contract!CompatibilityViolations
    <3>2. QED
      BY <1>2, <1>8, <2>2, <3>1 DEF NoViolation
  <2>3. QED
    BY <2>1, <2>2
<1>9. QED
  BY <1>1, <1>6, <1>7, <1>8

\* Releases that follow one another without a violation leave none in between.
LEMMA NoViolationCarries ==
  ASSUME NEW a \in Contract!Schemas, NEW b \in Contract!Schemas, NEW c \in Contract!Schemas,
         NoViolation(a, b), NoViolation(b, c)
  PROVE  NoViolation(a, c)
<1>1. SUFFICES ASSUME a.defined PROVE NoViolation(a, c)
  BY DEF NoViolation
<1>2. b.defined /\ c.defined
  BY <1>1 DEF NoViolation
<1>3. a.enum # Contract!Absent => c.enum # Contract!Absent /\ a.enum \subseteq c.enum
  BY <1>1, <1>2 DEF NoViolation
<1>4. ASSUME Contract!HasProperties(a)
      PROVE  /\ \A f \in Fields : /\ a.props[f] # "absent" => c.props[f] # "absent"
                                  /\ a.props[f] \in {"string", "number"} => c.props[f] = a.props[f]
             /\ a.required = c.required
  <2>1. Contract!HasProperties(b)
    BY <1>1, <1>4 DEF NoViolation, Contract!HasProperties
  <2>2. QED
    BY <1>1, <1>2, <1>4, <2>1 DEF NoViolation
<1>5. QED
  BY <1>2, <1>3, <1>4 DEF NoViolation

ContractInv ==
  /\ first \in Contract!Schemas /\ baseline \in Contract!Schemas
  /\ NoViolation(first, baseline)

LEMMA ContractInit == ASSUME Contract!SchemaInit PROVE ContractInv
BY DEF Contract!SchemaInit, ContractInv, NoViolation

LEMMA ContractStep ==
  ASSUME ContractInv, [Contract!SchemaNext]_(Contract!schemaVars)
  PROVE  ContractInv'
<1>1. CASE UNCHANGED Contract!schemaVars
  <2>1. first' = first /\ baseline' = baseline
    BY <1>1 DEF Contract!schemaVars
  <2>2. QED
    BY <2>1 DEF ContractInv
<1>2. ASSUME NEW current \in Contract!Schemas, Contract!CheckCompat(current)
      PROVE  ContractInv'
  <2>1. /\ first' = first /\ baseline' = current
        /\ Contract!CompatibilityViolations(baseline, current) = {}
    BY <1>2 DEF Contract!CheckCompat
  <2>2. PICK a, b : a = first /\ b = baseline
    OBVIOUS
  <2>3. a \in Contract!Schemas /\ b \in Contract!Schemas /\ NoViolation(a, b)
    BY <2>2 DEF ContractInv
  <2>4. NoViolation(b, current)
    BY <1>2, <2>1, <2>2, <2>3, ViolationsRead
  <2>5. NoViolation(a, current)
    BY <1>2, <2>3, <2>4, NoViolationCarries
  <2>6. QED
    BY <1>2, <2>1, <2>2, <2>3, <2>5 DEF ContractInv
<1>3. QED
  BY <1>1, <1>2 DEF Contract!SchemaNext

\* What the runs check of the contract schemas.
ReleasesAreCompatible == Contract!CompatibleWithFirst /\ Contract!DocumentsStayValid

LEMMA ContractImplies == ASSUME ContractInv PROVE ReleasesAreCompatible
<1>1. first \in Contract!Schemas /\ baseline \in Contract!Schemas /\ NoViolation(first, baseline)
  BY DEF ContractInv
<1>2. Contract!CompatibleWithFirst
  BY <1>1, ViolationsRead DEF Contract!CompatibleWithFirst
<1>3. Contract!DocumentsStayValid
  <2>1. SUFFICES ASSUME \A f \in Fields : ~(first.props[f] \in {"absent", "any"} /\ baseline.props[f] \in {"string", "number"}),
                        ~(first.enum = Contract!Absent /\ baseline.enum # Contract!Absent),
                        Contract!HasProperties(first), first.defined,
                        NEW doc \in Contract!Documents, Contract!Valid(doc, first)
                 PROVE  Contract!Valid(doc, baseline)
    BY DEF Contract!DocumentsStayValid
  <2>2. /\ \A f \in Fields : first.props[f] \in {"string", "number"} => baseline.props[f] = first.props[f]
        /\ first.required = baseline.required
        /\ first.enum # Contract!Absent => baseline.enum # Contract!Absent /\ first.enum \subseteq baseline.enum
    BY <1>1, <2>1 DEF NoViolation
  <2>3. baseline.enum = Contract!Absent \/ doc.value \in baseline.enum
    BY <2>1, <2>2 DEF Contract!Valid
  <2>4. ASSUME NEW f \in Fields, f \in baseline.required PROVE doc.fields[f] # "missing"
    BY <2>1, <2>2, <2>4 DEF Contract!Valid
  <2>5. ASSUME NEW f \in Fields, baseline.props[f] \in {"string", "number"}
        PROVE  doc.fields[f] \in {"missing", baseline.props[f]}
    <3>1. first.props[f] \in Contract!Kinds
      BY <1>1, <2>5 DEF Contract!Schemas
    <3>2. first.props[f] \in {"string", "number"}
      BY <2>1, <2>5, <3>1 DEF Contract!Kinds
    <3>3. baseline.props[f] = first.props[f] /\ doc.fields[f] \in {"missing", first.props[f]}
      BY <2>1, <2>2, <2>5, <3>2 DEF Contract!Valid
    <3>4. QED
      BY <3>3
  <2>6. QED
    BY <2>3, <2>4, <2>5 DEF Contract!Valid
<1>4. QED
  BY <1>2, <1>3 DEF ReleasesAreCompatible

(* Compatibility is transitive: for any fields, values and number of
   releases, releases that each passed check-compat against the one before
   are compatible with the first, and accept its documents but for
   constraints put where there were none.                                  *)
THEOREM CompatibilityCarries == Contract!SchemaSpec => []ReleasesAreCompatible
<1>1. Contract!SchemaInit => ContractInv
  BY ContractInit
<1>2. ContractInv /\ [Contract!SchemaNext]_(Contract!schemaVars) => ContractInv'
  BY ContractStep
<1>3. ContractInv => ReleasesAreCompatible
  BY ContractImplies
<1>4. QED
  BY <1>1, <1>2, <1>3, PTL DEF Contract!SchemaSpec

---------------------------------------------------------------------------
(* What was stored is read as it was meant. Part of a blob is read, and a
   put fails, only where two puts of the same bytes overlapped; the uri of
   an artifact row finds its blob after restarts that change the default
   backend. (Module BlobStore.)  A contract checked against the release
   before it is compatible with the first one, and accepts its documents but
   for constraints put where there were none. (Module SchemaCompat.)       *)
StoredReadsBack == BlobsReadBack /\ ReleasesAreCompatible

\* Blobs and contracts together, for every value of their constants.
THEOREM StoredIsReadBack ==
  ASSUME BlobConstants
  PROVE  Blobs!Spec /\ Contract!SchemaSpec => []StoredReadsBack
<1>1. BlobsReadBack /\ ReleasesAreCompatible => StoredReadsBack
  BY DEF StoredReadsBack
<1>2. QED
  BY <1>1, BlobsAreWhole, CompatibilityCarries, PTL
=============================================================================
