--------------------------- MODULE ServiceProofs ---------------------------
(***************************************************************************)
(* Theorems about the two services that wait for decisions besides tool    *)
(* calls, memory review and the workflow runner, for any number of         *)
(* candidates, calls, nodes and edges.  Each keeps rows or counters that   *)
(* other calls change between two of its own statements.                   *)
(***************************************************************************)
EXTENDS Naturals, Sequences, FiniteSets, FiniteSetTheorems, SequenceTheorems, TLAPS

---------------------------------------------------------------------------
(* Memory review.                                                          *)

CONSTANTS Candidates, Reviews, Opposing, MaxMemories

VARIABLES candidate, memory, conflict, review, announced, scan, listing

Review == INSTANCE MemoryReview

\* Finitely many calls are made, on candidates.
ReviewConstants == IsFiniteSet(Reviews) /\ Candidates # {}

MemoryRows == [cand : Candidates, revoked : BOOLEAN, deleted : BOOLEAN]

ReviewStates == [op : Review!Commands \cup {"none"}, cand : Candidates,
                 pc : {"idle", "select", "insert", "update", "event", "done", "failed"}]

ReviewTypes ==
  /\ candidate \in [Candidates -> Review!Statuses]
  /\ memory \in Seq(MemoryRows)
  /\ review \in [Reviews -> ReviewStates]
  /\ announced \subseteq Review!Commands \X Candidates
  /\ listing \in [pc : {"idle", "second", "done"}, known : SUBSET Candidates,
                  shown : SUBSET Candidates, promoted : SUBSET Candidates]

\* Every pair found or inserted is opposed, the newer row first.
PairsAreOrdered ==
  \A p \in conflict \cup scan :
    /\ p \in Review!Rows \X Review!Rows /\ p[1] > p[2]
    /\ Review!Opposed(p[1], p[2])

\* approve_memory gets to its UPDATE only by its INSERT.
InsertedFirst ==
  \A r \in Reviews :
    /\ review[r].pc # "idle" => review[r].op \in Review!Commands
    /\ review[r].op = "approve" /\ review[r].pc \in {"update", "event"}
         => Review!MemoriesOf(review[r].cand) # {}

\* The approve_memory calls that are past their INSERT, or failed.
Past(c) == {r \in Reviews : /\ review[r].op = "approve" /\ review[r].cand = c
                            /\ review[r].pc \in {"update", "event", "done", "failed"}}

OnePerCall ==
  \A c \in Candidates : Cardinality(Review!MemoriesOf(c)) <= Cardinality(Past(c))

\* Between its two queries the listing has a known candidate, or its status is
\* one the second query asks for.
ListingGoesOn ==
  listing.pc = "second" =>
    /\ \A c \in listing.known : candidate[c] # "none"
    /\ \A c \in Candidates : Review!MemoriesOf(c) # {} => c \in listing.shown \cup listing.promoted

ReviewInv ==
  /\ ReviewTypes /\ PairsAreOrdered /\ InsertedFirst /\ OnePerCall /\ ListingGoesOn
  /\ Review!ApprovedHasMemory /\ Review!ListingShowsAll

\* A memory row is there for good and keeps its candidate.
RowsStay ==
  \A m \in DOMAIN memory : m \in DOMAIN memory' /\ memory'[m].cand = memory[m].cand

LEMMA ReviewCardinality == \A S : Review!Cardinality(S) = Cardinality(S)
BY DEF Review!Cardinality, Cardinality

LEMMA RowsAreFinite ==
  ASSUME memory \in Seq(MemoryRows), NEW c
  PROVE  IsFiniteSet(Review!MemoriesOf(c))
<1>1. IsFiniteSet(1..Len(memory)) /\ DOMAIN memory = 1..Len(memory)
  BY FS_Interval
<1>2. Review!MemoriesOf(c) \subseteq 1..Len(memory)
  BY <1>1 DEF Review!MemoriesOf, Review!Rows
<1>3. QED
  BY <1>1, <1>2, FS_Subset

LEMMA CallsAreFinite ==
  ASSUME ReviewConstants, NEW c
  PROVE  /\ IsFiniteSet(Past(c)) /\ IsFiniteSet(Review!Calls("approve", c))
         /\ Cardinality(Past(c)) <= Cardinality(Review!Calls("approve", c))
<1>1. Past(c) \subseteq Review!Calls("approve", c) /\ Review!Calls("approve", c) \subseteq Reviews
  BY DEF Past, Review!Calls
<1>2. IsFiniteSet(Review!Calls("approve", c))
  BY <1>1, FS_Subset DEF ReviewConstants
<1>3. QED
  BY <1>1, <1>2, FS_Subset

\* The inductive invariant implies what the runs check.
LEMMA ReviewImplies ==
  ASSUME ReviewConstants, ReviewInv
  PROVE  Review!ReviewIsAccounted
<1>1. Review!TypeOK
  <2>1. \A m \in DOMAIN memory : memory[m].cand \in Candidates
    <3>1. \A m \in DOMAIN memory : memory[m] \in MemoryRows
      BY DEF ReviewInv, ReviewTypes
    <3>2. QED
      BY <3>1 DEF MemoryRows
  <2>2. conflict \cup scan \subseteq {p \in Review!Rows \X Review!Rows : p[1] > p[2]}
    BY DEF ReviewInv, PairsAreOrdered
  <2>3. QED
    BY <2>1, <2>2 DEF ReviewInv, ReviewTypes, Review!TypeOK
<1>2. Review!MemoriesHaveApprovals
  <2> SUFFICES ASSUME NEW c \in Candidates
               PROVE  Cardinality(Review!MemoriesOf(c)) <= Cardinality(Review!Calls("approve", c))
    BY ReviewCardinality DEF Review!MemoriesHaveApprovals
  <2>1. /\ Cardinality(Review!MemoriesOf(c)) \in Nat /\ Cardinality(Past(c)) \in Nat
        /\ Cardinality(Review!Calls("approve", c)) \in Nat
    BY RowsAreFinite, CallsAreFinite, FS_CardinalityType DEF ReviewInv, ReviewTypes
  <2>2. QED
    BY <2>1, CallsAreFinite DEF ReviewInv, OnePerCall
<1>3. Review!ConflictPairsOnce
  <2> SUFFICES ASSUME NEW p \in conflict
               PROVE  Review!Opposed(p[1], p[2]) /\ <<p[2], p[1]>> \notin conflict
    BY DEF Review!ConflictPairsOnce
  <2>1. p[1] \in Nat /\ p[2] \in Nat /\ p[1] > p[2] /\ Review!Opposed(p[1], p[2])
    BY DEF ReviewInv, PairsAreOrdered, ReviewTypes, Review!Rows
  <2>2. <<p[2], p[1]>> \in conflict => p[2] > p[1]
    BY DEF ReviewInv, PairsAreOrdered
  <2>3. QED
    BY <2>1, <2>2
<1>4. QED
  BY <1>1, <1>2, <1>3 DEF ReviewInv, Review!ReviewIsAccounted

\* What one more memory row and a changed mark leave of the others.
LEMMA RowAdded ==
  ASSUME memory \in Seq(MemoryRows), NEW row \in MemoryRows, memory' = Append(memory, row)
  PROVE  /\ memory' \in Seq(MemoryRows) /\ RowsStay
         /\ \A c : Review!MemoriesOf(c)' = IF row.cand = c THEN Review!MemoriesOf(c) \cup {Len(memory) + 1}
                                    ELSE Review!MemoriesOf(c)
         /\ \A c : Len(memory) + 1 \notin Review!MemoriesOf(c)
<1>1. /\ memory' \in Seq(MemoryRows) /\ DOMAIN memory' = DOMAIN memory \cup {Len(memory) + 1}
      /\ \A m \in DOMAIN memory : memory'[m] = memory[m]
      /\ memory'[Len(memory) + 1] = row /\ Len(memory) + 1 \notin DOMAIN memory
  OBVIOUS
<1>2. QED
  BY <1>1 DEF RowsStay, Review!MemoriesOf, Review!Rows

LEMMA RowMarked ==
  ASSUME memory \in Seq(MemoryRows), NEW m \in DOMAIN memory,
         Review!Revoke(m) \/ Review!Delete(m)
  PROVE  /\ memory' \in Seq(MemoryRows) /\ RowsStay
         /\ \A c : Review!MemoriesOf(c)' = Review!MemoriesOf(c)
<1>1. \A n \in DOMAIN memory : memory[n] \in MemoryRows
  OBVIOUS
<1> DEFINE row == memory'[m]
<1>2. row \in MemoryRows /\ row.cand = memory[m].cand
  BY <1>1 DEF Review!Revoke, Review!Delete, MemoryRows
<1>3. memory' = [memory EXCEPT ![m] = row]
  BY DEF Review!Revoke, Review!Delete
<1> HIDE DEF row
<1>4. /\ memory' \in Seq(MemoryRows) /\ DOMAIN memory' = DOMAIN memory
      /\ \A n \in DOMAIN memory : memory'[n].cand = memory[n].cand
  BY <1>2, <1>3
<1>5. QED
  BY <1>4 DEF RowsStay, Review!MemoriesOf, Review!Rows

LEMMA PairsStay ==
  ASSUME PairsAreOrdered, RowsStay, UNCHANGED <<conflict, scan>>
  PROVE  PairsAreOrdered'
<1> SUFFICES ASSUME NEW p \in conflict \cup scan
             PROVE  /\ p \in Review!Rows' \X Review!Rows' /\ p[1] > p[2]
                    /\ Review!Opposed(p[1], p[2])'
  BY DEF PairsAreOrdered
<1>1. p \in Review!Rows \X Review!Rows /\ p[1] > p[2] /\ Review!Opposed(p[1], p[2])
  BY DEF PairsAreOrdered
<1>2. p[1] \in DOMAIN memory /\ p[2] \in DOMAIN memory
  BY <1>1 DEF Review!Rows
<1>3. QED
  BY <1>1, <1>2 DEF RowsStay, Review!Rows, Review!Opposed

\* What Goto leaves of a call.
LEMMA ReviewGoes ==
  ASSUME review \in [Reviews -> ReviewStates], NEW r \in Reviews,
         NEW next \in {"insert", "update", "event", "done", "failed"}, Review!Goto(r, next)
  PROVE  /\ review' \in [Reviews -> ReviewStates]
         /\ review'[r].pc = next /\ review'[r].op = review[r].op /\ review'[r].cand = review[r].cand
         /\ \A q \in Reviews \ {r} : review'[q] = review[q]
         /\ next # "insert" \/ review[r].pc = "select" => \A c : Past(c) \subseteq Past(c)'
<1>1. /\ review' \in [Reviews -> ReviewStates]
      /\ review'[r].pc = next /\ review'[r].op = review[r].op /\ review'[r].cand = review[r].cand
      /\ \A q \in Reviews \ {r} : review'[q] = review[q]
  BY DEF Review!Goto, ReviewStates
<1>2. QED
  BY <1>1 DEF Past

LEMMA OnePerCallStays ==
  ASSUME ReviewConstants, memory \in Seq(MemoryRows), OnePerCall,
         \A c : Review!MemoriesOf(c)' = Review!MemoriesOf(c), \A c : Past(c) \subseteq Past(c)'
  PROVE  OnePerCall'
<1> SUFFICES ASSUME NEW c \in Candidates
             PROVE  Cardinality(Review!MemoriesOf(c)) <= Cardinality(Past(c)')
  BY DEF OnePerCall
<1>1. Past(c)' \subseteq Reviews
  BY DEF Past
<1>2. IsFiniteSet(Past(c)')
  BY <1>1, FS_Subset DEF ReviewConstants
<1>3. /\ Cardinality(Past(c)) <= Cardinality(Past(c)') /\ Cardinality(Past(c)) \in Nat
      /\ Cardinality(Past(c)') \in Nat
  BY <1>2, FS_Subset, FS_CardinalityType
<1>4. Cardinality(Review!MemoriesOf(c)) \in Nat
  BY RowsAreFinite, FS_CardinalityType
<1>5. QED
  BY <1>3, <1>4 DEF OnePerCall

\* ReviewInv is inductive, whatever the order of the statements of several
\* calls and whichever of them fail.
LEMMA ReviewStepKeeps ==
  ASSUME ReviewConstants, ReviewInv, [Review!Next]_Review!vars
  PROVE  ReviewInv'
<1> USE DEF ReviewInv, ReviewTypes
<1>1. ASSUME NEW r \in Reviews, NEW op \in Review!Commands, NEW c \in Candidates, Review!Begin(r, op, c)
      PROVE  ReviewInv'
  <2>1. UNCHANGED <<candidate, memory, conflict, announced, scan, listing>> /\ review[r].pc = "idle"
    BY <1>1 DEF Review!Begin
  <2> DEFINE first == [propose |-> "insert", approve |-> "select", reject |-> "update"][op]
             state == [op |-> op, cand |-> c, pc |-> first]
  <2>2. first \in {"insert", "select", "update"} /\ (op = "approve" => first = "select")
    BY DEF Review!Commands
  <2> HIDE DEF first
  <2>3. state \in ReviewStates /\ state.op = op /\ state.pc = first
    BY <2>2 DEF ReviewStates
  <2>4. review' = [review EXCEPT ![r] = state]
    BY <1>1 DEF Review!Begin, first
  <2> HIDE DEF state
  <2>5. /\ review' \in [Reviews -> ReviewStates] /\ review'[r].op = op /\ review'[r].pc = first
        /\ \A q \in Reviews \ {r} : review'[q] = review[q]
    BY <2>3, <2>4
  <2>6. \A d : Past(d) \subseteq Past(d)'
    BY <2>1, <2>5 DEF Past
  <2>7. \A d : Review!MemoriesOf(d)' = Review!MemoriesOf(d)
    BY <2>1 DEF Review!MemoriesOf, Review!Rows
  <2>8. OnePerCall'
    BY <2>6, <2>7, OnePerCallStays
  <2>9. InsertedFirst'
    BY <2>2, <2>5, <2>7 DEF InsertedFirst
  <2>10. PairsAreOrdered'
    BY <2>1, PairsStay DEF RowsStay
  <2>11. QED
    BY <2>1, <2>5, <2>7, <2>8, <2>9, <2>10 DEF ListingGoesOn, Review!ApprovedHasMemory, Review!ListingShowsAll
<1>2. ASSUME NEW r \in Reviews, Review!InsertCandidate(r) PROVE ReviewInv'
  <2>1. /\ UNCHANGED <<memory, conflict, announced, scan, listing>> /\ Review!Goto(r, "event")
        /\ review[r].op = "propose"
        /\ candidate' = [candidate EXCEPT ![review[r].cand] = "pending_review"]
    BY <1>2 DEF Review!InsertCandidate
  <2>2. candidate' \in [Candidates -> Review!Statuses]
        /\ \A c \in Candidates : candidate'[c] \in {candidate[c], "pending_review"}
    BY <2>1 DEF Review!Statuses
  <2>3. /\ review' \in [Reviews -> ReviewStates] /\ review'[r].op = "propose"
        /\ "propose" \in Review!Commands
        /\ \A q \in Reviews \ {r} : review'[q] = review[q]
        /\ \A c : Past(c) \subseteq Past(c)'
    BY <2>1, ReviewGoes DEF Review!Commands
  <2>4. \A c : Review!MemoriesOf(c)' = Review!MemoriesOf(c)
    BY <2>1 DEF Review!MemoriesOf, Review!Rows
  <2>5. OnePerCall'
    BY <2>3, <2>4, OnePerCallStays
  <2>6. InsertedFirst'
    BY <2>3, <2>4 DEF InsertedFirst
  <2>7. PairsAreOrdered'
    BY <2>1, PairsStay DEF RowsStay
  <2>8. ListingGoesOn'
    BY <2>1, <2>2, <2>4 DEF ListingGoesOn
  <2>9. Review!ApprovedHasMemory'
    BY <2>1, <2>2, <2>4 DEF Review!ApprovedHasMemory
  <2>10. QED
    BY <2>1, <2>2, <2>3, <2>5, <2>6, <2>7, <2>8, <2>9 DEF Review!ListingShowsAll
<1>3. ASSUME NEW r \in Reviews, Review!SelectCandidate(r) \/ Review!Abort(r) PROVE ReviewInv'
  <2>1. /\ UNCHANGED <<candidate, memory, conflict, announced, scan, listing>>
        /\ review[r].pc # "idle"
        /\ \E next \in {"insert", "failed"} :
              Review!Goto(r, next) /\ (next # "insert" \/ review[r].pc = "select")
    BY <1>3 DEF Review!SelectCandidate, Review!Abort
  <2>2. /\ review' \in [Reviews -> ReviewStates] /\ review'[r].pc \in {"insert", "failed"}
        /\ review'[r].op = review[r].op
        /\ \A q \in Reviews \ {r} : review'[q] = review[q]
        /\ \A c : Past(c) \subseteq Past(c)'
    BY <2>1, ReviewGoes
  <2>3. \A c : Review!MemoriesOf(c)' = Review!MemoriesOf(c)
    BY <2>1 DEF Review!MemoriesOf, Review!Rows
  <2>4. OnePerCall'
    BY <2>2, <2>3, OnePerCallStays
  <2>5. InsertedFirst'
    BY <2>1, <2>2, <2>3 DEF InsertedFirst
  <2>6. PairsAreOrdered'
    BY <2>1, PairsStay DEF RowsStay
  <2>7. QED
    BY <2>1, <2>2, <2>3, <2>4, <2>5, <2>6 DEF ListingGoesOn, Review!ApprovedHasMemory, Review!ListingShowsAll
<1>4. ASSUME NEW r \in Reviews, Review!InsertMemory(r) PROVE ReviewInv'
  <2> DEFINE row == [cand |-> review[r].cand, revoked |-> FALSE, deleted |-> FALSE]
             of == review[r].cand
             added == Len(memory) + 1
  <2>1. /\ UNCHANGED <<candidate, conflict, announced, scan>> /\ Review!Goto(r, "update")
        /\ review[r].pc = "insert" /\ review[r].op = "approve" /\ memory' = Append(memory, row)
        /\ listing' = [listing EXCEPT !.promoted = IF listing.pc = "second" THEN @ \cup {of} ELSE @]
    BY <1>4 DEF Review!InsertMemory
  <2>2. of \in Candidates /\ row \in MemoryRows /\ row.cand = of
    BY DEF ReviewStates, MemoryRows
  <2>3. /\ memory' \in Seq(MemoryRows) /\ RowsStay
        /\ \A c : Review!MemoriesOf(c)' = IF of = c THEN Review!MemoriesOf(c) \cup {added} ELSE Review!MemoriesOf(c)
        /\ \A c : added \notin Review!MemoriesOf(c)
    BY <2>1, <2>2, RowAdded
  <2> HIDE DEF row, added
  <2>4. /\ review' \in [Reviews -> ReviewStates] /\ review'[r].pc = "update"
        /\ review'[r].op = "approve" /\ review'[r].cand = of
        /\ \A q \in Reviews \ {r} : review'[q] = review[q]
        /\ \A c : Past(c) \subseteq Past(c)'
    BY <2>1, ReviewGoes
  <2> HIDE DEF of
  <2>5. OnePerCall'
    <3> SUFFICES ASSUME NEW c \in Candidates
                 PROVE  Cardinality(Review!MemoriesOf(c)') <= Cardinality(Past(c)')
      BY DEF OnePerCall
    <3>1. IsFiniteSet(Review!MemoriesOf(c)) /\ IsFiniteSet(Past(c))
      BY RowsAreFinite, CallsAreFinite
    <3>2. Cardinality(Review!MemoriesOf(c)) \in Nat /\ Cardinality(Past(c)) \in Nat
      BY <3>1, FS_CardinalityType
    <3>3. CASE c = of
      <4>1. Past(c)' = Past(c) \cup {r} /\ r \notin Past(c)
        BY <2>1, <2>4, <3>3 DEF Past
      <4>2. Cardinality(Past(c)') = Cardinality(Past(c)) + 1
        BY <3>1, <4>1, FS_AddElement
      <4>3. Cardinality(Review!MemoriesOf(c)') = Cardinality(Review!MemoriesOf(c)) + 1
        BY <2>3, <3>1, <3>3, FS_AddElement
      <4>4. QED
        BY <3>2, <4>2, <4>3 DEF OnePerCall
    <3>4. CASE c # of
      <4>1. Past(c)' = Past(c)
        BY <2>1, <2>4, <3>4 DEF Past
      <4>2. QED
        BY <2>3, <3>4, <4>1 DEF OnePerCall
    <3>5. QED
      BY <3>3, <3>4
  <2>6. InsertedFirst'
    BY <2>1, <2>3, <2>4 DEF InsertedFirst
  <2>7. PairsAreOrdered'
    BY <2>1, <2>3, PairsStay
  <2>8. /\ listing' \in [pc : {"idle", "second", "done"}, known : SUBSET Candidates,
                         shown : SUBSET Candidates, promoted : SUBSET Candidates]
        /\ listing'.pc = listing.pc /\ listing'.known = listing.known /\ listing'.shown = listing.shown
        /\ listing'.promoted = IF listing.pc = "second" THEN listing.promoted \cup {of}
                               ELSE listing.promoted
    BY <2>1, <2>2
  <2>9. ListingGoesOn'
    BY <2>1, <2>3, <2>8 DEF ListingGoesOn
  <2>10. Review!ApprovedHasMemory'
    BY <2>1, <2>3 DEF Review!ApprovedHasMemory
  <2>11. QED
    BY <2>1, <2>3, <2>4, <2>5, <2>6, <2>7, <2>8, <2>9, <2>10 DEF Review!ListingShowsAll
<1>5. ASSUME NEW r \in Reviews, Review!UpdateCandidate(r) PROVE ReviewInv'
  <2> DEFINE of == review[r].cand
  <2>1. /\ UNCHANGED <<memory, conflict, announced, scan, listing>> /\ Review!Goto(r, "event")
        /\ review[r].pc = "update"
        /\ candidate' = [candidate EXCEPT ![of] =
              IF @ = "none" THEN @ ELSE IF review[r].op = "approve" THEN "approved" ELSE "rejected"]
    BY <1>5 DEF Review!UpdateCandidate
  <2>2. of \in Candidates
    BY DEF ReviewStates
  <2>3. /\ candidate' \in [Candidates -> Review!Statuses]
        /\ \A c \in Candidates : candidate[c] # "none" => candidate'[c] # "none"
        /\ \A c \in Candidates : candidate'[c] = "approved" =>
              candidate[c] = "approved" \/ (c = of /\ review[r].op = "approve")
    BY <2>1, <2>2 DEF Review!Statuses
  <2>4. /\ review' \in [Reviews -> ReviewStates] /\ review'[r].op = review[r].op
        /\ review'[r].cand = of
        /\ \A q \in Reviews \ {r} : review'[q] = review[q]
        /\ \A c : Past(c) \subseteq Past(c)'
    BY <2>1, ReviewGoes
  <2>5. \A c : Review!MemoriesOf(c)' = Review!MemoriesOf(c)
    BY <2>1 DEF Review!MemoriesOf, Review!Rows
  <2>6. review[r].op = "approve" => Review!MemoriesOf(of) # {}
    BY <2>1 DEF InsertedFirst
  <2>7. OnePerCall'
    BY <2>4, <2>5, OnePerCallStays
  <2>8. InsertedFirst'
    BY <2>1, <2>4, <2>5, <2>6 DEF InsertedFirst
  <2>9. PairsAreOrdered'
    BY <2>1, PairsStay DEF RowsStay
  <2>10. Review!ApprovedHasMemory'
    BY <2>1, <2>3, <2>5, <2>6 DEF Review!ApprovedHasMemory
  <2>11. ListingGoesOn'
    BY <2>1, <2>3, <2>5 DEF ListingGoesOn
  <2>12. QED
    BY <2>1, <2>3, <2>4, <2>7, <2>8, <2>9, <2>10, <2>11 DEF Review!ListingShowsAll
<1>6. ASSUME NEW r \in Reviews, Review!ReviewEvent(r) PROVE ReviewInv'
  <2>1. /\ UNCHANGED <<candidate, memory, conflict, scan, listing>> /\ Review!Goto(r, "done")
        /\ review[r].pc = "event"
        /\ announced' = announced \cup {<<review[r].op, review[r].cand>>}
    BY <1>6 DEF Review!ReviewEvent
  <2>2. /\ review' \in [Reviews -> ReviewStates] /\ review'[r].pc = "done"
        /\ review'[r].op = review[r].op
        /\ \A q \in Reviews \ {r} : review'[q] = review[q]
        /\ \A c : Past(c) \subseteq Past(c)'
    BY <2>1, ReviewGoes
  <2>3. \A c : Review!MemoriesOf(c)' = Review!MemoriesOf(c)
    BY <2>1 DEF Review!MemoriesOf, Review!Rows
  <2>4. review[r].op = "approve" => Review!MemoriesOf(review[r].cand) # {}
    BY <2>1 DEF InsertedFirst
  <2>5. OnePerCall'
    BY <2>2, <2>3, OnePerCallStays
  <2>6. InsertedFirst'
    BY <2>1, <2>2, <2>3 DEF InsertedFirst
  <2>7. PairsAreOrdered'
    BY <2>1, PairsStay DEF RowsStay
  <2>8. Review!ApprovedHasMemory'
    BY <2>1, <2>3, <2>4 DEF Review!ApprovedHasMemory
  <2>9. announced' \subseteq Review!Commands \X Candidates
    BY <2>1 DEF ReviewStates, InsertedFirst
  <2>10. QED
    BY <2>1, <2>2, <2>3, <2>5, <2>6, <2>7, <2>8, <2>9 DEF ListingGoesOn, Review!ListingShowsAll
<1>7. ASSUME NEW m \in DOMAIN memory, Review!Revoke(m) \/ Review!Delete(m) PROVE ReviewInv'
  <2>1. UNCHANGED <<candidate, conflict, review, announced, scan, listing>>
    BY <1>7 DEF Review!Revoke, Review!Delete
  <2>2. memory' \in Seq(MemoryRows) /\ RowsStay /\ \A c : Review!MemoriesOf(c)' = Review!MemoriesOf(c)
    BY <1>7, RowMarked
  <2>3. \A c : Past(c) \subseteq Past(c)'
    BY <2>1 DEF Past
  <2>4. OnePerCall' /\ PairsAreOrdered'
    BY <2>1, <2>2, <2>3, OnePerCallStays, PairsStay
  <2>5. QED
    BY <2>1, <2>2, <2>4 DEF InsertedFirst, ListingGoesOn, Review!ApprovedHasMemory, Review!ListingShowsAll
<1>8. ASSUME UNCHANGED <<candidate, memory, review, announced>>
      PROVE  OnePerCall' /\ InsertedFirst' /\ Review!ApprovedHasMemory'
  <2>1. \A c : Review!MemoriesOf(c)' = Review!MemoriesOf(c) /\ Past(c)' = Past(c)
    BY <1>8 DEF Review!MemoriesOf, Review!Rows, Past
  <2>2. QED
    BY <1>8, <2>1 DEF OnePerCall, InsertedFirst, Review!ApprovedHasMemory
<1>9. ASSUME NEW p \in scan, Review!ScanInsert(p) PROVE ReviewInv'
  BY <1>8, <1>9 DEF Review!ScanInsert, PairsAreOrdered, ListingGoesOn, Review!ListingShowsAll, Review!Rows, Review!Opposed,
     Review!MemoriesOf
<1>10. CASE Review!ScanSelect
  <2>1. UNCHANGED <<candidate, memory, conflict, review, announced, listing>>
    BY <1>10 DEF Review!ScanSelect
  <2>2. \A p \in scan' : p \in Review!Rows \X Review!Rows /\ p[1] > p[2] /\ Review!Opposed(p[1], p[2])
    BY <1>10 DEF Review!ScanSelect
  <2>3. PairsAreOrdered'
    BY <2>1, <2>2 DEF PairsAreOrdered, Review!Rows, Review!Opposed
  <2>4. QED
    BY <1>8, <2>1, <2>3 DEF ListingGoesOn, Review!ListingShowsAll, Review!MemoriesOf, Review!Rows
<1>11. CASE Review!ScanAbort
  BY <1>8, <1>11 DEF Review!ScanAbort, PairsAreOrdered, ListingGoesOn, Review!ListingShowsAll, Review!Rows, Review!Opposed,
     Review!MemoriesOf
<1>12. CASE Review!ListMemories
  <2>1. UNCHANGED <<candidate, memory, conflict, review, announced, scan>>
    BY <1>12 DEF Review!ListMemories
  <2> DEFINE known == {c \in Candidates : candidate[c] # "none"}
             shown == {memory[m].cand : m \in DOMAIN memory}
  <2>2. \A c \in Candidates : Review!MemoriesOf(c)' # {} => c \in shown
    BY <2>1 DEF Review!MemoriesOf, Review!Rows
  <2>3. shown \subseteq Candidates
    <3>1. \A m \in DOMAIN memory : memory[m] \in MemoryRows
      OBVIOUS
    <3>2. QED
      BY <3>1 DEF MemoryRows
  <2>4. listing' = [pc |-> "second", promoted |-> {}, known |-> known, shown |-> shown]
    BY <1>12 DEF Review!ListMemories
  <2>5. \A c \in known : candidate[c] # "none"
    OBVIOUS
  <2>6. known \subseteq Candidates
    OBVIOUS
  <2> HIDE DEF known, shown
  <2>7. PairsAreOrdered'
    BY <2>1, PairsStay DEF RowsStay
  <2>8. ListingGoesOn' /\ Review!ListingShowsAll'
    BY <2>1, <2>2, <2>4, <2>5 DEF ListingGoesOn, Review!ListingShowsAll
  <2>9. ReviewTypes'
    BY <2>1, <2>3, <2>4, <2>6
  <2>10. QED
    BY <1>8, <2>1, <2>7, <2>8, <2>9
<1>13. CASE Review!ListCandidates
  <2> DEFINE undecided == {c \in Candidates : candidate[c] \in {"pending_review", "rejected"}}
  <2>1. UNCHANGED <<candidate, memory, conflict, review, announced, scan>> /\ listing.pc = "second"
    BY <1>13 DEF Review!ListCandidates
  <2>2. listing' = [listing EXCEPT !.pc = "done", !.shown = @ \cup undecided]
    BY <1>13 DEF Review!ListCandidates
  <2>3. listing.known \subseteq listing.shown \cup listing.promoted \cup undecided
    <3> SUFFICES ASSUME NEW c \in listing.known, c \notin undecided
                 PROVE  c \in listing.shown \cup listing.promoted
      OBVIOUS
    <3>1. c \in Candidates /\ candidate[c] = "approved"
      BY <2>1 DEF ListingGoesOn, Review!Statuses
    <3>2. QED
      BY <2>1, <3>1 DEF Review!ApprovedHasMemory, ListingGoesOn
  <2>4. undecided \subseteq Candidates
    OBVIOUS
  <2> HIDE DEF undecided
  <2>5. /\ listing' \in [pc : {"idle", "second", "done"}, known : SUBSET Candidates,
                         shown : SUBSET Candidates, promoted : SUBSET Candidates]
        /\ listing'.pc = "done" /\ listing'.known = listing.known
        /\ listing'.shown = listing.shown \cup undecided /\ listing'.promoted = listing.promoted
    BY <2>2, <2>4
  <2>6. PairsAreOrdered'
    BY <2>1, PairsStay DEF RowsStay
  <2>7. QED
    BY <1>8, <2>1, <2>3, <2>5, <2>6 DEF ListingGoesOn, Review!ListingShowsAll
<1>14. CASE UNCHANGED Review!vars
  BY <1>8, <1>14 DEF Review!vars, PairsAreOrdered, ListingGoesOn, Review!ListingShowsAll, Review!Rows, Review!Opposed, Review!MemoriesOf
<1>15. QED
  BY <1>1, <1>2, <1>3, <1>4, <1>5, <1>6, <1>7, <1>9, <1>10, <1>11, <1>12, <1>13, <1>14
     DEF Review!Next, Review!ReviewStep

(* Memory review survives failures between its statements, repeats and
   stale lists. An approved candidate has a memory, and no candidate has
   more memories than approvals. A contradiction is reported once. A
   listing leaves a candidate out only if its memory was inserted between
   the two queries.                                                        *)
ReviewIsAccounted == Review!ReviewIsAccounted

\* An approved candidate has a memory and none has more memories than
\* approvals, a contradiction is reported once, and a listing leaves a candidate
\* out only if its memory was inserted between the two queries: for any number
\* of concurrent, failing and repeated calls.
THEOREM ReviewsAreAccounted ==
  ASSUME ReviewConstants
  PROVE  Review!Spec => []ReviewIsAccounted
<1>1. Review!Init => ReviewInv
  <2> SUFFICES ASSUME Review!Init PROVE ReviewInv
    OBVIOUS
  <2>1. ReviewTypes
    BY DEF Review!Init, ReviewConstants, ReviewTypes, ReviewStates, Review!Statuses
  <2>2. \A c \in Candidates : Review!MemoriesOf(c) = {} /\ candidate[c] # "approved"
    BY DEF Review!Init, Review!MemoriesOf, Review!Rows
  <2>3. OnePerCall
    <3> SUFFICES ASSUME NEW c \in Candidates
                 PROVE  Cardinality(Review!MemoriesOf(c)) <= Cardinality(Past(c))
      BY DEF OnePerCall
    <3>1. Cardinality(Review!MemoriesOf(c)) = 0
      BY <2>2, FS_EmptySet
    <3>2. Cardinality(Past(c)) \in Nat
      BY CallsAreFinite, FS_CardinalityType
    <3>3. QED
      BY <3>1, <3>2
  <2>4. InsertedFirst
    BY DEF Review!Init, InsertedFirst
  <2>5. PairsAreOrdered /\ ListingGoesOn /\ Review!ListingShowsAll
    BY DEF Review!Init, PairsAreOrdered, ListingGoesOn, Review!ListingShowsAll
  <2>6. Review!ApprovedHasMemory
    BY <2>2 DEF Review!Init, Review!ApprovedHasMemory
  <2>7. QED
    BY <2>1, <2>3, <2>4, <2>5, <2>6 DEF ReviewInv
<1>2. ReviewInv /\ [Review!Next]_Review!vars => ReviewInv'
  BY ReviewStepKeeps
<1>3. ReviewInv => Review!ReviewIsAccounted
  BY ReviewImplies
<1>4. QED
  BY <1>1, <1>2, <1>3, PTL DEF Review!Spec, ReviewIsAccounted

---------------------------------------------------------------------------
(* The workflow runner.                                                    *)

CONSTANTS Nodes, EdgeSets, Gates, NoOps, MaxAnswers
VARIABLES edges, indeg, ready, order, verdict, step, flowStatus, handed, flowRow, answers

Flow == INSTANCE FlowRunner

\* A workflow has finitely many nodes and edges.
FlowConstants ==
  /\ IsFiniteSet(Nodes)
  /\ \A E \in EdgeSets : IsFiniteSet(E) /\ \A e \in E : e = <<e[1], e[2]>>

\* The keys that are counted: an unknown source is not.
Counted == Nodes \cup {e[2] : e \in edges}

\* The edges into k whose source is not out yet.
OpenInto(k) == {e \in edges : e[2] = k /\ e[1] \notin Flow!Visited}

StepStatuses == {"pending", "running", "succeeded", "failed", "awaitingapproval"}

FlowTypes ==
  /\ edges \in EdgeSets
  /\ indeg \in [Counted -> Nat]
  /\ ready \in Seq(Counted)
  /\ order \in Seq(Counted)
  /\ verdict \in {"busy", "ok", "cycle"}
  /\ step \in [Nodes -> StepStatuses]
  /\ flowStatus \in {"pending", "succeeded", "failed"}
  /\ handed \subseteq Nodes

\* indeg counts what is open, and the keys without open edges are out or ready.
DegreesCount ==
  /\ \A k \in Counted : indeg[k] = Cardinality(OpenInto(k))
  /\ \A i \in DOMAIN ready : indeg[ready[i]] = 0
  /\ \A k \in Counted : indeg[k] = 0 =>
        k \in Flow!Visited \/ \E i \in DOMAIN ready : ready[i] = k

\* The keys are out once each, every one behind its predecessors.
OrderGoesForward ==
  /\ \A i, j \in DOMAIN order : order[i] = order[j] => i = j
  /\ \A e \in edges, j \in DOMAIN order :
        order[j] = e[2] => \E i \in DOMAIN order : i < j /\ order[i] = e[1]

\* What topological_order ended with.
FlowVerdicts ==
  /\ verdict # "busy" => ready = <<>>
  /\ verdict = "ok" => Len(order) = Cardinality(Nodes)
  /\ verdict = "cycle" => Len(order) # Cardinality(Nodes)
  /\ verdict # "ok" => handed = {} /\ flowStatus # "succeeded"

\* The driver has a prefix of the order.
HandedIsAPrefix ==
  /\ handed \subseteq Flow!Visited
  /\ \A i, j \in DOMAIN order : i < j /\ order[j] \in handed => order[i] \in handed
  /\ \A n \in Nodes : step[n] # "pending" => n \in handed

\* A failed step fails the run.
FailuresShow ==
  /\ flowStatus # "failed" => \A n \in Nodes : step[n] # "failed"
  /\ flowStatus = "succeeded" =>
        /\ Flow!Visited \subseteq Nodes
        /\ \A n \in Nodes : step[n] = "succeeded"

FlowInv ==
  FlowTypes /\ DegreesCount /\ OrderGoesForward /\ FlowVerdicts /\ HandedIsAPrefix /\ FailuresShow

\* The instance's Cardinality is that of FiniteSets.
LEMMA FlowCardinality == \A S : Flow!Cardinality(S) = Cardinality(S)
BY DEF Flow!Cardinality, Cardinality

\* The orders of a finite set are sequences over it that have every member.
LEMMA OrdersAreSequences ==
  ASSUME NEW S, IsFiniteSet(S), NEW s \in Flow!Orders(S)
  PROVE  s \in Seq(S) /\ \A k \in S : \E i \in DOMAIN s : s[i] = k
<1>1. Cardinality(S) \in Nat
  BY FS_CardinalityType
<1>2. s \in [1..Cardinality(S) -> S]
  BY FlowCardinality DEF Flow!Orders
<1>3. QED
  BY <1>1, <1>2 DEF Flow!Orders

\* A set of positions has a first one.
LEMMA FirstPosition ==
  ASSUME NEW T, T \subseteq Nat, T # {}
  PROVE  \E i \in T : \A j \in T : i <= j
<1> DEFINE R == {p \in Nat \X Nat : p[1] < p[2]}
<1>1. IsWellFoundedOn(R, Nat)
  BY NatLessThanWellFounded, Zenon DEF OpToRel
<1>2. \E i \in T : \A j \in T : ~(<<j, i>> \in R)
  <2> HIDE DEF R
  <2> QED
    BY <1>1, WFMin
<1>3. \A i, j \in Nat : <<j, i>> \in R <=> j < i
  OBVIOUS
<1>4. QED
  <2>1. PICK i \in T : \A j \in T : ~(<<j, i>> \in R)
    BY <1>2, Zenon
  <2>2. \A j \in T : ~(j < i)
    BY <1>3, <2>1
  <2>3. \A j \in T : i <= j
    BY <2>2
  <2>4. QED
    BY <2>3

\* As many keys are out as the sequence is long.
LEMMA VisitedIsCounted ==
  ASSUME order \in Seq(Counted), \A i, j \in DOMAIN order : order[i] = order[j] => i = j
  PROVE  IsFiniteSet(Flow!Visited) /\ Cardinality(Flow!Visited) = Len(order)
<1> DEFINE D == 1..Len(order)
           f == [i \in D |-> order[i]]
<1>1. Len(order) \in Nat /\ DOMAIN order = D
  OBVIOUS
<1>2. IsFiniteSet(D) /\ Cardinality(D) = Len(order)
  BY <1>1, FS_Interval
<1>3. f \in Bijection(D, Flow!Visited)
  BY <1>1 DEF Flow!Visited, Bijection, Injection, IsInjective, Surjection
<1>4. QED
  BY <1>2, <1>3, FS_Bijection DEF ExistsBijection

LEMMA CountedIsFinite ==
  ASSUME FlowConstants, edges \in EdgeSets
  PROVE  IsFiniteSet(Counted)
<1> DEFINE f == [e \in edges |-> e[2]]
<1>1. IsFiniteSet(edges) /\ IsFiniteSet(Nodes)
  BY DEF FlowConstants
<1>2. f \in Surjection(edges, {e[2] : e \in edges})
  BY DEF Surjection
<1>3. IsFiniteSet({e[2] : e \in edges})
  BY <1>1, <1>2, FS_Surjection
<1>4. QED
  BY <1>1, <1>3, FS_Union DEF Counted

LEMMA FlowInit == ASSUME FlowConstants, Flow!Init PROVE FlowInv
<1> USE DEF FlowConstants, Flow!Init
<1>1. Flow!Visited = {}
  BY DEF Flow!Visited
<1>2. edges \in EdgeSets /\ IsFiniteSet(edges)
  OBVIOUS
<1>3. \A k : OpenInto(k) = {e \in edges : e[2] = k} /\ IsFiniteSet(OpenInto(k))
             /\ Cardinality(OpenInto(k)) \in Nat
  <2>1. SUFFICES ASSUME NEW k PROVE OpenInto(k) = {e \in edges : e[2] = k} /\ IsFiniteSet(OpenInto(k))
             /\ Cardinality(OpenInto(k)) \in Nat
    OBVIOUS
  <2>2. OpenInto(k) = {e \in edges : e[2] = k} /\ OpenInto(k) \subseteq edges
    BY <1>1 DEF OpenInto
  <2>3. QED
    BY <1>2, <2>2, FS_Subset, FS_CardinalityType
<1>4. indeg = [k \in Counted |-> Cardinality(OpenInto(k))]
  BY <1>3, FlowCardinality DEF Flow!Degree, Counted
<1>5. IsFiniteSet(Counted)
  BY <1>2, CountedIsFinite
<1> DEFINE Z == {k \in Counted : indeg[k] = 0}
<1>6. IsFiniteSet(Z) /\ ready \in Flow!Orders(Z)
  BY <1>4, <1>5, FS_Subset DEF Flow!Sorted
<1>7. ready \in Seq(Z) /\ \A k \in Z : \E i \in DOMAIN ready : ready[i] = k
  BY <1>6, OrdersAreSequences
<1>8. Z \subseteq Counted
  OBVIOUS
<1>9. ready \in Seq(Counted) /\ \A i \in DOMAIN ready : ready[i] \in Z
  <2> HIDE DEF Z, Flow!Init
  <2> QED
    BY <1>7, <1>8
<1>10. FlowTypes
  BY <1>2, <1>3, <1>4, <1>9 DEF FlowTypes, StepStatuses
<1>11. DegreesCount
  BY <1>3, <1>4, <1>7, <1>9 DEF DegreesCount
<1>12. QED
  BY <1>10, <1>11, <1>1 DEF FlowInv, OrderGoesForward, FlowVerdicts, HandedIsAPrefix, FailuresShow


LEMMA Popped ==
  ASSUME NEW S, NEW q \in Seq(S), q # <<>>
  PROVE  /\ SubSeq(q, 1, Len(q) - 1) \in Seq(S)
         /\ Len(SubSeq(q, 1, Len(q) - 1)) = Len(q) - 1
         /\ \A i \in 1..(Len(q) - 1) : SubSeq(q, 1, Len(q) - 1)[i] = q[i]
         /\ DOMAIN q = 1..Len(q) /\ Len(q) \in 1..Len(q) /\ q[Len(q)] \in S
<1>1. Len(q) \in Nat /\ Len(q) > 0 /\ DOMAIN q = 1..Len(q) /\ \A i \in 1..Len(q) : q[i] \in S
  OBVIOUS
<1>2. \A i \in 1..(Len(q) - 1) : q[i] \in S
  BY <1>1
<1>3. /\ SubSeq(q, 1, Len(q) - 1) \in Seq(S)
      /\ Len(SubSeq(q, 1, Len(q) - 1)) =
            IF 1 <= Len(q) - 1 THEN (Len(q) - 1) - 1 + 1 ELSE 0
      /\ \A i \in 1..((Len(q) - 1) - 1 + 1) : SubSeq(q, 1, Len(q) - 1)[i] = q[1 + i - 1]
  BY <1>1, <1>2, SubSeqProperties
<1>4. QED
  BY <1>1, <1>3

\* A round of topological_order that puts a key out.
LEMMA KeyGoesOut ==
  ASSUME FlowConstants, FlowInv, Flow!Visit, ready[Len(ready)] \notin Flow!Visited
  PROVE  FlowInv'
<1> USE DEF FlowConstants
<1>1. /\ edges \in EdgeSets /\ IsFiniteSet(edges) /\ \A e \in edges : e = <<e[1], e[2]>>
      /\ indeg \in [Counted -> Nat] /\ ready \in Seq(Counted) /\ order \in Seq(Counted)
  BY DEF FlowInv, FlowTypes
<1>2. PICK n : n = ready[Len(ready)]
  OBVIOUS
<1>3. PICK rest : rest = SubSeq(ready, 1, Len(ready) - 1)
  OBVIOUS
<1>4. /\ verdict = "busy" /\ ready # <<>> /\ order' = Append(order, n)
      /\ indeg' = [k \in Counted |-> Flow!Lowered(n, k)]
      /\ \E pushed \in Flow!Orders(Flow!NewlyReady(n)) : ready' = rest \o pushed
      /\ UNCHANGED <<edges, verdict, step, flowStatus, handed, flowRow, answers>>
  BY <1>1, <1>2, <1>3 DEF Flow!Visit
<1>5. /\ n \in Counted /\ n \notin Flow!Visited /\ indeg[n] = 0
      /\ rest \in Seq(Counted) /\ Len(rest) = Len(ready) - 1 /\ DOMAIN ready = 1..Len(ready)
      /\ \A i \in 1..(Len(ready) - 1) : rest[i] = ready[i]
  <2>1. /\ rest \in Seq(Counted) /\ Len(rest) = Len(ready) - 1 /\ DOMAIN ready = 1..Len(ready)
        /\ \A i \in 1..(Len(ready) - 1) : rest[i] = ready[i]
        /\ n \in Counted /\ Len(ready) \in DOMAIN ready
    BY <1>1, <1>2, <1>3, <1>4, Popped
  <2>2. indeg[ready[Len(ready)]] = 0
    BY <2>1 DEF FlowInv, DegreesCount
  <2>3. QED
    BY <1>2, <2>1, <2>2
<1>6. /\ DOMAIN order = 1..Len(order) /\ Len(order) \in Nat /\ order' \in Seq(Counted)
       /\ DOMAIN order' = 1..(Len(order) + 1) /\ order'[Len(order) + 1] = n
       /\ \A i \in 1..Len(order) : order'[i] = order[i]
  BY <1>1, <1>4, <1>5, AppendProperties
<1>7. Flow!Visited' = Flow!Visited \cup {n} /\ Counted' = Counted
  <2>1. Flow!Visited = {order[i] : i \in 1..Len(order)}
    BY <1>6 DEF Flow!Visited
  <2>2. Flow!Visited' = {order'[i] : i \in 1..(Len(order) + 1)}
    BY <1>6 DEF Flow!Visited
  <2>3. \A i \in 1..(Len(order) + 1) : i \in 1..Len(order) \/ i = Len(order) + 1
    BY <1>6
  <2>4. Len(order) + 1 \in 1..(Len(order) + 1) /\ 1..Len(order) \subseteq 1..(Len(order) + 1)
    BY <1>6
  <2>5. QED
    BY <1>4, <1>6, <2>1, <2>2, <2>3, <2>4 DEF Counted
<1>8. \A k : k \in Flow!Successors(n) <=> <<n, k>> \in edges
  <2>1. \A e \in edges : e[1] = n => <<n, e[2]>> \in edges
    BY <1>1
  <2>2. \A k : <<n, k>>[1] = n /\ <<n, k>>[2] = k
    OBVIOUS
  <2>3. QED
    BY <2>1, <2>2 DEF Flow!Successors
<1>9. \A k : OpenInto(k)' = OpenInto(k) \ {<<n, k>>}
  BY <1>1, <1>4, <1>7 DEF OpenInto
<1>10. \A k : IsFiniteSet(OpenInto(k)) /\ Cardinality(OpenInto(k)) \in Nat
  <2>1. \A k : OpenInto(k) \subseteq edges
    BY DEF OpenInto
  <2>2. QED
    BY <1>1, <2>1, FS_Subset, FS_CardinalityType
<1>11. \A k \in Counted : indeg[k] = Cardinality(OpenInto(k))
  BY DEF FlowInv, DegreesCount
<1>12. \A k \in Counted : <<n, k>> \in edges => <<n, k>> \in OpenInto(k) /\ indeg[k] > 0
  <2>1. SUFFICES ASSUME NEW k \in Counted, <<n, k>> \in edges
                 PROVE  <<n, k>> \in OpenInto(k) /\ indeg[k] > 0
    OBVIOUS
  <2>2. <<n, k>> \in OpenInto(k)
    BY <1>5, <2>1 DEF OpenInto
  <2>3. QED
    BY <1>10, <1>11, <2>2, FS_EmptySet
<1>13. \A k \in Counted : /\ Flow!Lowered(n, k) \in Nat
                          /\ Cardinality(OpenInto(k)') = Flow!Lowered(n, k)
  <2>1. SUFFICES ASSUME NEW k \in Counted
                 PROVE  /\ Flow!Lowered(n, k) \in Nat
                        /\ Cardinality(OpenInto(k)') = Flow!Lowered(n, k)
    OBVIOUS
  <2>2. Cardinality(OpenInto(k) \ {<<n, k>>}) =
          IF <<n, k>> \in OpenInto(k) THEN indeg[k] - 1 ELSE indeg[k]
    BY <1>10, <1>11, FS_RemoveElement
  <2>3. <<n, k>> \in OpenInto(k) => <<n, k>> \in edges
    BY DEF OpenInto
  <2>4. OpenInto(k)' = OpenInto(k) \ {<<n, k>>} /\ indeg[k] \in Nat
    BY <1>1, <1>9
  <2>5. CASE <<n, k>> \in edges
    BY <1>8, <1>12, <2>2, <2>4, <2>5 DEF Flow!Lowered
  <2>6. CASE <<n, k>> \notin edges
    BY <1>8, <2>2, <2>3, <2>4, <2>6 DEF Flow!Lowered
  <2>7. QED
    BY <2>5, <2>6
<1>14. Flow!NewlyReady(n) \subseteq Counted /\ IsFiniteSet(Flow!NewlyReady(n))
  <2>1. Flow!NewlyReady(n) \subseteq Counted
    BY DEF Flow!NewlyReady, Flow!Successors, Counted
  <2>2. QED
    BY <1>1, <2>1, CountedIsFinite, FS_Subset
<1>15. PICK pushed : /\ pushed \in Seq(Flow!NewlyReady(n)) /\ ready' = rest \o pushed
                     /\ \A k \in Flow!NewlyReady(n) : \E i \in DOMAIN pushed : pushed[i] = k
  BY <1>4, <1>14, OrdersAreSequences
<1>16. /\ pushed \in Seq(Counted) /\ DOMAIN pushed = 1..Len(pushed)
       /\ \A i \in DOMAIN pushed : pushed[i] \in Flow!NewlyReady(n)
  BY <1>14, <1>15
<1>17. /\ ready' \in Seq(Counted) /\ DOMAIN ready' = 1..(Len(rest) + Len(pushed))
       /\ \A i \in 1..Len(rest) : ready'[i] = rest[i]
       /\ \A i \in 1..Len(pushed) : ready'[Len(rest) + i] = pushed[i]
  <2>1. /\ rest \o pushed \in Seq(Counted)
        /\ Len(rest \o pushed) = Len(rest) + Len(pushed)
        /\ \A i \in 1..(Len(rest) + Len(pushed)) : (rest \o pushed)[i] =
              IF i <= Len(rest) THEN rest[i] ELSE pushed[i - Len(rest)]
    <3>1. rest \in Seq(Counted) /\ pushed \in Seq(Counted)
      BY <1>5, <1>16
    <3>2. QED
      BY <3>1, ConcatProperties, Zenon
  <2>2. Len(rest) \in Nat /\ Len(pushed) \in Nat
    BY <1>5, <1>16
  <2>3. ready' \in Seq(Counted) /\ DOMAIN ready' = 1..(Len(rest) + Len(pushed))
    BY <1>15, <2>1
  <2>4. \A i \in 1..(Len(rest) + Len(pushed)) : ready'[i] =
              IF i <= Len(rest) THEN rest[i] ELSE pushed[i - Len(rest)]
    BY <1>15, <2>1
  <2>5. QED
    BY <2>2, <2>3, <2>4
<1>18. \A i \in DOMAIN ready' : \/ i \in 1..(Len(ready) - 1) /\ ready'[i] = ready[i]
                                \/ ready'[i] \in Flow!NewlyReady(n)
  <2>1. SUFFICES ASSUME NEW i \in DOMAIN ready', i \notin 1..(Len(ready) - 1)
                 PROVE  ready'[i] \in Flow!NewlyReady(n)
    BY <1>5, <1>17
  <2>2. i - Len(rest) \in 1..Len(pushed) /\ i = Len(rest) + (i - Len(rest))
    BY <1>5, <1>16, <1>17, <2>1
  <2>3. QED
    BY <1>16, <1>17, <2>2
<1>19. FlowTypes'
  BY <1>1, <1>4, <1>7, <1>13, <1>17, <1>6 DEF FlowInv, FlowTypes
<1>20. DegreesCount'
  <2>1. \A k \in Counted : indeg'[k] = Cardinality(OpenInto(k)')
    BY <1>4, <1>13
  <2>2. \A i \in DOMAIN ready' : indeg'[ready'[i]] = 0
    <3>1. SUFFICES ASSUME NEW i \in DOMAIN ready' PROVE Flow!Lowered(n, ready'[i]) = 0
      BY <1>4, <1>17
    <3>2. CASE ready'[i] \in Flow!NewlyReady(n)
      BY <3>2 DEF Flow!NewlyReady
    <3>3. CASE i \in 1..(Len(ready) - 1) /\ ready'[i] = ready[i]
      <4>1. indeg[ready[i]] = 0
        BY <1>1, <1>5, <3>3 DEF FlowInv, DegreesCount
      <4>2. QED
        BY <3>3, <4>1 DEF Flow!Lowered
    <3>4. QED
      BY <1>18, <3>2, <3>3
  <2>3. ASSUME NEW k \in Counted, indeg'[k] = 0
        PROVE  k \in Flow!Visited' \/ \E i \in DOMAIN ready' : ready'[i] = k
    <3>1. Flow!Lowered(n, k) = 0
      BY <1>4, <2>3
    <3>2. CASE indeg[k] = 0
      <4>1. k \in Flow!Visited \/ \E i \in DOMAIN ready : ready[i] = k
        BY <3>2 DEF FlowInv, DegreesCount
      <4>2. CASE \E i \in 1..(Len(ready) - 1) : ready[i] = k
        BY <1>1, <1>5, <1>16, <1>17, <4>2
      <4>3. CASE k = ready[Len(ready)]
        BY <1>2, <1>7, <4>3
      <4>4. QED
        BY <1>1, <1>5, <1>7, <4>1, <4>2, <4>3
    <3>3. CASE indeg[k] # 0
      <4>1. k \in Flow!NewlyReady(n)
        BY <3>1, <3>3 DEF Flow!Lowered, Flow!NewlyReady
      <4>2. PICK i \in 1..Len(pushed) : pushed[i] = k
        BY <1>15, <1>16, <4>1
      <4>3. Len(rest) + i \in DOMAIN ready' /\ ready'[Len(rest) + i] = k
        BY <1>5, <1>16, <1>17, <4>2
      <4>4. QED
        BY <4>3
    <3>4. QED
      BY <3>2, <3>3
  <2>4. QED
    BY <1>7, <2>1, <2>2, <2>3 DEF DegreesCount
<1>21. OrderGoesForward'
  <2>1. /\ DOMAIN order = 1..Len(order) /\ Len(order) \in Nat
        /\ DOMAIN order' = 1..(Len(order) + 1) /\ order'[Len(order) + 1] = n
        /\ \A i \in 1..Len(order) : order'[i] = order[i]
    BY <1>6
  <2>2. \A i \in 1..Len(order) : order[i] # n
    BY <1>5, <2>1 DEF Flow!Visited
  <2>3. \A i, j \in DOMAIN order' : order'[i] = order'[j] => i = j
    BY <2>1, <2>2 DEF FlowInv, OrderGoesForward
  <2>4. ASSUME NEW e \in edges, e[2] = n
        PROVE  \E i \in 1..Len(order) : order[i] = e[1]
    <3>1. OpenInto(n) = {}
      BY <1>5, <1>10, <1>11, FS_EmptySet
    <3>2. e[1] \in Flow!Visited
      BY <2>4, <3>1 DEF OpenInto
    <3>3. QED
      BY <2>1, <3>2 DEF Flow!Visited
  <2>5. ASSUME NEW e \in edges, NEW j \in DOMAIN order', order'[j] = e[2]
        PROVE  \E i \in DOMAIN order' : i < j /\ order'[i] = e[1]
    <3>1. CASE j = Len(order) + 1
      BY <2>1, <2>4, <2>5, <3>1
    <3>2. CASE j \in 1..Len(order)
      <4>1. \E i \in DOMAIN order : i < j /\ order[i] = e[1]
        BY <2>1, <2>5, <3>2 DEF FlowInv, OrderGoesForward
      <4>2. QED
        BY <2>1, <4>1
    <3>3. QED
      BY <2>1, <3>1, <3>2
  <2>6. QED
    BY <1>4, <2>3, <2>5 DEF OrderGoesForward
<1>22. FlowVerdicts' /\ HandedIsAPrefix' /\ FailuresShow'
  BY <1>4 DEF FlowInv, FlowVerdicts, HandedIsAPrefix, FailuresShow
<1>23. QED
  BY <1>19, <1>20, <1>21, <1>22 DEF FlowInv

\* A key that is out already is popped and nothing else.
LEMMA KeyIsDropped ==
  ASSUME FlowInv, Flow!Visit, ready[Len(ready)] \in Flow!Visited
  PROVE  FlowInv'
<1>1. ready \in Seq(Counted) /\ ready # <<>> /\ verdict = "busy"
  BY DEF FlowInv, FlowTypes, Flow!Visit
<1>2. /\ ready' = SubSeq(ready, 1, Len(ready) - 1)
      /\ UNCHANGED <<edges, indeg, order, verdict, step, flowStatus, handed, flowRow, answers>>
  BY DEF Flow!Visit
<1>3. /\ ready' \in Seq(Counted) /\ DOMAIN ready' = 1..(Len(ready) - 1)
      /\ \A i \in 1..(Len(ready) - 1) : ready'[i] = ready[i]
      /\ DOMAIN ready = 1..Len(ready) /\ Len(ready) \in Nat
  BY <1>1, <1>2, Popped
<1>4. /\ Counted' = Counted /\ Flow!Visited' = Flow!Visited
      /\ \A k : OpenInto(k)' = OpenInto(k)
  BY <1>2 DEF Counted, OpenInto, Flow!Visited
<1>5. FlowTypes'
  BY <1>2, <1>3, <1>4 DEF FlowInv, FlowTypes
<1>6. DegreesCount'
  <2>1. \A k \in Counted : indeg'[k] = Cardinality(OpenInto(k)')
    BY <1>2, <1>4 DEF FlowInv, DegreesCount
  <2>2. \A i \in DOMAIN ready' : indeg'[ready'[i]] = 0
    BY <1>2, <1>3 DEF FlowInv, DegreesCount
  <2>3. ASSUME NEW k \in Counted, indeg'[k] = 0
        PROVE  k \in Flow!Visited' \/ \E i \in DOMAIN ready' : ready'[i] = k
    <3>1. k \in Flow!Visited \/ \E i \in DOMAIN ready : ready[i] = k
      BY <1>2, <2>3 DEF FlowInv, DegreesCount
    <3>2. \A i \in DOMAIN ready : i \in 1..(Len(ready) - 1) \/ i = Len(ready)
      BY <1>3
    <3>3. QED
      BY <1>3, <1>4, <3>1, <3>2
  <2>4. QED
    BY <1>4, <2>1, <2>2, <2>3 DEF DegreesCount
<1>7. OrderGoesForward'
  BY <1>2 DEF FlowInv, OrderGoesForward
<1>8. FlowVerdicts' /\ HandedIsAPrefix' /\ FailuresShow'
  BY <1>1, <1>2, <1>4 DEF FlowInv, FlowVerdicts, HandedIsAPrefix, FailuresShow
<1>9. QED
  BY <1>5, <1>6, <1>7, <1>8 DEF FlowInv

\* With as many nodes out as there are, and no other key, every node is.
LEMMA AllAreOut ==
  ASSUME FlowConstants, FlowInv, verdict = "ok", Flow!Visited \subseteq Nodes
  PROVE  Flow!Visited = Nodes
<1>1. Cardinality(Flow!Visited) = Cardinality(Nodes)
  BY VisitedIsCounted DEF FlowInv, FlowTypes, OrderGoesForward, FlowVerdicts
<1>2. QED
  BY <1>1, FS_Subset DEF FlowConstants

\* What the graph walk leaves alone.
LEMMA WalkUnchanged ==
  ASSUME FlowInv, UNCHANGED <<edges, indeg, ready, order>>
  PROVE  /\ Counted' = Counted /\ Flow!Visited' = Flow!Visited
         /\ DegreesCount' /\ OrderGoesForward'
<1>1. /\ Counted' = Counted /\ Flow!Visited' = Flow!Visited
      /\ \A k : OpenInto(k)' = OpenInto(k)
  BY DEF Counted, OpenInto, Flow!Visited
<1>2. QED
  BY <1>1 DEF FlowInv, DegreesCount, OrderGoesForward

\* FlowInv is inductive.
LEMMA FlowStep ==
  ASSUME FlowConstants, FlowInv, [Flow!Next]_Flow!vars
  PROVE  FlowInv'
<1> DEFINE Rest == FlowVerdicts /\ HandedIsAPrefix /\ FailuresShow
<1>1. CASE Flow!Visit
  BY <1>1, KeyGoesOut, KeyIsDropped
<1>2. CASE Flow!Conclude
  <2>1. /\ Counted' = Counted /\ Flow!Visited' = Flow!Visited
        /\ DegreesCount' /\ OrderGoesForward'
    BY <1>2, WalkUnchanged DEF Flow!Conclude
  <2>2. FlowTypes'
    BY <1>2, <2>1 DEF FlowInv, FlowTypes, Flow!Conclude
  <2>3. Rest'
    BY <1>2, <2>1, FlowCardinality
       DEF FlowInv, FlowVerdicts, HandedIsAPrefix, FailuresShow, Flow!Conclude
  <2>4. QED
    BY <2>1, <2>2, <2>3 DEF FlowInv
<1>3. CASE Flow!NextAction
  <2>1. PICK first \in Flow!Open :
          LET n == order[first] IN
          /\ n \in Nodes /\ \A i \in Flow!Open : first <= i
          /\ step' = [step EXCEPT ![n] = IF n \in NoOps THEN "succeeded"
                                         ELSE IF n \in Gates THEN "awaitingapproval" ELSE "running"]
          /\ handed' = handed \cup {n}
    BY <1>3 DEF Flow!NextAction
  <2>2. /\ verdict = "ok" /\ flowStatus # "failed"
        /\ UNCHANGED <<edges, indeg, ready, order, verdict, flowStatus, flowRow, answers>>
    BY <1>3 DEF Flow!NextAction
  <2>3. /\ Counted' = Counted /\ Flow!Visited' = Flow!Visited
        /\ DegreesCount' /\ OrderGoesForward'
    BY <2>2, WalkUnchanged
  <2>4. PICK n : n = order[first]
    OBVIOUS
  <2>5. /\ first \in DOMAIN order /\ n \in Nodes /\ n \in Flow!Visited
        /\ step[n] \in {"awaitingapproval", "running", "pending"}
        /\ handed' = handed \cup {n}
        /\ \A m \in Nodes : step'[m] # "failed" \/ step'[m] = step[m]
        /\ \A m \in Nodes : m # n => step'[m] = step[m]
        /\ step' \in [Nodes -> StepStatuses]
    BY <2>1, <2>4 DEF Flow!Open, Flow!Halted, Flow!Visited, FlowInv, FlowTypes, StepStatuses
  <2>6. FlowTypes'
    BY <2>2, <2>3, <2>5 DEF FlowInv, FlowTypes
  <2>7. \A i \in DOMAIN order : i < first => order[i] \in handed
    <3>1. SUFFICES ASSUME NEW i \in DOMAIN order, i < first PROVE order[i] \in handed
      OBVIOUS
    <3>2. i \notin Flow!Open
      <4>1. i \in Nat /\ first \in Nat
        BY <2>5 DEF FlowInv, FlowTypes
      <4>2. QED
        BY <2>1, <3>1, <4>1
    <3>3. order[i] \in Nodes /\ step[order[i]] # "pending"
      BY <3>2 DEF Flow!Open
    <3>4. QED
      BY <3>3 DEF FlowInv, HandedIsAPrefix
  <2>8. HandedIsAPrefix'
    <3>1. ASSUME NEW i \in DOMAIN order, NEW j \in DOMAIN order, i < j, order[j] \in handed'
          PROVE  order[i] \in handed'
      <4>1. CASE order[j] \in handed
        BY <2>5, <3>1, <4>1 DEF FlowInv, HandedIsAPrefix
      <4>2. CASE order[j] = n
        <5>1. j = first
          BY <2>4, <2>5, <4>2 DEF FlowInv, OrderGoesForward
        <5>2. QED
          BY <2>5, <2>7, <3>1, <5>1
      <4>3. QED
        BY <2>5, <3>1, <4>1, <4>2
    <3>2. QED
      BY <2>2, <2>3, <2>5, <3>1 DEF FlowInv, HandedIsAPrefix
  <2>9. FlowVerdicts' /\ FailuresShow'
    BY <2>2, <2>3, <2>5 DEF FlowInv, FlowVerdicts, FailuresShow
  <2>10. QED
    BY <2>3, <2>6, <2>8, <2>9 DEF FlowInv
<1>4. CASE Flow!Finish
  <2>1. /\ verdict = "ok" /\ flowStatus # "failed" /\ Flow!Open = {} /\ flowStatus' = "succeeded"
        /\ UNCHANGED <<edges, indeg, ready, order, verdict, step, handed, flowRow, answers>>
    BY <1>4 DEF Flow!Finish
  <2>2. /\ Counted' = Counted /\ Flow!Visited' = Flow!Visited
        /\ DegreesCount' /\ OrderGoesForward'
    BY <2>1, WalkUnchanged
  <2>3. \A k \in Flow!Visited : k \in Nodes /\ step[k] \notin {"awaitingapproval", "running", "pending"}
    BY <2>1 DEF Flow!Open, Flow!Halted, Flow!Visited
  <2>4. Flow!Visited = Nodes
    BY <2>1, <2>3, AllAreOut
  <2>5. \A n \in Nodes : step[n] = "succeeded"
    BY <2>1, <2>3, <2>4 DEF FlowInv, FlowTypes, StepStatuses, FailuresShow
  <2>6. FlowTypes' /\ Rest'
    BY <2>1, <2>2, <2>4, <2>5
       DEF FlowInv, FlowTypes, FlowVerdicts, HandedIsAPrefix, FailuresShow
  <2>7. QED
    BY <2>2, <2>6 DEF FlowInv
<1>5. CASE Flow!PersistRun
  <2>1. UNCHANGED <<edges, indeg, ready, order, verdict, step, flowStatus, handed>>
    BY <1>5 DEF Flow!PersistRun
  <2>2. QED
    BY <2>1, WalkUnchanged
       DEF FlowInv, FlowTypes, FlowVerdicts, HandedIsAPrefix, FailuresShow
<1>6. ASSUME NEW n \in Nodes, Flow!CompleteStep(n) PROVE FlowInv'
  <2>1. /\ n \in handed /\ step' = [step EXCEPT ![n] = "succeeded"]
        /\ UNCHANGED <<edges, indeg, ready, order, verdict, flowStatus, handed>>
    BY <1>6 DEF Flow!CompleteStep
  <2>2. /\ Counted' = Counted /\ Flow!Visited' = Flow!Visited
        /\ DegreesCount' /\ OrderGoesForward'
    BY <2>1, WalkUnchanged
  <2>3. /\ step' \in [Nodes -> StepStatuses]
        /\ \A m \in Nodes : step'[m] = IF m = n THEN "succeeded" ELSE step[m]
    BY <2>1 DEF FlowInv, FlowTypes, StepStatuses
  <2>4. FlowTypes' /\ Rest'
    BY <2>1, <2>2, <2>3 DEF FlowInv, FlowTypes, FlowVerdicts, HandedIsAPrefix, FailuresShow
  <2>5. QED
    BY <2>2, <2>4 DEF FlowInv
<1>7. ASSUME NEW n \in Nodes, NEW approved \in BOOLEAN, Flow!ResolveApproval(n, approved)
      PROVE  FlowInv'
  <2>1. /\ n \in handed
        /\ step' = [step EXCEPT ![n] = IF approved THEN "succeeded" ELSE "failed"]
        /\ flowStatus' = IF approved THEN flowStatus ELSE "failed"
        /\ UNCHANGED <<edges, indeg, ready, order, verdict, handed>>
    BY <1>7 DEF Flow!ResolveApproval
  <2>2. /\ Counted' = Counted /\ Flow!Visited' = Flow!Visited
        /\ DegreesCount' /\ OrderGoesForward'
    BY <2>1, WalkUnchanged
  <2>3. /\ step' \in [Nodes -> StepStatuses]
        /\ \A m \in Nodes : step'[m] = IF m = n THEN IF approved THEN "succeeded" ELSE "failed"
                                       ELSE step[m]
    BY <2>1 DEF FlowInv, FlowTypes, StepStatuses
  <2>4. FlowTypes' /\ Rest'
    BY <2>1, <2>2, <2>3 DEF FlowInv, FlowTypes, FlowVerdicts, HandedIsAPrefix, FailuresShow
  <2>5. QED
    BY <2>2, <2>4 DEF FlowInv
<1>8. ASSUME NEW n, Flow!FailStep(n) PROVE FlowInv'
  <2>1. /\ verdict = "ok" /\ (n \in handed \/ n \notin Nodes)
        /\ step' = [m \in Nodes |-> IF m = n THEN "failed" ELSE step[m]]
        /\ flowStatus' = "failed"
        /\ UNCHANGED <<edges, indeg, ready, order, verdict, handed>>
    BY <1>8 DEF Flow!FailStep
  <2>2. /\ Counted' = Counted /\ Flow!Visited' = Flow!Visited
        /\ DegreesCount' /\ OrderGoesForward'
    BY <2>1, WalkUnchanged
  <2>3. step' \in [Nodes -> StepStatuses]
    BY <2>1 DEF FlowInv, FlowTypes, StepStatuses
  <2>4. FlowTypes' /\ Rest'
    BY <2>1, <2>2, <2>3 DEF FlowInv, FlowTypes, FlowVerdicts, HandedIsAPrefix, FailuresShow
  <2>5. QED
    BY <2>2, <2>4 DEF FlowInv
<1>9. CASE UNCHANGED Flow!vars
  <2>1. UNCHANGED <<edges, indeg, ready, order, verdict, step, flowStatus, handed>>
    BY <1>9 DEF Flow!vars
  <2>2. QED
    BY <2>1, WalkUnchanged
       DEF FlowInv, FlowTypes, FlowVerdicts, HandedIsAPrefix, FailuresShow
<1>10. QED
  BY <1>1, <1>2, <1>3, <1>4, <1>5, <1>6, <1>7, <1>8, <1>9 DEF Flow!Next

\* The first of a set of nodes in the order has no predecessor in the set.
LEMMA ForwardIsAcyclic ==
  ASSUME FlowInv, Nodes \subseteq Flow!Visited
  PROVE  Flow!NoCycle
<1>1. SUFFICES ASSUME NEW S \in SUBSET Nodes, S # {}
               PROVE  \E n \in S : \A e \in edges : e[2] = n => e[1] \notin S
  BY DEF Flow!NoCycle
<1> DEFINE T == {i \in DOMAIN order : order[i] \in S}
<1>2. T \subseteq Nat
  BY DEF FlowInv, FlowTypes
<1>3. T # {}
  BY <1>1 DEF Flow!Visited
<1>4. PICK i \in T : \A j \in T : i <= j
  <2> HIDE DEF T
  <2> QED
    BY <1>2, <1>3, FirstPosition
<1>5. ASSUME NEW e \in edges, e[2] = order[i], e[1] \in S PROVE FALSE
  <2>1. PICK j \in DOMAIN order : j < i /\ order[j] = e[1]
    BY <1>5 DEF FlowInv, OrderGoesForward
  <2>2. j \in T
    BY <1>5, <2>1
  <2>3. j \in Nat /\ i \in Nat /\ i <= j
    BY <1>2, <1>4, <2>2
  <2>4. QED
    BY <2>1, <2>3
<1>6. QED
  BY <1>4, <1>5

\* topological_order refuses no acyclic workflow: of the nodes that are not out,
\* one would have all its predecessors out.
LEMMA CycleIsReal ==
  ASSUME FlowConstants, FlowInv, verdict = "cycle"
  PROVE  ~Flow!Acyclic
<1>1. SUFFICES ASSUME Flow!Acyclic PROVE FALSE
  OBVIOUS
<1>2. Counted \subseteq Nodes /\ \A e \in edges : e[1] \in Nodes
  BY <1>1 DEF Flow!Acyclic, Flow!Keys, Counted
<1>3. Flow!Visited \subseteq Nodes
  BY <1>2 DEF FlowInv, FlowTypes, Flow!Visited
<1>4. CASE Nodes \ Flow!Visited = {}
  <2>1. Flow!Visited = Nodes
    BY <1>3, <1>4
  <2>2. QED
    BY <2>1, VisitedIsCounted DEF FlowInv, FlowTypes, OrderGoesForward, FlowVerdicts
<1>5. CASE Nodes \ Flow!Visited # {}
  <2>1. PICK n \in Nodes \ Flow!Visited : \A e \in edges : e[2] = n => e[1] \notin Nodes \ Flow!Visited
    BY <1>1, <1>5 DEF Flow!Acyclic, Flow!NoCycle
  <2>2. OpenInto(n) = {}
    BY <1>2, <2>1 DEF OpenInto
  <2>3. n \in Counted
    BY <2>1 DEF Counted
  <2>4. indeg[n] = 0
    BY <2>2, <2>3, FS_EmptySet DEF FlowInv, DegreesCount
  <2>5. ready = <<>>
    BY DEF FlowInv, FlowVerdicts
  <2>6. QED
    BY <2>1, <2>3, <2>4, <2>5 DEF FlowInv, DegreesCount
<1>6. QED
  BY <1>4, <1>5

(* A workflow keeps to its graph whatever late, repeated or refusing
   answers come. topological_order refuses no acyclic graph over its own
   nodes; over known targets it accepts no other, with every edge forward.
   No action is handed out before its predecessors were. A run that reports
   success has every step succeeded and no cycle.                          *)
FlowIsOrdered == Flow!FlowIsOrdered

\* A workflow keeps to its graph, however many nodes and edges it has, for any
\* order of the edge list and any late, repeated or refusing answers.
THEOREM FlowKeepsToItsGraph ==
  ASSUME FlowConstants
  PROVE  Flow!Spec => []FlowIsOrdered
<1>1. Flow!Init => FlowInv
  BY FlowInit
<1>2. FlowInv /\ [Flow!Next]_Flow!vars => FlowInv'
  BY FlowStep
<1>3. FlowInv => Flow!FlowIsOrdered
  <2>1. SUFFICES ASSUME FlowInv PROVE Flow!FlowIsOrdered
    OBVIOUS
  <2>2. Flow!TypeOK
    <3>1. Flow!Visited \subseteq Flow!Keys(edges)
      BY <2>1 DEF FlowInv, FlowTypes, Flow!Visited, Flow!Keys, Counted
    <3>2. QED
      BY <2>1, <3>1 DEF FlowInv, FlowTypes, StepStatuses, Flow!TypeOK
  <2>3. ASSUME verdict = "ok", Flow!TargetsAreNodes
        PROVE  /\ Flow!Acyclic /\ Flow!Visited = Nodes /\ Len(order) = Cardinality(Nodes)
               /\ \A e \in edges : \E i, j \in DOMAIN order :
                     i < j /\ order[i] = e[1] /\ order[j] = e[2]
    <3>1. Flow!Visited = Nodes
      <4>1. Flow!Visited \subseteq Nodes
        BY <2>1, <2>3 DEF FlowInv, FlowTypes, Flow!Visited, Flow!TargetsAreNodes, Counted
      <4>2. QED
        BY <2>1, <2>3, <4>1, AllAreOut
    <3>2. \A e \in edges : \E i, j \in DOMAIN order :
                     i < j /\ order[i] = e[1] /\ order[j] = e[2]
      <4>1. SUFFICES ASSUME NEW e \in edges
                     PROVE  \E i, j \in DOMAIN order : i < j /\ order[i] = e[1] /\ order[j] = e[2]
        OBVIOUS
      <4>2. PICK j \in DOMAIN order : order[j] = e[2]
        BY <2>3, <3>1 DEF Flow!TargetsAreNodes, Flow!Visited
      <4>3. QED
        BY <2>1, <4>2 DEF FlowInv, OrderGoesForward
    <3>3. Flow!Keys(edges) = Nodes
      <4>1. \A e \in edges : e[1] \in Nodes /\ e[2] \in Nodes
        BY <3>1, <3>2 DEF Flow!Visited
      <4>2. QED
        BY <4>1 DEF Flow!Keys
    <3>4. Flow!Acyclic
      BY <2>1, <3>1, <3>3, ForwardIsAcyclic DEF Flow!Acyclic
    <3>5. QED
      BY <2>1, <2>3, <3>1, <3>2, <3>4 DEF FlowInv, FlowVerdicts
  <2>4. Flow!OrderIsTopological
    BY <2>1, <2>3, CycleIsReal, FlowCardinality DEF Flow!OrderIsTopological
  <2>5. Flow!HandedInOrder
    <3>1. SUFFICES ASSUME NEW e \in edges, e[2] \in handed PROVE e[1] \in handed
      BY DEF Flow!HandedInOrder
    <3>2. PICK j \in DOMAIN order : order[j] = e[2]
      BY <2>1, <3>1 DEF FlowInv, HandedIsAPrefix, Flow!Visited
    <3>3. PICK i \in DOMAIN order : i < j /\ order[i] = e[1]
      BY <2>1, <3>2 DEF FlowInv, OrderGoesForward
    <3>4. QED
      BY <2>1, <3>1, <3>2, <3>3 DEF FlowInv, HandedIsAPrefix
  <2>6. Flow!SuccessIsWhole
    <3>1. SUFFICES ASSUME flowStatus = "succeeded"
                   PROVE  Flow!NoCycle /\ \A n \in Nodes : step[n] = "succeeded"
      BY DEF Flow!SuccessIsWhole
    <3>2. /\ verdict = "ok" /\ Flow!Visited \subseteq Nodes
          /\ \A n \in Nodes : step[n] = "succeeded"
      BY <2>1, <3>1 DEF FlowInv, FlowVerdicts, FailuresShow
    <3>3. QED
      BY <2>1, <3>2, AllAreOut, ForwardIsAcyclic
  <2>7. QED
    BY <2>2, <2>4, <2>5, <2>6 DEF Flow!FlowIsOrdered
<1>4. QED
  BY <1>1, <1>2, <1>3, PTL DEF Flow!Spec, FlowIsOrdered
=============================================================================
