------------------------- MODULE EffectQueueProofs -------------------------
(***************************************************************************)
(* Theorems about EffectQueue, for any number of effects and workers, any  *)
(* max_attempts, and any assignment of types and handlers; and about the   *)
(* browser driver that some of its workers hold.                           *)
(***************************************************************************)
EXTENDS EffectQueue, FiniteSetTheorems, TLAPS

\* Two passes of reap_expired never overlap.
OneReaper == \A q, r \in Reapers : q = r

\* Setting released_at, or passing expires_at, changes nothing else of a claim.
LEMMA ClaimUpdates ==
  ASSUME NEW c \in Claim
  PROVE  /\ Release(c) \in Claim
         /\ Release(c).effect = c.effect /\ Release(c).attempt = c.attempt
         /\ Release(c).worker = c.worker /\ Release(c).released
         /\ [c EXCEPT !.expired = TRUE] \in Claim
         /\ [c EXCEPT !.expired = TRUE].effect = c.effect
         /\ [c EXCEPT !.expired = TRUE].attempt = c.attempt
         /\ [c EXCEPT !.expired = TRUE].worker = c.worker
         /\ [c EXCEPT !.expired = TRUE].released = c.released
BY DEF Claim, Release

\* TypeOK is inductive as it stands.
LEMMA TypeStep ==
  ASSUME TypeOK, [Next]_vars
  PROVE  TypeOK'
<1> USE ConstantsAssumption DEF TypeOK, Claim, ReapRow, NoRow, WorkerPCs,
        HoldingPCs, Statuses, Goto, DropLease, rowVars, workerVars, reaperVars
<1>1. ASSUME NEW e \in Effects, Enqueue(e) PROVE TypeOK'
  BY <1>1 DEF Enqueue
<1>2. ASSUME NEW w \in Workers, Register(w) PROVE TypeOK'
  BY <1>2 DEF Register
<1>3. ASSUME NEW w \in Workers, ClaimSelect(w) PROVE TypeOK'
  BY <1>3 DEF ClaimSelect, Oldest, Eligible
<1>4. ASSUME NEW w \in Workers, ClaimNothing(w) PROVE TypeOK'
  BY <1>4 DEF ClaimNothing
<1>5. ASSUME NEW w \in Workers, ClaimUpdate(w) PROVE TypeOK'
  BY <1>5 DEF ClaimUpdate
<1>6. ASSUME NEW w \in Workers, ClaimLost(w) PROVE TypeOK'
  BY <1>6 DEF ClaimLost
<1>7. ASSUME NEW w \in Workers, ClaimInsert(w) PROVE TypeOK'
  <2>1. [effect |-> held[w], attempt |-> ran[w], worker |-> w,
         expired |-> FALSE, released |-> FALSE] \in Claim
    BY <1>7 DEF ClaimInsert
  <2>2. claims' \subseteq Claim
    BY <1>7, <2>1 DEF ClaimInsert
  <2>3. QED
    BY <1>7, <2>2 DEF ClaimInsert
<1>8. ASSUME NEW w \in Workers, Start(w) PROVE TypeOK'
  BY <1>8 DEF Start
<1>9. ASSUME NEW w \in Workers, Complete(w) PROVE TypeOK'
  BY <1>9 DEF Complete
<1>10. ASSUME NEW w \in Workers, InsertResult(w) PROVE TypeOK'
  BY <1>10 DEF InsertResult
<1>11. ASSUME NEW w \in Workers, Fail(w) PROVE TypeOK'
  BY <1>11 DEF Fail
<1>12. ASSUME NEW w \in Workers, Heartbeat(w) PROVE TypeOK'
  BY <1>12 DEF Heartbeat
<1>13. ASSUME NEW w \in Workers, Stop(w) PROVE TypeOK'
  BY <1>13 DEF Stop
<1>14. ASSUME NEW w \in Workers, ReportLost(w) PROVE TypeOK'
  BY <1>14 DEF ReportLost
<1>15. ASSUME NEW c \in claims, LeaseExpires(c) PROVE TypeOK'
  BY <1>15 DEF LeaseExpires
<1>16. ASSUME NEW r \in Reapers, ReapSelect(r) PROVE TypeOK'
  <2>1. {[effect |-> c.effect, attempt |-> c.attempt,
          seen |-> attempts[c.effect]] : c \in Reapable} \subseteq ReapRow
    BY DEF Reapable
  <2>2. QED
    BY <1>16, <2>1 DEF ReapSelect
<1>17. ASSUME NEW r \in Reapers, ReapRelease(r) PROVE TypeOK'
  <2>1. PICK row \in todo[r] :
          /\ claims' = {IF c.effect = row.effect /\ c.attempt = row.attempt
                        THEN Release(c) ELSE c : c \in claims}
          /\ cur' = [cur EXCEPT ![r] = row]
          /\ todo' = [todo EXCEPT ![r] = todo[r] \ {row}]
    BY <1>17 DEF ReapRelease
  <2>2. claims' \subseteq Claim
    <3> SUFFICES ASSUME NEW c \in claims
                 PROVE  (IF c.effect = row.effect /\ c.attempt = row.attempt
                         THEN Release(c) ELSE c) \in Claim
      BY <2>1
    <3>1. c \in Claim
      BY DEF TypeOK
    <3>2. Release(c) \in Claim
      BY <3>1, ClaimUpdates
    <3>3. QED
      BY <3>1, <3>2
  <2>3. QED
    BY <1>17, <2>1, <2>2 DEF ReapRelease
<1>18. ASSUME NEW r \in Reapers, ReapRequeue(r) PROVE TypeOK'
  BY <1>18 DEF ReapRequeue
<1>19. ASSUME NEW r \in Reapers, ReapAbort(r) PROVE TypeOK'
  BY <1>19 DEF ReapAbort
<1>20. CASE UNCHANGED vars
  BY <1>20 DEF vars
<1>21. QED
  BY <1>1, <1>2, <1>3, <1>4, <1>5, <1>6, <1>7, <1>8, <1>9, <1>10, <1>11, <1>12,
     <1>13, <1>14, <1>15, <1>16, <1>17, <1>18, <1>19, <1>20
     DEF Next, WorkerStep, ReaperStep

\* Type correctness: no interleaving of the statements of enqueue, claim_one,
\* start, complete, fail and reap_expired leaves a malformed row or counter.
THEOREM TypeCorrect == Spec => []TypeOK
<1>1. Init => TypeOK
  BY ConstantsAssumption DEF Init, TypeOK, NoRow, WorkerPCs, HoldingPCs, Statuses
<1>2. TypeOK /\ [Next]_vars => TypeOK'
  BY TypeStep
<1>3. QED
  BY <1>1, <1>2, PTL DEF Spec

---------------------------------------------------------------------------
(* The lease argument.  Each step of the proof is one statement of the     *)
(* code; it moves, splits off nothing from, or destroys the effect's token. *)

\* LeaseInv is inductive when passes of reap_expired do not overlap.
LEMMA LeaseStep ==
  ASSUME OneReaper, TypeOK, LeaseInv, [Next]_vars
  PROVE  LeaseInv'
<1> USE ConstantsAssumption DEF LeaseInv, PendingIsUnclaimed, OpenClaimMatchesRow,
        AttemptsWithinMax, OfferedBelowMax, HeldIsEnqueued, ClaimsAreKeyed,
        ClaimingIsNewest, SnapshotIsCurrent, RequeuerHasToken, OpenClaims, Claiming,
        HoldingPCs, Goto, DropLease, rowVars, workerVars, reaperVars
<1>1. ASSUME NEW e \in Effects, Enqueue(e) PROVE LeaseInv'
  BY <1>1 DEF Enqueue, TypeOK, Claim, ReapRow
<1>2. ASSUME NEW w \in Workers, Register(w) PROVE LeaseInv'
  BY <1>2 DEF Register, TypeOK
<1>3. ASSUME NEW w \in Workers, ClaimSelect(w) PROVE LeaseInv'
  BY <1>3 DEF ClaimSelect, Oldest, Eligible, TypeOK
<1>4. ASSUME NEW w \in Workers, ClaimNothing(w) PROVE LeaseInv'
  BY <1>4 DEF ClaimNothing, TypeOK
<1>5. ASSUME NEW w \in Workers, ClaimUpdate(w) PROVE LeaseInv'
  BY <1>5 DEF ClaimUpdate, StillPending, TypeOK, Claim, ReapRow
<1>6. ASSUME NEW w \in Workers, ClaimLost(w) PROVE LeaseInv'
  BY <1>6 DEF ClaimLost, TypeOK
<1>7. ASSUME NEW w \in Workers, ClaimInsert(w) PROVE LeaseInv'
  <2> DEFINE e == held[w]
             n == [effect |-> e, attempt |-> ran[w], worker |-> w,
                   expired |-> FALSE, released |-> FALSE]
  <2>1. /\ pc[w] = "updated" /\ pc' = [pc EXCEPT ![w] = "leased"]
        /\ claims' = claims \cup {n} /\ e \in Effects
        /\ UNCHANGED <<status, attempts, assigned, held, ran, rpc, todo, cur>>
    BY <1>7 DEF ClaimInsert, TypeOK
  <2>2. /\ n.effect = e /\ n.attempt = attempts[e] /\ n.worker = assigned[e]
        /\ ~n.released
    BY <2>1
  <2>3. /\ status[e] # "pending" /\ status[e] # "absent"
        /\ \A c \in claims : c.effect = e => c.attempt < attempts[e] /\ c.released
        /\ \A v \in Workers : pc[v] = "updated" /\ held[v] = e => v = w
        /\ \A r \in Reapers : rpc[r] = "requeue" => cur[r].effect # e
    BY <2>1 DEF TypeOK
  <2> HIDE DEF n, e
  <2>4. PendingIsUnclaimed' /\ OpenClaimMatchesRow'
    BY <2>1, <2>2, <2>3 DEF TypeOK
  <2>5. AttemptsWithinMax' /\ OfferedBelowMax' /\ HeldIsEnqueued'
    BY <2>1, <2>2, <2>3 DEF TypeOK
  <2>6. ClaimsAreKeyed'
    BY <2>1, <2>2, <2>3 DEF TypeOK, Claim
  <2>7. ClaimingIsNewest'
    BY <2>1, <2>2, <2>3 DEF TypeOK
  <2>8. SnapshotIsCurrent' /\ RequeuerHasToken'
    BY <2>1, <2>2, <2>3 DEF TypeOK
  <2>9. QED
    BY <2>4, <2>5, <2>6, <2>7, <2>8
<1>8. ASSUME NEW w \in Workers, Start(w) PROVE LeaseInv'
  BY <1>8 DEF Start, TypeOK, Claim
<1>9. ASSUME NEW w \in Workers, Complete(w) PROVE LeaseInv'
  BY <1>9 DEF Complete, TypeOK, Claim
<1>10. ASSUME NEW w \in Workers, InsertResult(w) PROVE LeaseInv'
  BY <1>10 DEF InsertResult, TypeOK
<1>11. ASSUME NEW w \in Workers, Fail(w) PROVE LeaseInv'
  BY <1>11 DEF Fail, TypeOK, Claim
<1>12. ASSUME NEW w \in Workers, Heartbeat(w) PROVE LeaseInv'
  BY <1>12 DEF Heartbeat, TypeOK
<1>13. ASSUME NEW w \in Workers, Stop(w) PROVE LeaseInv'
  BY <1>13 DEF Stop, TypeOK
<1>14. ASSUME NEW w \in Workers, ReportLost(w) PROVE LeaseInv'
  BY <1>14 DEF ReportLost, TypeOK
<1>15. ASSUME NEW c \in claims, LeaseExpires(c) PROVE LeaseInv'
  <2> DEFINE n == [c EXCEPT !.expired = TRUE]
  <2>1. /\ claims' = (claims \ {c}) \cup {n}
        /\ UNCHANGED <<status, attempts, assigned, pc, held, ran, rpc, todo, cur>>
    BY <1>15 DEF LeaseExpires
  <2>2. /\ n.effect = c.effect /\ n.attempt = c.attempt
        /\ n.worker = c.worker /\ n.released = c.released
    BY ClaimUpdates DEF TypeOK
  <2> HIDE DEF n
  <2>3. PendingIsUnclaimed' /\ OpenClaimMatchesRow'
    BY <2>1, <2>2 DEF TypeOK
  <2>4. AttemptsWithinMax' /\ OfferedBelowMax' /\ HeldIsEnqueued'
    BY <2>1, <2>2 DEF TypeOK
  <2>5. ClaimsAreKeyed' /\ ClaimingIsNewest'
    BY <2>1, <2>2 DEF TypeOK
  <2>6. SnapshotIsCurrent' /\ RequeuerHasToken'
    BY <2>1, <2>2 DEF TypeOK
  <2>7. QED
    BY <2>3, <2>4, <2>5, <2>6
<1>16. ASSUME NEW r \in Reapers, ReapSelect(r) PROVE LeaseInv'
  BY <1>16 DEF ReapSelect, Reapable, TypeOK, Claim
<1>17. ASSUME NEW r \in Reapers, ReapRelease(r) PROVE LeaseInv'
  <2>1. PICK row \in todo[r] :
          /\ claims' = {IF c.effect = row.effect /\ c.attempt = row.attempt
                        THEN Release(c) ELSE c : c \in claims}
          /\ cur' = [cur EXCEPT ![r] = row]
          /\ todo' = [todo EXCEPT ![r] = todo[r] \ {row}]
          /\ rpc' = [rpc EXCEPT ![r] = "requeue"]
          /\ UNCHANGED <<status, attempts, assigned, pc, held, ran>>
    BY <1>17 DEF ReapRelease
  <2> DEFINE e == row.effect
  <2>2. row \in ReapRow /\ \A q \in Reapers : q = r
    BY <2>1 DEF TypeOK, OneReaper
  \* the row's claim is the open claim of its effect, of the latest attempt
  <2>3. /\ status[e] \notin {"absent", "pending"}
        /\ row.seen = attempts[e] /\ row.attempt = attempts[e]
        /\ \A v \in Workers : ~(pc[v] = "updated" /\ held[v] = e)
    BY <2>1, <2>2 DEF TypeOK, ReapRow
  \* every new claim is an old one, perhaps released
  <2>4. \A d \in claims' : \E c \in claims :
          /\ d.effect = c.effect /\ d.attempt = c.attempt /\ d.worker = c.worker
          /\ (c.effect = e /\ c.attempt = row.attempt) => d = Release(c) /\ d.released
          /\ ~(c.effect = e /\ c.attempt = row.attempt) => d = c
    <3> TAKE d \in claims'
    <3>1. PICK c \in claims : d = IF c.effect = e /\ c.attempt = row.attempt
                                 THEN Release(c) ELSE c
      BY <2>1
    <3>2. c \in Claim
      BY DEF TypeOK
    <3>3. /\ Release(c).effect = c.effect /\ Release(c).attempt = c.attempt
          /\ Release(c).worker = c.worker /\ Release(c).released
      BY <3>2, ClaimUpdates
    <3>4. WITNESS c \in claims
    <3>5. QED
      BY <3>1, <3>3
  <2>5. \A c \in claims : ~(c.effect = e /\ c.attempt = row.attempt) => c \in claims'
    BY <2>1
  <2>6. \A d \in claims' : d.effect = e => d.released
    BY <2>2, <2>3, <2>4 DEF ReapRow
  <2>7. PendingIsUnclaimed' /\ OpenClaimMatchesRow'
    \* an open claim of the new state was open before
    <3>1. \A d \in claims' : ~d.released => d \in claims
      BY <2>4
    <3>2. \A x \in Effects : OpenClaims(x)' \subseteq OpenClaims(x) /\ Claiming(x)' = Claiming(x)
      BY <2>1, <3>1
    <3> HIDE DEF OpenClaims, Claiming
    <3>3. PendingIsUnclaimed'
      BY <2>1, <3>2
    <3>4. OpenClaimMatchesRow'
      BY <2>1, <3>2
    <3>5. QED
      BY <3>3, <3>4
  <2>8. AttemptsWithinMax' /\ OfferedBelowMax' /\ HeldIsEnqueued'
    BY <2>1, <2>4 DEF TypeOK
  <2>9. ClaimsAreKeyed'
    BY <2>1, <2>4 DEF TypeOK
  <2>10. ClaimingIsNewest'
    BY <2>1, <2>4 DEF TypeOK
  <2>11. SnapshotIsCurrent'
    <3> SUFFICES ASSUME NEW o \in todo[r] \ {row}
                 PROVE  /\ o.seen = attempts[o.effect]
                        /\ \E c \in claims' : /\ c.effect = o.effect
                                               /\ c.attempt = o.attempt /\ ~c.released
      BY <2>1, <2>2 DEF TypeOK
    <3>1. PICK c \in claims : c.effect = o.effect /\ c.attempt = o.attempt /\ ~c.released
      BY <2>1
    <3>2. o.effect # e
      BY <2>2, <2>3, <3>1 DEF TypeOK, ReapRow
    <3>3. QED
      BY <2>5, <3>1, <3>2
  <2>12. RequeuerHasToken'
    BY <2>1, <2>2, <2>3, <2>6 DEF TypeOK
  <2>13. QED
    BY <2>7, <2>8, <2>9, <2>10, <2>11, <2>12
<1>18. ASSUME NEW r \in Reapers, ReapRequeue(r) PROVE LeaseInv'
  <2> DEFINE e == cur[r].effect
  <2>1. /\ rpc[r] = "requeue" /\ rpc'[r] # "requeue"
        /\ UNCHANGED <<attempts, claims, pc, held, ran, todo>>
        /\ \/ /\ cur[r].seen < MaxAttempts
              /\ status' = [status EXCEPT ![e] = "pending"]
              /\ assigned' = [assigned EXCEPT ![e] = NoWorker]
           \/ /\ status' = [status EXCEPT ![e] = "failed"]
              /\ UNCHANGED assigned
    BY <1>18 DEF ReapRequeue, RetriesLeft, TypeOK
  <2>2. /\ e \in Effects /\ \A q \in Reapers : q = r
        /\ cur[r].seen = attempts[e]
        /\ \A c \in claims : c.effect = e => c.released
        /\ \A v \in Workers : ~(pc[v] = "updated" /\ held[v] = e)
    BY <2>1 DEF TypeOK, ReapRow, OneReaper
  <2> HIDE DEF e
  <2>3. PendingIsUnclaimed' /\ OpenClaimMatchesRow'
    BY <2>1, <2>2 DEF TypeOK, Claim
  <2>4. AttemptsWithinMax' /\ OfferedBelowMax' /\ HeldIsEnqueued'
    BY <2>1, <2>2 DEF TypeOK, Claim
  <2>5. ClaimsAreKeyed' /\ ClaimingIsNewest'
    BY <2>1, <2>2 DEF TypeOK, Claim
  <2>6. SnapshotIsCurrent' /\ RequeuerHasToken'
    BY <2>1, <2>2 DEF TypeOK
  <2>7. QED
    BY <2>3, <2>4, <2>5, <2>6
<1>19. ASSUME NEW r \in Reapers, ReapAbort(r) PROVE LeaseInv'
  BY <1>19 DEF ReapAbort, TypeOK
<1>20. CASE UNCHANGED vars
  BY <1>20 DEF vars
<1>21. QED
  BY <1>1, <1>2, <1>3, <1>4, <1>5, <1>6, <1>7, <1>8, <1>9, <1>10, <1>11, <1>12,
     <1>13, <1>14, <1>15, <1>16, <1>17, <1>18, <1>19, <1>20
     DEF Next, WorkerStep, ReaperStep

\* With passes of reap_expired that do not overlap, an effect has at most one
\* live token under every interleaving of workers, crashes, late reports and
\* lease expiry: a leased effect is not offered, the open lease is the one of
\* the row's latest attempt, and the reaper's snapshot is not stale.
THEOREM LeaseDiscipline ==
  ASSUME OneReaper
  PROVE  Spec => []LeaseInv
<1>1. Init => LeaseInv
  BY ConstantsAssumption DEF Init, LeaseInv, PendingIsUnclaimed, OpenClaimMatchesRow,
     AttemptsWithinMax, OfferedBelowMax, HeldIsEnqueued, ClaimsAreKeyed,
     ClaimingIsNewest, SnapshotIsCurrent, RequeuerHasToken, OpenClaims, Claiming,
     HoldingPCs
<1>2. TypeOK /\ LeaseInv /\ [Next]_vars => LeaseInv'
  BY LeaseStep
<1>3. QED
  BY <1>1, <1>2, TypeCorrect, PTL DEF Spec

\* What claim_one is for: no interleaving leaves two open leases on one effect.
THEOREM LeaseSafety ==
  ASSUME OneReaper
  PROVE  Spec => []AtMostOneOpenClaim
<1>1. TypeOK /\ LeaseInv => AtMostOneOpenClaim
  BY DEF LeaseInv, OpenClaimMatchesRow, ClaimsAreKeyed, AtMostOneOpenClaim,
     OpenClaims, TypeOK
<1>2. QED
  BY <1>1, LeaseDiscipline, TypeCorrect, PTL

\* The same for the bound on attempts alone: reap_expired decides from a stale
\* counter, and is still never one retry too generous.
COROLLARY AttemptBound ==
  ASSUME OneReaper
  PROVE  Spec => []AttemptsWithinMax
<1>1. LeaseInv => AttemptsWithinMax
  BY DEF LeaseInv
<1>2. QED
  BY <1>1, LeaseDiscipline, PTL

---------------------------------------------------------------------------
(* The result argument.  It needs no OneReaper: complete names the effect  *)
(* by id alone, so its row may meanwhile belong to a successor, but the    *)
(* claim row it worked under is never deleted and attempt_count only grows. *)

\* A claim row for attempt n of effect e exists.
Recorded(e, n) == \E c \in claims : c.effect = e /\ c.attempt = n

\* The attempt a worker runs is not ahead of its row's counter, and once the
\* lease was handed out its claim row exists.
RunIsRecorded ==
  \A w \in Workers :
    /\ pc[w] \in {"updated", "leased", "running", "result"} => ran[w] <= attempts[held[w]]
    /\ pc[w] \in {"leased", "running", "result"} => Recorded(held[w], ran[w])

\* No statement deletes a claim row or changes its key: reap_expired only
\* stamps released_at, and expiry is only read off the clock.
LEMMA ClaimsStay ==
  ASSUME TypeOK, [Next]_vars, NEW e, NEW n, Recorded(e, n)
  PROVE  Recorded(e, n)'
<1> USE DEF Recorded
<1>1. PICK c \in claims : c.effect = e /\ c.attempt = n
  OBVIOUS
<1>2. c \in Claim
  BY DEF TypeOK
<1>3. ASSUME NEW w \in Workers, ClaimInsert(w) PROVE Recorded(e, n)'
  BY <1>1, <1>3 DEF ClaimInsert
<1>4. ASSUME NEW d \in claims, LeaseExpires(d) PROVE Recorded(e, n)'
  <2> DEFINE x == [d EXCEPT !.expired = TRUE]
  <2>1. claims' = (claims \ {d}) \cup {x}
    BY <1>4 DEF LeaseExpires
  <2>2. x.effect = d.effect /\ x.attempt = d.attempt
    BY ClaimUpdates DEF TypeOK
  <2> HIDE DEF x
  <2>3. QED
    BY <1>1, <2>1, <2>2
<1>5. ASSUME NEW r \in Reapers, ReapRelease(r) PROVE Recorded(e, n)'
  <2>1. PICK row \in todo[r] :
          claims' = {IF d.effect = row.effect /\ d.attempt = row.attempt
                     THEN Release(d) ELSE d : d \in claims}
    BY <1>5 DEF ReapRelease
  <2>2. Release(c).effect = e /\ Release(c).attempt = n
    BY <1>1, <1>2, ClaimUpdates
  <2>3. (IF c.effect = row.effect /\ c.attempt = row.attempt THEN Release(c) ELSE c)
          \in claims'
    BY <2>1
  <2>4. QED
    BY <1>1, <2>2, <2>3
<1>6. CASE UNCHANGED claims
  BY <1>6
<1>7. QED
  BY <1>3, <1>4, <1>5, <1>6
     DEF Next, WorkerStep, ReaperStep, Enqueue, Register, ClaimSelect, ClaimNothing,
         ClaimUpdate, ClaimLost, Start, Complete, InsertResult, Fail, Heartbeat, Stop,
         ReportLost, ReapSelect, ReapRequeue, ReapAbort, vars

\* attempt_count is only ever incremented.
LEMMA AttemptsGrow ==
  ASSUME TypeOK, [Next]_vars, NEW e \in Effects
  PROVE  attempts'[e] >= attempts[e]
<1>1. ASSUME NEW w \in Workers, ClaimUpdate(w) PROVE attempts'[e] >= attempts[e]
  BY <1>1 DEF ClaimUpdate, TypeOK
<1>2. CASE UNCHANGED attempts
  BY <1>2 DEF TypeOK
<1>3. QED
  BY <1>1, <1>2
     DEF Next, WorkerStep, ReaperStep, Enqueue, Register, ClaimSelect, ClaimNothing,
         ClaimInsert, ClaimLost, Start, Complete, InsertResult, Fail, Heartbeat, Stop,
         ReportLost, LeaseExpires, ReapSelect, ReapRelease, ReapRequeue, ReapAbort,
         vars, rowVars

\* RunIsRecorded is inductive, and a result is only inserted from it.
LEMMA ResultStep ==
  ASSUME TypeOK, RunIsRecorded, ResultNamesALease, [Next]_vars
  PROVE  RunIsRecorded' /\ ResultNamesALease'
<1> DEFINE Stands(v) ==
             /\ pc'[v] \in {"updated", "leased", "running", "result"}
                  => ran'[v] <= attempts'[held'[v]]
             /\ pc'[v] \in {"leased", "running", "result"}
                  => \E c \in claims' : c.effect = held'[v] /\ c.attempt = ran'[v]
<1>1. \A e, n : Recorded(e, n) => \E c \in claims' : c.effect = e /\ c.attempt = n
  BY ClaimsStay DEF Recorded
<1>2. \A e \in Effects : attempts[e] \in Nat /\ attempts'[e] \in Nat /\ attempts'[e] >= attempts[e]
  BY TypeStep, AttemptsGrow DEF TypeOK
<1>3. \A w \in Workers : ran[w] \in Nat /\ (pc[w] \in HoldingPCs => held[w] \in Effects)
  BY DEF TypeOK
\* a worker that keeps its lease still stands under it, wherever its row is
<1>4. ASSUME NEW v \in Workers, held'[v] = held[v], ran'[v] = ran[v],
             pc[v] \in {"updated", "leased", "running", "result"},
             pc[v] = "updated" => pc'[v] = "updated"
      PROVE  Stands(v)
  BY <1>1, <1>2, <1>3, <1>4 DEF RunIsRecorded, HoldingPCs
\* and one that does not move stands where it stood
<1>5. ASSUME NEW v \in Workers, held'[v] = held[v], ran'[v] = ran[v], pc'[v] = pc[v]
      PROVE  Stands(v)
  BY <1>4, <1>5
<1>6. \A x \in results : /\ x.ran <= x.numbered
                         /\ \E c \in claims' : c.effect = x.effect /\ c.attempt = x.ran
  BY <1>1 DEF ResultNamesALease, Recorded
<1> SUFFICES (\A v \in Workers : Stands(v)) /\ ResultNamesALease'
  BY DEF RunIsRecorded, Recorded
<1> USE DEF Goto, DropLease
<1>7. ASSUME NEW w \in Workers, ClaimUpdate(w)
      PROVE  (\A v \in Workers : Stands(v)) /\ UNCHANGED results
  <2>1. Stands(w)
    BY <1>7, <1>3 DEF ClaimUpdate, TypeOK, HoldingPCs
  <2>2. \A v \in Workers \ {w} : Stands(v)
    BY <1>7, <1>5 DEF ClaimUpdate, TypeOK
  <2>3. QED
    BY <1>7, <2>1, <2>2 DEF ClaimUpdate
<1>8. ASSUME NEW w \in Workers, ClaimInsert(w)
      PROVE  (\A v \in Workers : Stands(v)) /\ UNCHANGED results
  <2> DEFINE n == [effect |-> held[w], attempt |-> ran[w], worker |-> w,
                   expired |-> FALSE, released |-> FALSE]
  <2>a. /\ n \in claims' /\ n.effect = held'[w] /\ n.attempt = ran'[w]
        /\ pc[w] = "updated" /\ UNCHANGED <<attempts, held, ran>>
    BY <1>8 DEF ClaimInsert, rowVars
  <2> HIDE DEF n
  <2>1. Stands(w)
    BY <2>a DEF RunIsRecorded
  <2>2. \A v \in Workers \ {w} : Stands(v)
    BY <1>8, <1>5 DEF ClaimInsert, TypeOK
  <2>3. QED
    BY <1>8, <2>1, <2>2 DEF ClaimInsert
<1>9. ASSUME NEW w \in Workers, UNCHANGED ran,
             \/ ClaimSelect(w) \/ ClaimNothing(w) \/ ClaimLost(w) \/ Register(w)
             \/ Start(w) \/ Complete(w) \/ InsertResult(w) \/ Fail(w) \/ Heartbeat(w)
             \/ Stop(w) \/ ReportLost(w)
      PROVE  \A v \in Workers : Stands(v)
  <2>1. \A v \in Workers \ {w} : Stands(v)
    BY <1>9, <1>5
       DEF ClaimSelect, ClaimNothing, ClaimLost, Register, Start, Complete,
           InsertResult, Fail, Heartbeat, Stop, ReportLost, TypeOK
  \* one of the two: the lease is kept, or the worker no longer holds any
  <2>2. \/ /\ pc[w] \in {"leased", "running"} /\ UNCHANGED held
           /\ pc'[w] \in {"running", "result"}
        \/ pc'[w] \in {"poll", "selected", "heartbeat", "down"}
    BY <1>9
       DEF ClaimSelect, ClaimNothing, ClaimLost, Register, Start, Complete,
           InsertResult, Fail, Heartbeat, Stop, ReportLost, TypeOK
  <2>3. Stands(w)
    BY <2>2, <1>9, <1>4
  <2>4. QED
    BY <2>1, <2>3
<1>10. ASSUME UNCHANGED <<pc, held, ran>> PROVE \A v \in Workers : Stands(v)
  BY <1>5, <1>10
<1>11. \A v \in Workers : Stands(v)
  BY <1>7, <1>8, <1>9, <1>10
     DEF Next, WorkerStep, ReaperStep, Enqueue, Register, ClaimSelect, ClaimNothing,
         ClaimLost, Start, Complete, InsertResult, Fail, Heartbeat, Stop, ReportLost,
         LeaseExpires, ReapSelect, ReapRelease, ReapRequeue, ReapAbort, vars, workerVars
<1>12. ASSUME NEW w \in Workers, InsertResult(w) PROVE ResultNamesALease'
  <2> DEFINE e == held[w]
             x == [effect |-> e, ran |-> ran[w], numbered |-> attempts[e]]
  <2>1. results' = results \cup {x} /\ pc[w] = "result"
    BY <1>12 DEF InsertResult
  <2>2. x.ran <= x.numbered /\ Recorded(x.effect, x.ran)
    BY <2>1 DEF RunIsRecorded
  <2>3. QED
    BY <1>1, <1>6, <2>1, <2>2 DEF ResultNamesALease
<1>13. ASSUME UNCHANGED results PROVE ResultNamesALease'
  BY <1>6, <1>13 DEF ResultNamesALease
<1>14. ResultNamesALease'
  BY <1>12, <1>13
     DEF Next, WorkerStep, ReaperStep, Enqueue, Register, ClaimSelect, ClaimNothing,
         ClaimUpdate, ClaimLost, ClaimInsert, Start, Complete, Fail, Heartbeat, Stop,
         ReportLost, LeaseExpires, ReapSelect, ReapRelease, ReapRequeue, ReapAbort, vars
<1>15. QED
  BY <1>11, <1>14

\* Every effect_result row names an attempt that was really leased, and is
\* numbered with that attempt or a later one: also with reapers that overlap,
\* and with workers that complete long after their lease was taken away.
THEOREM ResultsAreLeased == Spec => []ResultNamesALease
<1>1. Init => RunIsRecorded /\ ResultNamesALease
  BY DEF Init, RunIsRecorded, ResultNamesALease
<1>2. TypeOK /\ (RunIsRecorded /\ ResultNamesALease) /\ [Next]_vars
        => (RunIsRecorded /\ ResultNamesALease)'
  BY ResultStep
<1>3. QED
  BY <1>1, <1>2, TypeCorrect, PTL DEF Spec

---------------------------------------------------------------------------
(* The browser driver.                                                     *)

CONSTANTS Callers, Operations, BootCalls, MaxPolls, MaxId

VARIABLES driver, child, dir, sink, pump, nextId, pending, wire, inbox, call, dropped

Browser == INSTANCE CdpDriver

\* launch_headless is no caller of the driver it builds; the operations are
\* those whose requests the module lists.
DriverConstants ==
  /\ Browser!Boot \notin Callers
  /\ Operations \subseteq {"navigate", "click", "screenshot", "close"}
  /\ MaxPolls \in Nat /\ MaxId \in Nat /\ BootCalls \in Nat

Teardown == {"sink", "pump", "kill", "rmdir"}
Waiting == {"insert", "send", "wait"}

Replies == [id : Nat, from : Browser!Tasks, step : Nat, kind : {"none", "result", "error", "loading"}]

CallStates == [op : Operations \cup {"none", "boot"}, step : Nat,
               pc : {"idle", "next", "answered", "done", "failed"} \cup Waiting \cup Teardown,
               id : Nat, polls : 0..MaxPolls, reply : Replies]

DriverTypes ==
  /\ nextId \in 1..(MaxId + 1)
  /\ call \in [Browser!Tasks -> CallStates]
  /\ wire \subseteq [id : Nat, from : Browser!Tasks, step : Nat] /\ inbox \subseteq Replies

\* A task that waits does so under an id that was given out to it alone.
IdsAreOwn ==
  /\ \A c \in Browser!Tasks : call[c].pc \in Waiting => call[c].id \in 1..(nextId - 1)
  /\ \A c, d \in Browser!Tasks :
        (call[c].pc \in Waiting /\ call[d].pc \in Waiting /\ call[c].id = call[d].id) => c = d

\* No frame or reply has an id not given out yet, and one with the id of a
\* waiting task is for the request that this task has sent.
MessagesAreOwn ==
  \A m \in wire \cup inbox :
    /\ m.id \in 1..(nextId - 1)
    /\ \A c \in Browser!Tasks : call[c].pc \in Waiting /\ call[c].id = m.id =>
          call[c].pc = "wait" /\ m.from = c /\ m.step = call[c].step

\* The oneshot is registered from before the frame is sent until its answer.
Registered ==
  \A c \in Browser!Tasks : call[c].pc \in {"send", "wait"} => <<call[c].id, c>> \in pending

\* A call holds a reply only until it goes on.
RepliesInTime ==
  \A c \in Browser!Tasks : call[c].reply.id # 0 => call[c].pc = "answered"

WireInv ==
  /\ DriverTypes /\ IdsAreOwn /\ MessagesAreOwn /\ Registered /\ RepliesInTime
  /\ Browser!ReplyIsOwn /\ dropped = {}

\* A call that leaves the socket alone.
LEMMA LeavesWire ==
  ASSUME DriverConstants, WireInv, NEW c \in Browser!Tasks, NEW state \in CallStates,
         call' = [call EXCEPT ![c] = state], state.pc \notin Waiting, state.reply.id = 0,
         UNCHANGED <<nextId, pending, wire, inbox, dropped>>
  PROVE  WireInv'
<1> USE DEF WireInv, DriverTypes
<1>1. /\ call' \in [Browser!Tasks -> CallStates] /\ call'[c] = state
      /\ \A d \in Browser!Tasks : d # c => call'[d] = call[d]
  OBVIOUS
<1>2. IdsAreOwn'
  BY <1>1 DEF IdsAreOwn
<1>3. MessagesAreOwn'
  BY <1>1 DEF MessagesAreOwn
<1>4. Registered' /\ RepliesInTime' /\ Browser!ReplyIsOwn'
  BY <1>1 DEF Registered, RepliesInTime, Browser!ReplyIsOwn, Waiting
<1>5. QED
  BY <1>1, <1>2, <1>3, <1>4

\* The states that launch_headless and the operations give a call.
LEMMA RestState ==
  ASSUME DriverConstants, NEW op \in Operations \cup {"none", "boot"},
         NEW place \in {"idle", "next", "done", "failed", "sink"}
  PROVE  LET s == [Browser!Rest(op) EXCEPT !.pc = place]
         IN  s \in CallStates /\ s.op = op /\ s.pc = place /\ s.reply.id = 0
<1>1. Browser!NoReply \in Replies /\ Browser!NoReply.id = 0
  BY DEF Browser!NoReply, Replies, Browser!Tasks
<1>2. 0 \in 0..MaxPolls
  BY DEF DriverConstants
<1>3. QED
  BY <1>1, <1>2 DEF Browser!Rest, CallStates, Waiting, Teardown

LEMMA PcState ==
  ASSUME NEW s \in CallStates, NEW place \in {"done", "send", "wait"} \cup Teardown
  PROVE  LET t == [s EXCEPT !.pc = place]
         IN  /\ t \in CallStates /\ t.pc = place /\ t.op = s.op /\ t.reply = s.reply
             /\ t.id = s.id /\ t.step = s.step
BY DEF CallStates, Waiting, Teardown

LEMMA NextState ==
  ASSUME NEW s \in CallStates, NEW i \in Nat
  PROVE  LET t == [s EXCEPT !.pc = "insert", !.id = i]
         IN  /\ t \in CallStates /\ t.pc = "insert" /\ t.op = s.op /\ t.reply = s.reply
             /\ t.id = i /\ t.step = s.step
BY DEF CallStates, Waiting, Teardown

LEMMA AnsweredState ==
  ASSUME NEW s \in CallStates, NEW m \in Replies
  PROVE  LET t == [s EXCEPT !.pc = "answered", !.reply = m]
         IN  /\ t \in CallStates /\ t.pc = "answered" /\ t.op = s.op /\ t.reply = m
             /\ t.id = s.id /\ t.step = s.step
BY DEF CallStates, Waiting, Teardown

LEMMA FurtherStates ==
  ASSUME NEW s \in CallStates, MaxPolls \in Nat
  PROVE  /\ LET t == [s EXCEPT !.pc = "next", !.step = s.step + 1, !.reply = Browser!NoReply]
            IN  t \in CallStates /\ t.op = s.op /\ t.pc = "next" /\ t.reply.id = 0
         /\ s.polls < MaxPolls =>
            LET t == [s EXCEPT !.pc = "next", !.polls = s.polls + 1, !.reply = Browser!NoReply]
            IN  t \in CallStates /\ t.op = s.op /\ t.pc = "next" /\ t.reply.id = 0
<1>1. Browser!NoReply \in Replies /\ Browser!NoReply.id = 0
  BY DEF Browser!NoReply, Replies, Browser!Tasks
<1>2. s.step + 1 \in Nat /\ (s.polls < MaxPolls => s.polls + 1 \in 0..MaxPolls)
  BY DEF CallStates
<1>3. QED
  BY <1>1, <1>2 DEF CallStates, Waiting, Teardown

\* Where an answered call goes: close goes on to tear down, whatever came of its
\* request; any other call to its next request or its end.
LEMMA ContinueGoes ==
  ASSUME DriverConstants, call \in [Browser!Tasks -> CallStates], NEW c \in Browser!Tasks,
         Browser!Continue(c)
  PROVE  \E t \in CallStates :
            /\ call' = [call EXCEPT ![c] = t] /\ t.op = call[c].op /\ t.reply.id = 0
            /\ t.pc \in {"next", "sink", "done", "failed"} /\ (t.pc = "sink" <=> t.op = "close")
<1> DEFINE s == call[c]
           Rests(place) == [Browser!Rest(s.op) EXCEPT !.pc = place]
           again == [s EXCEPT !.pc = "next", !.polls = s.polls + 1, !.reply = Browser!NoReply]
           further == [s EXCEPT !.pc = "next", !.step = s.step + 1, !.reply = Browser!NoReply]
<1>1. s \in CallStates /\ s.op \in Operations \cup {"none", "boot"} /\ MaxPolls \in Nat
  BY DEF CallStates, DriverConstants
<1>2. \A place \in {"done", "failed", "sink"} : /\ Rests(place) \in CallStates /\ Rests(place).op = s.op
                                             /\ Rests(place).pc = place /\ Rests(place).reply.id = 0
  <2> HIDE DEF s
  <2>1. \A place \in {"idle", "next", "done", "failed", "sink"} :
            LET t == [Browser!Rest(s.op) EXCEPT !.pc = place]
            IN  t \in CallStates /\ t.op = s.op /\ t.pc = place /\ t.reply.id = 0
    BY <1>1, RestState
  <2>2. QED
    BY <2>1
<1>3. CASE s.op = "close"
  <2>1. call' = [call EXCEPT ![c] = Rests("sink")]
    BY <1>3 DEF Browser!Continue
  <2> HIDE DEF Rests
  <2>2. QED
    BY <1>2, <1>3, <2>1
<1>4. CASE s.op # "close" /\ s.reply.kind = "error"
  <2>1. call' = [call EXCEPT ![c] = Rests("failed")]
    BY <1>4 DEF Browser!Continue
  <2> HIDE DEF Rests
  <2>2. QED
    BY <1>2, <1>4, <2>1
<1>5. CASE s.op # "close" /\ s.reply.kind # "error" /\ Browser!PollsAgain(c)
  <2>1. call' = [call EXCEPT ![c] = again]
    BY <1>5 DEF Browser!Continue
  <2>2. again \in CallStates /\ again.op = s.op /\ again.pc = "next" /\ again.reply.id = 0
    BY <1>1, <1>5, FurtherStates DEF Browser!PollsAgain
  <2> HIDE DEF again
  <2>3. QED
    BY <1>5, <2>1, <2>2
<1>6. CASE /\ s.op # "close" /\ s.reply.kind # "error" /\ ~Browser!PollsAgain(c)
           /\ s.step = Browser!Requests[s.op]
  <2>1. call' = [call EXCEPT ![c] = Rests("done")]
    BY <1>6 DEF Browser!Continue
  <2> HIDE DEF Rests
  <2>2. QED
    BY <1>2, <1>6, <2>1
<1>7. CASE /\ s.op # "close" /\ s.reply.kind # "error" /\ ~Browser!PollsAgain(c)
           /\ s.step # Browser!Requests[s.op]
  <2>1. call' = [call EXCEPT ![c] = further]
    BY <1>7 DEF Browser!Continue
  <2>2. further \in CallStates /\ further.op = s.op /\ further.pc = "next" /\ further.reply.id = 0
    BY <1>1, FurtherStates
  <2> HIDE DEF further
  <2>3. QED
    BY <1>7, <2>1, <2>2
<1>8. QED
  BY <1>3, <1>4, <1>5, <1>6, <1>7

\* WireInv is preserved by every step of a task.
LEMMA TaskKeepsWire ==
  ASSUME DriverConstants, WireInv, NEW c \in Browser!Tasks, Browser!TaskStep(c)
  PROVE  WireInv'
<1> USE DEF WireInv, DriverTypes
<1>1. call[c] \in CallStates /\ call[c].id \in Nat /\ nextId \in Nat /\ MaxId \in Nat
  BY DEF CallStates, DriverConstants
<1>2. CASE Browser!FetchAdd(c)
  <2> DEFINE t == [call[c] EXCEPT !.pc = "insert", !.id = nextId]
  <2>1. /\ t \in CallStates /\ t.pc = "insert" /\ t.reply = call[c].reply /\ t.id = nextId
    BY <1>1, NextState
  <2>2. /\ call[c].pc = "next" /\ nextId <= MaxId /\ nextId' = nextId + 1
        /\ call' = [call EXCEPT ![c] = t] /\ UNCHANGED <<pending, wire, inbox, dropped>>
    BY <1>2 DEF Browser!FetchAdd
  <2> HIDE DEF t
  <2>3. /\ call' \in [Browser!Tasks -> CallStates] /\ call'[c] = t
        /\ \A d \in Browser!Tasks : d # c => call'[d] = call[d]
    BY <2>1, <2>2
  <2>4. call[c].reply.id = 0
    BY <2>2 DEF RepliesInTime
  <2>5. nextId' \in 1..(MaxId + 1)
    BY <1>1, <2>2
  <2>6. \A i \in 1..(nextId - 1) : i \in 1..(nextId' - 1) /\ i # nextId
    BY <1>1, <2>2
  <2>7. nextId \in 1..(nextId' - 1)
    BY <1>1, <2>2
  <2>8. IdsAreOwn'
    BY <2>1, <2>3, <2>6, <2>7 DEF IdsAreOwn
  <2>9. MessagesAreOwn'
    BY <2>1, <2>2, <2>3, <2>6 DEF MessagesAreOwn
  <2>10. Registered' /\ RepliesInTime' /\ Browser!ReplyIsOwn'
    BY <2>1, <2>2, <2>3, <2>4 DEF Registered, RepliesInTime, Browser!ReplyIsOwn
  <2>11. QED
    BY <2>2, <2>3, <2>5, <2>8, <2>9, <2>10
<1>3. CASE Browser!Insert(c)
  <2> DEFINE t == [call[c] EXCEPT !.pc = "send"]
  <2>1. /\ t \in CallStates /\ t.pc = "send" /\ t.reply = call[c].reply /\ t.id = call[c].id
        /\ t.step = call[c].step
    BY <1>1, PcState
  <2>2. /\ call[c].pc = "insert" /\ call' = [call EXCEPT ![c] = t]
        /\ pending' = {p \in pending : p[1] # call[c].id} \cup {<<call[c].id, c>>}
        /\ UNCHANGED <<nextId, wire, inbox, dropped>>
    BY <1>3 DEF Browser!Insert
  <2> HIDE DEF t
  <2>3. /\ call' \in [Browser!Tasks -> CallStates] /\ call'[c] = t
        /\ \A d \in Browser!Tasks : d # c => call'[d] = call[d]
    BY <2>1, <2>2
  <2>4. IdsAreOwn'
    BY <2>1, <2>2, <2>3 DEF IdsAreOwn, Waiting
  <2>5. MessagesAreOwn'
    BY <2>1, <2>2, <2>3 DEF MessagesAreOwn, Waiting
  <2>6. Registered'
    <3> SUFFICES ASSUME NEW d \in Browser!Tasks, d # c, call[d].pc \in {"send", "wait"}
                 PROVE  <<call[d].id, d>> \in pending'
      BY <2>1, <2>2, <2>3 DEF Registered
    <3>1. call[d].id # call[c].id
      BY <2>2 DEF IdsAreOwn, Waiting
    <3>2. <<call[d].id, d>> \in pending
      BY DEF Registered
    <3>3. QED
      BY <2>2, <3>1, <3>2
  <2>7. RepliesInTime' /\ Browser!ReplyIsOwn'
    BY <2>1, <2>2, <2>3 DEF RepliesInTime, Browser!ReplyIsOwn
  <2>8. QED
    BY <2>2, <2>3, <2>4, <2>5, <2>6, <2>7
<1>4. ASSUME call[c].pc \in {"send", "wait"},
             call' = [call EXCEPT ![c] = [call[c] EXCEPT !.pc = "answered",
                                          !.reply = [Browser!NoReply EXCEPT !.kind = "error"]]],
             UNCHANGED <<nextId, pending, wire, inbox, dropped>>
      PROVE  WireInv'
  <2> DEFINE m == [Browser!NoReply EXCEPT !.kind = "error"]
             t == [call[c] EXCEPT !.pc = "answered", !.reply = m]
  <2>1. m \in Replies /\ m.id = 0
    BY DEF Browser!NoReply, Replies, Browser!Tasks
  <2> HIDE DEF m
  <2>2. t \in CallStates /\ t.pc = "answered" /\ t.reply = m
    BY <1>1, <2>1, AnsweredState
  <2>3. call' = [call EXCEPT ![c] = t]
    BY <1>4 DEF m
  <2> HIDE DEF t
  <2>4. t.pc \notin Waiting /\ t.reply.id = 0
    BY <2>1, <2>2 DEF Waiting
  <2>5. QED
    BY <1>4, <2>2, <2>3, <2>4, LeavesWire
<1>5. CASE Browser!Send(c)
  <2>1. CASE ~sink \/ child # "running"
    BY <1>4, <1>5, <2>1 DEF Browser!Send
  <2>2. CASE sink /\ child = "running"
    <3> DEFINE t == [call[c] EXCEPT !.pc = "wait"]
               f == Browser!Frame(c)
    <3>1. /\ t \in CallStates /\ t.pc = "wait" /\ t.reply = call[c].reply /\ t.id = call[c].id
          /\ t.step = call[c].step
      BY <1>1, PcState
    <3>2. /\ f \in [id : Nat, from : Browser!Tasks, step : Nat]
          /\ f.id = call[c].id /\ f.from = c /\ f.step = call[c].step
      BY <1>1 DEF Browser!Frame, CallStates
    <3>3. /\ call[c].pc = "send" /\ call' = [call EXCEPT ![c] = t] /\ wire' = wire \cup {f}
          /\ UNCHANGED <<nextId, pending, inbox, dropped>>
      BY <1>5, <2>2 DEF Browser!Send
    <3> HIDE DEF t, f
    <3>4. /\ call' \in [Browser!Tasks -> CallStates] /\ call'[c] = t
          /\ \A d \in Browser!Tasks : d # c => call'[d] = call[d]
      BY <3>1, <3>3
    <3>5. IdsAreOwn'
      BY <3>1, <3>3, <3>4 DEF IdsAreOwn, Waiting
    <3>6. MessagesAreOwn'
      <4> SUFFICES ASSUME NEW m \in wire \cup inbox \cup {f}
                   PROVE  /\ m.id \in 1..(nextId - 1)
                          /\ \A d \in Browser!Tasks : call'[d].pc \in Waiting /\ call'[d].id = m.id =>
                                call'[d].pc = "wait" /\ m.from = d /\ m.step = call'[d].step
        BY <3>3 DEF MessagesAreOwn
      <4>1. CASE m \in wire \cup inbox
        BY <3>1, <3>3, <3>4, <4>1 DEF MessagesAreOwn, Waiting
      <4>2. CASE m = f
        <5>1. m.id \in 1..(nextId - 1)
          BY <3>2, <3>3, <4>2 DEF IdsAreOwn, Waiting
        <5>2. \A d \in Browser!Tasks : call'[d].pc \in Waiting /\ call'[d].id = m.id => d = c
          BY <3>1, <3>2, <3>3, <3>4, <4>2 DEF IdsAreOwn, Waiting
        <5>3. QED
          BY <3>1, <3>2, <3>4, <4>2, <5>1, <5>2
      <4>3. QED
        BY <4>1, <4>2
    <3>7. Registered' /\ RepliesInTime' /\ Browser!ReplyIsOwn'
      BY <3>1, <3>3, <3>4 DEF Registered, RepliesInTime, Browser!ReplyIsOwn
    <3>8. QED
      BY <3>2, <3>3, <3>4, <3>5, <3>6, <3>7
  <2>3. QED
    BY <2>1, <2>2
<1>6. CASE Browser!Timeout(c)
  BY <1>4, <1>6 DEF Browser!Timeout
<1>7. CASE Browser!Continue(c)
  <2>1. PICK t \in CallStates : /\ call' = [call EXCEPT ![c] = t] /\ t.pc \notin Waiting
                                /\ t.reply.id = 0
    BY <1>7, ContinueGoes DEF Waiting
  <2>2. UNCHANGED <<nextId, pending, wire, inbox, dropped>>
    BY <1>7 DEF Browser!Continue
  <2>3. QED
    BY <2>1, <2>2, LeavesWire
<1>8. CASE Browser!TakeSink(c) \/ Browser!AbortPump(c) \/ Browser!Kill(c) \/ Browser!RemoveDir(c)
  <2>1. PICK place \in {"pump", "kill", "rmdir", "done"} : call' = [call EXCEPT ![c].pc = place]
    BY <1>8 DEF Browser!TakeSink, Browser!AbortPump, Browser!Kill, Browser!RemoveDir
  <2> DEFINE t == [call[c] EXCEPT !.pc = place]
  <2>2. t \in CallStates /\ t.pc = place /\ t.reply = call[c].reply
    BY <1>1, PcState DEF Teardown
  <2>3. call' = [call EXCEPT ![c] = t]
    BY <2>1
  <2> HIDE DEF t
  <2>4. call[c].reply.id = 0 /\ UNCHANGED <<nextId, pending, wire, inbox, dropped>>
    BY <1>8 DEF Browser!TakeSink, Browser!AbortPump, Browser!Kill, Browser!RemoveDir, RepliesInTime
  <2>5. t.pc \notin Waiting
    BY <2>2 DEF Waiting
  <2>6. QED
    BY <2>2, <2>3, <2>4, <2>5, LeavesWire
<1>9. QED
  BY <1>2, <1>3, <1>5, <1>6, <1>7, <1>8 DEF Browser!TaskStep

\* WireInv is inductive: the browser may answer late or never, in any order, and
\* the pump resolves what it reads against what is registered by then.
LEMMA WireStep ==
  ASSUME DriverConstants, WireInv, [Browser!Next]_Browser!vars
  PROVE  WireInv'
<1> USE DEF WireInv, DriverTypes
<1>1. ASSUME UNCHANGED <<nextId, pending, wire, inbox, call, dropped>> PROVE WireInv'
  BY <1>1 DEF IdsAreOwn, MessagesAreOwn, Registered, RepliesInTime, Browser!ReplyIsOwn
<1>2. ASSUME NEW ok \in BOOLEAN, Browser!Spawn(ok) \/ Browser!Connect(ok) PROVE WireInv'
  <2>1. CASE UNCHANGED call
    BY <1>1, <1>2, <2>1 DEF Browser!Spawn, Browser!Connect
  <2>2. CASE call' = [call EXCEPT ![Browser!Boot] = [Browser!Rest("boot") EXCEPT !.pc = "next"]]
    <3> DEFINE t == [Browser!Rest("boot") EXCEPT !.pc = "next"]
    <3>1. t \in CallStates /\ t.pc = "next" /\ t.reply.id = 0
      BY RestState
    <3> HIDE DEF t
    <3>2. UNCHANGED <<nextId, pending, wire, inbox, dropped>>
      BY <1>2 DEF Browser!Spawn, Browser!Connect
    <3>3. Browser!Boot \in Browser!Tasks /\ t.pc \notin Waiting
      BY <3>1 DEF Browser!Tasks, Waiting
    <3>4. QED
      BY <2>2, <3>1, <3>2, <3>3, LeavesWire DEF t
  <2>3. QED
    BY <1>2, <2>1, <2>2 DEF Browser!Spawn, Browser!Connect
<1>3. CASE \/ Browser!NoBinary \/ Browser!NoPort \/ Browser!BootFails \/ Browser!Ready
           \/ Browser!Drop \/ Browser!KillOnDrop \/ Browser!Crash \/ Browser!Disconnect
  BY <1>1, <1>3 DEF Browser!NoBinary, Browser!NoPort, Browser!BootFails, Browser!Ready,
     Browser!Drop, Browser!KillOnDrop, Browser!Crash, Browser!Disconnect
<1>4. ASSUME NEW c \in Callers, NEW op \in Operations, Browser!Begin(c, op) PROVE WireInv'
  <2> DEFINE t == [Browser!Rest(op) EXCEPT !.pc = "next"]
  <2>1. t \in CallStates /\ t.pc = "next" /\ t.reply.id = 0
    BY RestState
  <2>2. call' = [call EXCEPT ![c] = t] /\ UNCHANGED <<nextId, pending, wire, inbox, dropped>>
    BY <1>4 DEF Browser!Begin
  <2> HIDE DEF t
  <2>3. c \in Browser!Tasks /\ t.pc \notin Waiting
    BY <2>1 DEF Browser!Tasks, Waiting
  <2>4. QED
    BY <2>1, <2>2, <2>3, LeavesWire
<1>5. ASSUME NEW c \in Browser!Tasks, Browser!TaskStep(c) PROVE WireInv'
  BY <1>5, TaskKeepsWire
<1>6. ASSUME NEW m \in inbox, Browser!Pump(m) PROVE WireInv'
  <2> DEFINE owners == {p[2] : p \in {q \in pending : q[1] = m.id}}
             Resolved(c) == c \in owners /\ call[c].pc = "wait" /\ call[c].id = m.id
  <2>1. /\ inbox' = inbox \ {m} /\ pending' = {p \in pending : p[1] # m.id}
        /\ call' = [c \in Browser!Tasks |->
              IF Resolved(c) THEN [call[c] EXCEPT !.pc = "answered", !.reply = m] ELSE call[c]]
        /\ dropped' = {i \in Browser!Awaited : i \in dropped \/ (i = m.id /\ owners = {})}
        /\ UNCHANGED <<nextId, wire>>
    BY <1>6 DEF Browser!Pump
  <2>2. \A c \in Browser!Tasks : call[c].pc \in {"send", "wait"} /\ call[c].id = m.id => c \in owners
    <3> SUFFICES ASSUME NEW c \in Browser!Tasks, call[c].pc \in {"send", "wait"}, call[c].id = m.id
                 PROVE  c \in owners
      OBVIOUS
    <3>1. <<m.id, c>> \in pending
      BY DEF Registered
    <3>2. <<m.id, c>> \in {q \in pending : q[1] = m.id} /\ <<m.id, c>>[2] = c
      BY <3>1
    <3>3. QED
      BY <3>2
  <2>3. \A c \in Browser!Tasks : call[c].pc \in Waiting /\ call[c].id = m.id =>
            call[c].pc = "wait" /\ m.from = c /\ m.step = call[c].step
    BY DEF MessagesAreOwn
  <2>4. m \in Replies
    OBVIOUS
  <2>5. \A c \in Browser!Tasks : Resolved(c) =>
           /\ call'[c] \in CallStates /\ call'[c].pc = "answered" /\ call'[c].reply = m
           /\ call'[c].id = call[c].id /\ call'[c].step = call[c].step
    <3> SUFFICES ASSUME NEW c \in Browser!Tasks, Resolved(c)
                 PROVE  /\ call'[c] \in CallStates /\ call'[c].pc = "answered"
                        /\ call'[c].reply = m
                        /\ call'[c].id = call[c].id /\ call'[c].step = call[c].step
      OBVIOUS
    <3> DEFINE t == [call[c] EXCEPT !.pc = "answered", !.reply = m]
    <3>1. call'[c] = t
      BY <2>1
    <3>2. call[c] \in CallStates
      OBVIOUS
    <3>3. /\ t \in CallStates /\ t.pc = "answered" /\ t.reply = m
          /\ t.id = call[c].id /\ t.step = call[c].step
      BY <2>4, <3>2, AnsweredState
    <3> HIDE DEF t
    <3>4. QED
      BY <3>1, <3>3
  <2>6. dropped' = {}
    <3> SUFFICES ASSUME NEW i \in Browser!Awaited, i = m.id, owners = {} PROVE FALSE
      BY <2>1
    <3>1. PICK c \in Browser!Tasks : call[c].pc \in {"insert", "send", "wait"} /\ call[c].id = m.id
      BY DEF Browser!Awaited
    <3>2. call[c].pc = "wait"
      BY <2>3, <3>1 DEF Waiting
    <3>3. QED
      BY <2>2, <3>1, <3>2
  <2>7. \A c \in Browser!Tasks : call[c].pc \in {"send", "wait"} /\ call[c].id = m.id => Resolved(c)
    BY <2>2, <2>3 DEF Waiting
  <2>8. \A c \in Browser!Tasks : ~Resolved(c) => call'[c] = call[c]
    BY <2>1
  <2> HIDE DEF Resolved, owners
  <2>9. call' \in [Browser!Tasks -> CallStates]
    <3>1. \A c \in Browser!Tasks : call'[c] \in CallStates
      BY <2>5, <2>8
    <3>2. QED
      BY <2>1, <3>1
  <2>10. IdsAreOwn'
    BY <2>1, <2>5, <2>8 DEF IdsAreOwn, Waiting
  <2>11. MessagesAreOwn'
    <3>1. wire' \cup inbox' \subseteq wire \cup inbox /\ nextId' = nextId
      BY <2>1
    <3> SUFFICES ASSUME NEW n \in wire' \cup inbox'
                 PROVE  /\ n.id \in 1..(nextId - 1)
                        /\ \A c \in Browser!Tasks : call'[c].pc \in Waiting /\ call'[c].id = n.id =>
                              call'[c].pc = "wait" /\ n.from = c /\ n.step = call'[c].step
      BY <3>1 DEF MessagesAreOwn
    <3>2. \A c \in Browser!Tasks : call'[c].pc \in Waiting => call'[c] = call[c]
      BY <2>5, <2>8 DEF Waiting
    <3>3. QED
      BY <3>1, <3>2 DEF MessagesAreOwn
  <2>12. Registered'
    <3> SUFFICES ASSUME NEW c \in Browser!Tasks, call'[c].pc \in {"send", "wait"}
                 PROVE  <<call'[c].id, c>> \in pending'
      BY DEF Registered
    <3>1. call'[c] = call[c] /\ ~Resolved(c)
      BY <2>5, <2>8
    <3>2. call[c].id # m.id /\ <<call[c].id, c>> \in pending
      BY <2>7, <3>1 DEF Registered
    <3>3. QED
      BY <2>1, <3>1, <3>2
  <2>13. RepliesInTime'
    BY <2>5, <2>8 DEF RepliesInTime
  <2>14. Browser!ReplyIsOwn'
    <3> SUFFICES ASSUME NEW c \in Browser!Tasks, call'[c].reply.id # 0
                 PROVE  /\ call'[c].reply.id = call'[c].id
                        /\ call'[c].reply.from = c /\ call'[c].reply.step = call'[c].step
      BY DEF Browser!ReplyIsOwn
    <3>1. CASE Resolved(c)
      <4>1. call[c].pc = "wait" /\ call[c].id = m.id
        BY <3>1 DEF Resolved
      <4>2. QED
        BY <2>3, <2>5, <3>1, <4>1 DEF Waiting
    <3>2. CASE ~Resolved(c)
      BY <2>8, <3>2 DEF Browser!ReplyIsOwn
    <3>3. QED
      BY <3>1, <3>2
  <2>15. QED
    BY <2>1, <2>6, <2>9, <2>10, <2>11, <2>12, <2>13, <2>14
<1>7. ASSUME NEW f \in wire, NEW kind \in {"result", "error", "loading"}, Browser!Answer(f, kind)
      PROVE  WireInv'
  <2> DEFINE m == [id |-> f.id, from |-> f.from, step |-> f.step, kind |-> kind]
  <2>1. m \in Replies /\ m.id = f.id /\ m.from = f.from /\ m.step = f.step
    BY DEF Replies
  <2>2. wire' = wire \ {f} /\ inbox' = inbox \cup {m} /\ UNCHANGED <<nextId, pending, call, dropped>>
    BY <1>7 DEF Browser!Answer
  <2> HIDE DEF m
  <2>3. MessagesAreOwn'
    BY <2>1, <2>2 DEF MessagesAreOwn
  <2>4. QED
    BY <2>1, <2>2, <2>3 DEF IdsAreOwn, Registered, RepliesInTime, Browser!ReplyIsOwn
<1>8. CASE UNCHANGED Browser!vars
  BY <1>1, <1>8 DEF Browser!vars
<1>9. QED
  BY <1>2, <1>3, <1>4, <1>5, <1>6, <1>7, <1>8 DEF Browser!Next

\* What launch_headless has set up, and has left behind, at each of its exits.
LaunchInv ==
  /\ driver \in {"down", "no binary"} => child = "none" /\ ~dir /\ pump = "none"
  /\ driver = "no spawn" => child = "none" /\ pump = "none"
  /\ driver = "spawned" => child = "running" /\ dir /\ pump = "none"
  /\ driver = "no port" => child = "killed" /\ ~dir /\ pump = "none"
  /\ driver = "no socket" => child = "killed" /\ pump = "none"
  /\ driver = "boot" => dir
  /\ driver = "no target" => child = "killed" /\ ~dir /\ pump = "ended"
  /\ driver = "ready" => (child = "running" => dir)
  /\ driver = "dropped" => child = "killed"

\* Who is at work while the driver is built, used and dropped.
WorkInv ==
  /\ driver \in {"boot", "ready", "no target", "dropping", "dropped"} \/ call[Browser!Boot].pc = "idle"
  /\ driver = "boot" \/ call[Browser!Boot].pc \in {"idle"} \cup Browser!Ended
  /\ call[Browser!Boot].op # "close"
  /\ \A c \in Callers : driver \in {"ready", "dropping", "dropped"} \/ call[c].pc = "idle"
  /\ \A c \in Callers : driver = "ready" \/ call[c].pc \in {"idle"} \cup Browser!Ended
  /\ \A c \in Callers : call[c].op = "none" <=> call[c].pc = "idle"

\* How far close has got.
Torn(s) ==
  /\ s.pc \in Teardown => s.op = "close"
  /\ s.pc \in {"kill", "rmdir"} => pump = "ended"
  /\ s.pc = "rmdir" => child = "killed"
  /\ s.op = "close" /\ s.pc = "done" => pump = "ended" /\ child = "killed" /\ ~dir

PhaseTypes ==
  /\ driver \in {"down", "no binary", "no spawn", "spawned", "no port", "no socket", "boot",
                 "no target", "ready", "dropping", "dropped"}
  /\ child \in {"none", "running", "dead", "killed"}
  /\ dir \in BOOLEAN /\ sink \in BOOLEAN /\ pump \in {"none", "running", "ended"}

PhaseInv == PhaseTypes /\ LaunchInv /\ WorkInv /\ \A c \in Browser!Tasks : Torn(call[c])

\* A step of a task that is at work: close may stop the pump, kill the browser
\* and, once it is killed, delete the directory.
LEMMA PhaseGoes ==
  ASSUME DriverConstants, PhaseInv, call \in [Browser!Tasks -> CallStates],
         NEW c \in Browser!Tasks, NEW t \in CallStates, call' = [call EXCEPT ![c] = t],
         call[c].pc \notin {"idle"} \cup Browser!Ended, t.pc # "idle", t.op = call[c].op,
         driver' = driver, sink' \in BOOLEAN, pump' \in {pump, "ended"}, child' \in {child, "killed"},
         dir' \in {dir, FALSE}, dir' = dir \/ child' = "killed",
         call[c].op = "close" \/ UNCHANGED <<child, dir, pump>>, Torn(t)'
  PROVE  PhaseInv'
<1> USE DEF PhaseInv, PhaseTypes, WorkInv
<1>1. /\ call'[c] = t /\ \A d \in Browser!Tasks : d # c => call'[d] = call[d]
      /\ \A d \in Browser!Tasks : d \in Callers \/ d = Browser!Boot
      /\ Callers \subseteq Browser!Tasks /\ Browser!Boot \in Browser!Tasks
  BY DEF Browser!Tasks
<1>2. c = Browser!Boot => driver = "boot" /\ UNCHANGED <<child, dir, pump>> /\ t.op # "close"
  OBVIOUS
<1>3. c \in Callers => driver = "ready"
  OBVIOUS
<1>4. PhaseTypes'
  OBVIOUS
<1>5. LaunchInv'
  BY <1>1, <1>2, <1>3 DEF LaunchInv
<1>6. WorkInv'
  <2>1. CASE c = Browser!Boot
    BY <1>1, <1>2, <2>1 DEF DriverConstants
  <2>2. CASE c \in Callers
    <3>1. call'[Browser!Boot] = call[Browser!Boot]
      BY <1>1, <2>2 DEF DriverConstants
    <3>2. call[c].op # "none" /\ t.op # "none"
      BY <2>2
    <3>3. \A d \in Callers : call'[d].op = "none" <=> call'[d].pc = "idle"
      BY <1>1, <3>2
    <3>4. QED
      BY <1>1, <1>3, <2>2, <3>1, <3>3
  <2>3. QED
    BY <1>1, <2>1, <2>2
<1>7. ASSUME NEW d \in Browser!Tasks PROVE Torn(call[d])'
  <2>1. CASE d = c
    BY <1>1, <2>1
  <2>2. CASE d # c
    <3>1. Torn(call[d]) /\ call'[d] = call[d]
      BY <1>1, <2>2
    <3>2. (pump = "ended" => pump' = "ended") /\ (child = "killed" => child' = "killed")
      OBVIOUS
    <3>3. ~dir => ~dir'
      OBVIOUS
    <3>4. QED
      BY <3>1, <3>2, <3>3 DEF Torn
  <2>3. QED
    BY <2>1, <2>2
<1>8. QED
  BY <1>4, <1>5, <1>6, <1>7

LEMMA TaskKeepsPhase ==
  ASSUME DriverConstants, PhaseInv, call \in [Browser!Tasks -> CallStates], nextId \in Nat,
         NEW c \in Browser!Tasks, Browser!TaskStep(c)
  PROVE  PhaseInv'
<1>1. call[c] \in CallStates /\ Torn(call[c])
  BY DEF PhaseInv
<1>2. dir \in BOOLEAN /\ sink \in BOOLEAN
  BY DEF PhaseInv, PhaseTypes
<1>3. ASSUME NEW t \in CallStates, call' = [call EXCEPT ![c] = t], t.op = call[c].op,
             call[c].pc \in {"next", "answered"} \cup Waiting,
             t.pc \in {"next", "answered", "sink", "done", "failed"} \cup Waiting,
             t.pc = "sink" => t.op = "close", t.pc = "done" => t.op # "close",
             UNCHANGED <<driver, child, dir, sink, pump>>
      PROVE  PhaseInv'
  <2>1. call[c].pc \notin {"idle"} \cup Browser!Ended /\ t.pc # "idle"
    BY <1>3 DEF Browser!Ended, Waiting
  <2>2. Torn(t)'
    BY <1>3 DEF Torn, Teardown, Waiting
  <2>3. QED
    BY <1>2, <1>3, <2>1, <2>2, PhaseGoes
<1>4. CASE Browser!FetchAdd(c)
  <2> DEFINE t == [call[c] EXCEPT !.pc = "insert", !.id = nextId]
  <2>1. t \in CallStates /\ t.pc = "insert" /\ t.op = call[c].op
    BY <1>1, NextState
  <2>2. call' = [call EXCEPT ![c] = t] /\ call[c].pc = "next"
        /\ UNCHANGED <<driver, child, dir, sink, pump>>
    BY <1>4 DEF Browser!FetchAdd
  <2> HIDE DEF t
  <2>3. QED
    BY <1>3, <2>1, <2>2 DEF Waiting
<1>5. CASE Browser!Insert(c)
  <2> DEFINE t == [call[c] EXCEPT !.pc = "send"]
  <2>1. t \in CallStates /\ t.pc = "send" /\ t.op = call[c].op
    BY <1>1, PcState
  <2>2. call' = [call EXCEPT ![c] = t] /\ call[c].pc = "insert"
        /\ UNCHANGED <<driver, child, dir, sink, pump>>
    BY <1>5 DEF Browser!Insert
  <2> HIDE DEF t
  <2>3. QED
    BY <1>3, <2>1, <2>2 DEF Waiting
<1>6. CASE Browser!Send(c) \/ Browser!Timeout(c)
  <2> DEFINE m == [Browser!NoReply EXCEPT !.kind = "error"]
             error == [call[c] EXCEPT !.pc = "answered", !.reply = m]
             sent == [call[c] EXCEPT !.pc = "wait"]
  <2>1. m \in Replies
    BY DEF Browser!NoReply, Replies, Browser!Tasks
  <2>2. /\ call[c].pc \in {"send", "wait"} /\ UNCHANGED <<driver, child, dir, sink, pump>>
        /\ call' = [call EXCEPT ![c] = error] \/ call' = [call EXCEPT ![c] = sent]
    BY <1>6 DEF Browser!Send, Browser!Timeout
  <2> HIDE DEF m
  <2>3. error \in CallStates /\ error.pc = "answered" /\ error.op = call[c].op
    BY <1>1, <2>1, AnsweredState
  <2>4. sent \in CallStates /\ sent.pc = "wait" /\ sent.op = call[c].op
    BY <1>1, PcState
  <2> HIDE DEF error, sent
  <2>5. QED
    BY <1>3, <2>2, <2>3, <2>4 DEF Waiting
<1>7. CASE Browser!Continue(c)
  <2>1. PICK t \in CallStates :
            /\ call' = [call EXCEPT ![c] = t] /\ t.op = call[c].op
            /\ t.pc \in {"next", "sink", "done", "failed"} /\ (t.pc = "sink" <=> t.op = "close")
    BY <1>7, ContinueGoes
  <2>2. call[c].pc = "answered" /\ UNCHANGED <<driver, child, dir, sink, pump>>
    BY <1>7 DEF Browser!Continue
  <2>3. QED
    BY <1>3, <2>1, <2>2
<1>8. ASSUME NEW place \in {"pump", "kill", "rmdir", "done"}, call' = [call EXCEPT ![c].pc = place],
             call[c].pc \in Teardown, driver' = driver, sink' \in BOOLEAN, pump' \in {pump, "ended"},
             child' \in {child, "killed"}, dir' \in {dir, FALSE}, dir' = dir \/ child' = "killed",
             place \in {"kill", "rmdir", "done"} => pump' = "ended",
             place \in {"rmdir", "done"} => child' = "killed", place = "done" => ~dir'
      PROVE  PhaseInv'
  <2> DEFINE s == [call[c] EXCEPT !.pc = place]
  <2>1. s \in CallStates /\ s.pc = place /\ s.op = call[c].op /\ call' = [call EXCEPT ![c] = s]
    BY <1>1, <1>8, PcState DEF Teardown
  <2> HIDE DEF s
  <2>2. PICK t \in CallStates : t.pc = place /\ t.op = call[c].op /\ call' = [call EXCEPT ![c] = t]
    BY <2>1
  <2>3. call[c].op = "close" /\ call[c].pc \notin {"idle"} \cup Browser!Ended /\ t.pc # "idle"
    BY <1>1, <1>8, <2>2 DEF Torn, Teardown, Browser!Ended
  <2>4. Torn(t)'
    BY <1>8, <2>2, <2>3 DEF Torn
  <2>5. QED
    BY <1>8, <2>2, <2>3, <2>4, PhaseGoes
<1>9. CASE Browser!TakeSink(c)
  BY <1>2, <1>8, <1>9 DEF Browser!TakeSink, Teardown
<1>10. CASE Browser!AbortPump(c)
  BY <1>2, <1>8, <1>10 DEF Browser!AbortPump, Teardown
<1>11. CASE Browser!Kill(c)
  <2>1. pump = "ended"
    BY <1>1, <1>11 DEF Browser!Kill, Torn
  <2>2. QED
    BY <1>2, <1>8, <1>11, <2>1 DEF Browser!Kill, Teardown
<1>12. CASE Browser!RemoveDir(c)
  <2>1. pump = "ended" /\ child = "killed"
    BY <1>1, <1>12 DEF Browser!RemoveDir, Torn
  <2>2. QED
    BY <1>2, <1>8, <1>12, <2>1 DEF Browser!RemoveDir, Teardown
<1>13. QED
  BY <1>4, <1>5, <1>6, <1>7, <1>9, <1>10, <1>11, <1>12 DEF Browser!TaskStep

\* PhaseInv is inductive: whatever dies or is closed meanwhile, each exit of
\* launch_headless and each step of close leaves what the next relies on.
LEMMA PhaseStep ==
  ASSUME DriverConstants, PhaseInv, DriverTypes, [Browser!Next]_Browser!vars
  PROVE  PhaseInv'
<1> USE DEF PhaseInv, PhaseTypes
<1>0. /\ call \in [Browser!Tasks -> CallStates] /\ nextId \in Nat
      /\ Callers \subseteq Browser!Tasks /\ Browser!Boot \in Browser!Tasks
  <2> HIDE DEF PhaseInv, PhaseTypes
  <2>1. call \in [Browser!Tasks -> CallStates] /\ nextId \in 1..(MaxId + 1) /\ MaxId \in Nat
    BY DEF DriverTypes, DriverConstants
  <2>2. Callers \subseteq Browser!Tasks /\ Browser!Boot \in Browser!Tasks
    BY DEF Browser!Tasks
  <2>3. QED
    BY <2>1, <2>2
<1>1. ASSUME NEW ok \in BOOLEAN, Browser!Spawn(ok) PROVE PhaseInv'
  <2>1. driver = "down" /\ dir' = TRUE /\ UNCHANGED <<sink, pump, call>>
        /\ (ok => child' = "running" /\ driver' = "spawned")
        /\ (~ok => child' = child /\ driver' = "no spawn")
    BY <1>1 DEF Browser!Spawn
  <2>2. \A c \in Browser!Tasks : call[c].pc = "idle"
    BY <2>1 DEF WorkInv, Browser!Tasks
  <2>3. \A c \in Browser!Tasks : Torn(call[c])'
    BY <2>1, <2>2 DEF Torn, Teardown
  <2>4. LaunchInv' /\ WorkInv'
    BY <2>1 DEF LaunchInv, WorkInv
  <2>5. PhaseTypes'
    BY <2>1
  <2>6. QED
    BY <2>3, <2>4, <2>5
<1>2. ASSUME NEW ok \in BOOLEAN, Browser!Connect(ok) PROVE PhaseInv'
  <2>1. CASE ~ok
    BY <1>2, <2>1 DEF Browser!Connect, LaunchInv, WorkInv, Torn
  <2>2. CASE ok
    <3> DEFINE t == [Browser!Rest("boot") EXCEPT !.pc = "next"]
    <3>1. t.pc = "next" /\ t.op = "boot"
      BY RestState
    <3>2. /\ driver = "spawned" /\ driver' = "boot" /\ pump' = "running" /\ sink'
          /\ call' = [call EXCEPT ![Browser!Boot] = t] /\ UNCHANGED <<child, dir>>
      BY <1>2, <2>2 DEF Browser!Connect
    <3> HIDE DEF t
    <3>3. /\ call'[Browser!Boot] = t /\ \A c \in Callers : call'[c] = call[c]
          /\ \A c \in Callers : call[c].pc = "idle" /\ call[c].op = "none"
      BY <1>0, <3>2 DEF DriverConstants, WorkInv
    <3>4. \A c \in Browser!Tasks : Torn(call[c])'
      <4> SUFFICES ASSUME NEW c \in Browser!Tasks PROVE Torn(call[c])'
        OBVIOUS
      <4>1. call'[c].pc \in {"next", "idle"}
        BY <3>1, <3>3 DEF Browser!Tasks
      <4>2. QED
        BY <4>1 DEF Torn, Teardown
    <3>5. LaunchInv' /\ WorkInv'
      BY <3>1, <3>2, <3>3 DEF LaunchInv, WorkInv
    <3>6. QED
      BY <1>2, <2>2, <3>2, <3>4, <3>5
  <2>3. QED
    BY <2>1, <2>2
<1>3. CASE Browser!NoBinary
  BY <1>3 DEF Browser!NoBinary, LaunchInv, WorkInv, Torn
<1>4. CASE Browser!NoPort
  BY <1>4 DEF Browser!NoPort, LaunchInv, WorkInv, Torn
<1>5. CASE Browser!BootFails
  BY <1>5 DEF Browser!BootFails, LaunchInv, WorkInv, Torn, Browser!Ended
<1>6. CASE Browser!Ready
  BY <1>6 DEF Browser!Ready, LaunchInv, WorkInv, Torn, Browser!Ended
<1>7. CASE Browser!Drop
  BY <1>7 DEF Browser!Drop, LaunchInv, WorkInv, Torn, Browser!Ended
<1>8. CASE Browser!KillOnDrop
  BY <1>8 DEF Browser!KillOnDrop, LaunchInv, WorkInv, Torn
<1>9. CASE Browser!Crash
  BY <1>9 DEF Browser!Crash, LaunchInv, WorkInv, Torn
<1>10. CASE Browser!Disconnect
  BY <1>10 DEF Browser!Disconnect, LaunchInv, WorkInv, Torn
<1>11. ASSUME NEW c \in Callers, NEW op \in Operations, Browser!Begin(c, op) PROVE PhaseInv'
  <2> DEFINE t == [Browser!Rest(op) EXCEPT !.pc = "next"]
  <2>1. t.pc = "next" /\ t.op = op /\ op # "none"
    BY RestState DEF DriverConstants
  <2>2. /\ driver = "ready" /\ call' = [call EXCEPT ![c] = t]
        /\ UNCHANGED <<driver, child, dir, sink, pump>>
    BY <1>11 DEF Browser!Begin
  <2> HIDE DEF t
  <2>3. /\ call'[c] = t /\ \A d \in Browser!Tasks : d # c => call'[d] = call[d]
        /\ c # Browser!Boot
    BY <1>0, <2>2 DEF DriverConstants
  <2>4. \A d \in Browser!Tasks : Torn(call[d])'
    <3> SUFFICES ASSUME NEW d \in Browser!Tasks PROVE Torn(call[d])'
      OBVIOUS
    <3>1. CASE d = c
      BY <2>1, <2>3, <3>1 DEF Torn, Teardown
    <3>2. CASE d # c
      BY <2>2, <2>3, <3>2 DEF Torn
    <3>3. QED
      BY <3>1, <3>2
  <2>5. LaunchInv'
    BY <2>2 DEF LaunchInv
  <2>6. WorkInv'
    BY <1>0, <2>1, <2>2, <2>3 DEF WorkInv
  <2>7. QED
    BY <2>2, <2>4, <2>5, <2>6
<1>12. ASSUME NEW c \in Browser!Tasks, Browser!TaskStep(c) PROVE PhaseInv'
  BY <1>0, <1>12, TaskKeepsPhase
<1>13. ASSUME NEW m \in inbox, Browser!Pump(m) PROVE PhaseInv'
  <2>1. UNCHANGED <<driver, child, dir, sink, pump>>
    BY <1>13 DEF Browser!Pump
  <2>2. \A c \in Browser!Tasks : /\ call'[c].op = call[c].op
                                 /\ \/ call'[c].pc = call[c].pc
                                    \/ call[c].pc = "wait" /\ call'[c].pc = "answered"
    <3> SUFFICES ASSUME NEW c \in Browser!Tasks
                 PROVE  /\ call'[c].op = call[c].op
                        /\ \/ call'[c].pc = call[c].pc
                           \/ call[c].pc = "wait" /\ call'[c].pc = "answered"
      OBVIOUS
    <3>1. \/ call'[c] = call[c]
          \/ call[c].pc = "wait" /\ call'[c] = [call[c] EXCEPT !.pc = "answered", !.reply = m]
      BY <1>13 DEF Browser!Pump
    <3>2. call[c] \in CallStates
      BY <1>0
    <3>3. QED
      BY <3>1, <3>2 DEF CallStates
  <2>3. \A c \in Browser!Tasks : Torn(call[c])'
    BY <2>1, <2>2 DEF Torn, Teardown
  <2>4. LaunchInv'
    BY <2>1 DEF LaunchInv
  <2>5. WorkInv'
    BY <1>0, <2>1, <2>2 DEF WorkInv, Browser!Ended
  <2>6. QED
    BY <2>1, <2>3, <2>4, <2>5
<1>14. ASSUME NEW f \in wire, NEW kind \in {"result", "error", "loading"}, Browser!Answer(f, kind)
       PROVE  PhaseInv'
  BY <1>14 DEF Browser!Answer, LaunchInv, WorkInv, Torn
<1>15. CASE UNCHANGED Browser!vars
  BY <1>15 DEF Browser!vars, LaunchInv, WorkInv, Torn
<1>16. QED
  BY <1>1, <1>2, <1>3, <1>4, <1>5, <1>6, <1>7, <1>8, <1>9, <1>10, <1>11, <1>12, <1>13, <1>14, <1>15
     DEF Browser!Next

(* The driver mixes up no calls and leaves nothing behind. A call gets the
   reply to its own request, not a late one to a request given up, and no
   reply somebody waits for is thrown away. Once launch has failed or close
   returned no browser and no pump run, and the profile is deleted only
   when the browser is gone.                                               *)
DriverIsClean == Browser!DriverIsClean

\* A call of the driver gets the reply to its own request, no awaited reply is
\* thrown away, and whatever ended it, launch or close, leaves no browser and no
\* pump and deletes the profile after the browser: for any number of callers,
\* of their operations and of requests.
THEOREM DriverStaysClean ==
  ASSUME DriverConstants
  PROVE  Browser!Spec => []DriverIsClean
<1>1. Browser!Init => WireInv /\ PhaseInv
  <2> SUFFICES ASSUME Browser!Init PROVE WireInv /\ PhaseInv
    OBVIOUS
  <2> DEFINE rest == Browser!Rest("none")
  <2>1. [rest EXCEPT !.pc = "idle"] = rest /\ rest.pc = "idle" /\ rest.op = "none"
        /\ rest.reply.id = 0
    BY DEF Browser!Rest, Browser!NoReply
  <2>2. [rest EXCEPT !.pc = "idle"] \in CallStates
    BY RestState
  <2>3. call = [c \in Browser!Tasks |-> rest]
    BY DEF Browser!Init
  <2> HIDE DEF rest
  <2>4. call \in [Browser!Tasks -> CallStates]
    BY <2>1, <2>2, <2>3
  <2>5. \A c \in Browser!Tasks : call[c] = rest
    BY <2>3
  <2>6. DriverTypes
    BY <2>4 DEF DriverTypes, Browser!Init, DriverConstants
  <2>7. WireInv
    BY <2>1, <2>5, <2>6 DEF WireInv, IdsAreOwn, MessagesAreOwn, Registered, RepliesInTime,
       Browser!ReplyIsOwn, Browser!Init, Waiting
  <2>8. PhaseInv
    BY <2>1, <2>5 DEF PhaseInv, PhaseTypes, LaunchInv, WorkInv, Torn, Teardown, Browser!Init,
       Browser!Tasks
  <2>9. QED
    BY <2>7, <2>8
<1>2. WireInv /\ PhaseInv /\ [Browser!Next]_Browser!vars => (WireInv /\ PhaseInv)'
  BY WireStep, PhaseStep DEF WireInv
<1>3. WireInv /\ PhaseInv => Browser!DriverIsClean
  <2> SUFFICES ASSUME WireInv, PhaseInv PROVE Browser!DriverIsClean
    OBVIOUS
  <2>1. Browser!TypeOK
    BY DEF WireInv, DriverTypes, PhaseInv, PhaseTypes, Browser!TypeOK, CallStates
  <2>2. Browser!ReplyIsOwn /\ Browser!NoReplyIsLost
    BY DEF WireInv, Browser!NoReplyIsLost
  <2>3. Browser!NothingIsLeft
    BY DEF PhaseInv, PhaseTypes, LaunchInv, Torn, Browser!NothingIsLeft, Browser!Tasks
  <2>4. Browser!ProfileOutlivesBrowser
    BY DEF PhaseInv, PhaseTypes, LaunchInv, Browser!ProfileOutlivesBrowser
  <2>5. QED
    BY <2>1, <2>2, <2>3, <2>4 DEF Browser!DriverIsClean
<1>4. QED
  BY <1>1, <1>2, <1>3, PTL DEF Browser!Spec, DriverIsClean
=============================================================================
