---------------------------- MODULE EffectQueue ----------------------------
(***************************************************************************)
(* The effect queue of crates/actant-effects and the worker loop of        *)
(* crates/actant-worker-protocol that drives it.                           *)
(*                                                                         *)
(* The queue is a table of effect rows, a table of effect_claim rows (the  *)
(* leases) and a table of effect_result rows.  No operation runs in a      *)
(* transaction: every SQL statement commits on its own, so one action of   *)
(* this module is one statement, and a process may stop between any two.   *)
(* Workers and reapers are the processes; time only shows as the moment a  *)
(* lease's expires_at falls behind the wall clock (LeaseExpires).          *)
(*                                                                         *)
(* One workspace is modelled: claim_one filters on workspace_id the way it *)
(* filters on the effect type.                                             *)
(***************************************************************************)
EXTENDS Integers, FiniteSets

CONSTANTS
  Effects,       \* effect ids that may be enqueued
  Workers,       \* worker ids; a restarted worker has a new id
  Reapers,       \* processes that call reap_expired
  MaxAttempts,   \* effect.max_attempts, 3 in the code
  Types,         \* effect types
  TypeOf,        \* effect.effect_type
  Caps,          \* WorkerDescriptor.capabilities of each worker
  Primary,       \* Handler::effect_type of the handlers of each worker
  Unreliable,    \* processes that may stop, or see a statement fail
  NoWorker,      \* NULL in effect.assigned_worker_id
  NoEffect       \* a worker that holds no lease

ASSUME ConstantsAssumption ==
  /\ MaxAttempts \in Nat \ {0}
  /\ TypeOf \in [Effects -> Types]
  /\ Caps \in [Workers -> SUBSET Types]
  /\ Primary \in [Workers -> SUBSET Types]
  /\ NoWorker \notin Workers
  /\ NoEffect \notin Effects

VARIABLES
  status,        \* effect.status; "absent" before enqueue
  attempts,      \* effect.attempt_count
  assigned,      \* effect.assigned_worker_id
  created,       \* effect.created_at, as a position in the order of arrival
  resultRef,     \* effect.result_ref: the attempt whose output it holds, or 0
  claims,        \* rows of effect_claim
  results,       \* rows of effect_result
  online,        \* workers with a row in table worker
  pc,            \* where each worker stands in WorkerRunner::run
  held,          \* the effect of the row, later of the lease, it works with
  ran,           \* the attempt its claim UPDATE started (history)
  rpc,           \* where each reaper stands in reap_expired
  todo,          \* rows of the reaper's SELECT not yet processed
  cur,           \* the row the reaper is processing
  now            \* the next created_at

rowVars    == <<status, attempts, assigned, created, resultRef, now>>
workerVars == <<online, pc, held, ran>>
reaperVars == <<rpc, todo, cur>>
vars == <<rowVars, claims, results, workerVars, reaperVars>>

Statuses == {"absent", "pending", "claimed", "running", "succeeded", "failed"}
Settled  == {"succeeded", "failed"}

\* One row of effect_claim.  Its primary key is a fresh ulid; here the effect
\* and the attempt that created the row name it, which no two rows share
\* because the claim UPDATE increments attempt_count.
Claim == [effect : Effects, attempt : Nat, worker : Workers,
          expired : BOOLEAN, released : BOOLEAN]

\* One row of the SELECT in reap_expired: a claim and the counters as read.
ReapRow == [effect : Effects, attempt : Nat, seen : Nat]
NoRow == [effect |-> NoEffect, attempt |-> 0, seen |-> 0]

OpenClaims(e) == {c \in claims : c.effect = e /\ ~c.released}

\* Workers between the claim UPDATE and the INSERT of its effect_claim row.
Claiming(e) == {w \in Workers : pc[w] = "updated" /\ held[w] = e}

Init ==
  /\ status = [e \in Effects |-> "absent"]
  /\ attempts = [e \in Effects |-> 0]
  /\ assigned = [e \in Effects |-> NoWorker]
  /\ created = [e \in Effects |-> 0]
  /\ resultRef = [e \in Effects |-> 0]
  /\ now = 1
  /\ claims = {}
  /\ results = {}
  /\ online = {}
  /\ pc = [w \in Workers |-> "register"]
  /\ held = [w \in Workers |-> NoEffect]
  /\ ran = [w \in Workers |-> 0]
  /\ rpc = [r \in Reapers |-> "idle"]
  /\ todo = [r \in Reapers |-> {}]
  /\ cur = [r \in Reapers |-> NoRow]

---------------------------------------------------------------------------
(* The producer: EffectQueue::enqueue.                                     *)

Enqueue(e) ==
  /\ status[e] = "absent"
  /\ status' = [status EXCEPT ![e] = "pending"]
  /\ created' = [created EXCEPT ![e] = now]
  /\ now' = now + 1
  /\ UNCHANGED <<attempts, assigned, resultRef, claims, results>>
  /\ UNCHANGED <<workerVars, reaperVars>>

---------------------------------------------------------------------------
(* The worker: WorkerRunner::run, claim_one and execute.                   *)

Goto(w, from, to) ==
  /\ pc[w] = from
  /\ pc' = [pc EXCEPT ![w] = to]

\* The lease value goes out of scope.
DropLease(w) == held' = [held EXCEPT ![w] = NoEffect]

Register(w) ==
  /\ Goto(w, "register", "poll")
  /\ online' = online \cup {w}
  /\ UNCHANGED <<rowVars, claims, results, held, ran, reaperVars>>

\* The rows the SELECT of claim_one ranges over.
Eligible(w) == {e \in Effects : status[e] = "pending" /\ TypeOf[e] \in Caps[w]}

\* ORDER BY created_at ASC LIMIT 1
Oldest(S) == {e \in S : \A f \in S : created[e] <= created[f]}

ClaimSelect(w) ==
  /\ Goto(w, "poll", "selected")
  /\ \E e \in Oldest(Eligible(w)) : held' = [held EXCEPT ![w] = e]
  /\ UNCHANGED <<rowVars, claims, results, online, ran, reaperVars>>

\* No row matches, or the runner has no capability: sleep, then heartbeat.
ClaimNothing(w) ==
  /\ Goto(w, "poll", "heartbeat")
  /\ Eligible(w) = {}
  /\ UNCHANGED <<rowVars, claims, results, online, held, ran, reaperVars>>

\* Fault: the UPDATE names the effect by id alone.
ClaimsByIdAlone(w) == TRUE

\* The WHERE clause of the claim UPDATE: id = ? AND status = 'pending'.
StillPending(w) == status[held[w]] = "pending"

\* Fault: attempt_count is decremented, as a count of attempts left would be.
CountsDown(w) ==
  LET e == held[w] IN
  /\ Goto(w, "selected", "updated")
  /\ StillPending(w)
  /\ status' = [status EXCEPT ![e] = "claimed"]
  /\ attempts' = [attempts EXCEPT ![e] = attempts[e] - 1]
  /\ assigned' = [assigned EXCEPT ![e] = w]
  /\ ran' = [ran EXCEPT ![w] = attempts[e] - 1]
  /\ UNCHANGED <<created, resultRef, now, claims, results, online, held>>
  /\ UNCHANGED reaperVars

\* The claim UPDATE, one row affected.
ClaimUpdate(w) ==
  LET e == held[w] IN
  /\ Goto(w, "selected", "updated")
  /\ StillPending(w)
  /\ status' = [status EXCEPT ![e] = "claimed"]
  /\ attempts' = [attempts EXCEPT ![e] = attempts[e] + 1]
  /\ assigned' = [assigned EXCEPT ![e] = w]
  /\ ran' = [ran EXCEPT ![w] = attempts[e] + 1]
  /\ UNCHANGED <<created, resultRef, now, claims, results, online, held>>
  /\ UNCHANGED reaperVars

\* rows_affected == 0: another worker won.
ClaimLost(w) ==
  /\ Goto(w, "selected", "heartbeat")
  /\ ~StillPending(w)
  /\ DropLease(w)
  /\ UNCHANGED <<rowVars, claims, results, online, ran, reaperVars>>

\* Fault: the lease is handed out with no effect_claim row behind it.
LeasesWithoutRow(w) ==
  /\ Goto(w, "updated", "leased")
  /\ UNCHANGED <<rowVars, claims, results, online, held, ran, reaperVars>>

\* Last statement of claim_one; the Lease is handed to execute.
ClaimInsert(w) ==
  /\ Goto(w, "updated", "leased")
  /\ claims' = claims \cup {[effect |-> held[w], attempt |-> ran[w], worker |-> w,
                             expired |-> FALSE, released |-> FALSE]}
  /\ UNCHANGED <<rowVars, results, online, held, ran, reaperVars>>

\* execute looks the handler up by its primary effect_type alone.
HasHandler(w) == TypeOf[held[w]] \in Primary[w]

\* EffectQueue::start: an UPDATE with no condition on the status.
Start(w) ==
  /\ Goto(w, "leased", "running")
  /\ HasHandler(w)
  /\ status' = [status EXCEPT ![held[w]] = "running"]
  /\ UNCHANGED <<attempts, assigned, created, resultRef, now, claims, results>>
  /\ UNCHANGED <<online, held, ran, reaperVars>>

\* First statement of EffectQueue::complete, after handle returned Ok.  It
\* names only the effect, and leaves the claim open.
Complete(w) ==
  /\ Goto(w, "running", "result")
  /\ status' = [status EXCEPT ![held[w]] = "succeeded"]
  /\ resultRef' = [resultRef EXCEPT ![held[w]] = ran[w]]
  /\ UNCHANGED <<attempts, assigned, created, now, claims, results>>
  /\ UNCHANGED <<online, held, ran, reaperVars>>

\* Second statement of complete: attempt_number is the row's current count.
InsertResult(w) ==
  /\ Goto(w, "result", "heartbeat")
  /\ results' = results \cup {[effect |-> held[w], ran |-> ran[w],
                               numbered |-> attempts[held[w]]]}
  /\ DropLease(w)
  /\ UNCHANGED <<rowVars, claims, online, ran, reaperVars>>

\* Fault: the error is logged and the row left as it is.
FailsSilently(w) ==
  /\ \/ Goto(w, "running", "heartbeat")
     \/ Goto(w, "leased", "heartbeat") /\ ~HasHandler(w)
  /\ DropLease(w)
  /\ UNCHANGED <<rowVars, claims, results, online, ran, reaperVars>>

\* EffectQueue::fail: handle returned Err, or no handler was found.
Fail(w) ==
  /\ \/ Goto(w, "running", "heartbeat")
     \/ Goto(w, "leased", "heartbeat") /\ ~HasHandler(w)
  /\ status' = [status EXCEPT ![held[w]] = "failed"]
  /\ DropLease(w)
  /\ UNCHANGED <<attempts, assigned, created, resultRef, now, claims, results>>
  /\ UNCHANGED <<online, ran, reaperVars>>

\* EffectQueue::heartbeat, called once per loop: it writes worker and
\* worker_heartbeat, whose contents nothing reads, and no claim.
Heartbeat(w) ==
  /\ Goto(w, "heartbeat", "poll")
  /\ UNCHANGED <<rowVars, claims, results, online, held, ran, reaperVars>>

\* The process is killed, shut down (seen at the top of the loop), or a
\* statement of register or claim_one fails, which ends run.
Stop(w) ==
  /\ w \in Unreliable
  /\ pc[w] # "down"
  /\ pc' = [pc EXCEPT ![w] = "down"]
  /\ DropLease(w)
  /\ UNCHANGED <<rowVars, claims, results, online, ran, reaperVars>>

\* A statement of start, complete or fail fails; execute discards the error.
ReportLost(w) ==
  /\ w \in Unreliable
  /\ \/ /\ Goto(w, "leased", "running") /\ HasHandler(w)
        /\ UNCHANGED held
     \/ /\ Goto(w, "leased", "heartbeat") /\ ~HasHandler(w)
        /\ DropLease(w)
     \/ /\ Goto(w, "running", "heartbeat") \/ Goto(w, "result", "heartbeat")
        /\ DropLease(w)
  /\ UNCHANGED <<rowVars, claims, results, online, ran, reaperVars>>

---------------------------------------------------------------------------
(* Time, and the reaper: EffectQueue::reap_expired.                        *)

LeaseExpires(c) ==
  /\ c \in claims
  /\ ~c.expired
  /\ claims' = (claims \ {c}) \cup {[c EXCEPT !.expired = TRUE]}
  /\ UNCHANGED <<rowVars, results, workerVars, reaperVars>>

\* Expired, unreleased claims of effects that are claimed or running.
Reapable == {c \in claims : /\ c.expired /\ ~c.released
                            /\ status[c.effect] \in {"claimed", "running"}}

ReapSelect(r) ==
  /\ rpc[r] = "idle"
  /\ Reapable # {}
  /\ todo' = [todo EXCEPT ![r] = {[effect |-> c.effect, attempt |-> c.attempt,
                                   seen |-> attempts[c.effect]] : c \in Reapable}]
  /\ rpc' = [rpc EXCEPT ![r] = "release"]
  /\ UNCHANGED <<rowVars, claims, results, workerVars, cur>>

\* Fault: the claim keeps released_at NULL.
ReleasesNothing(c) == c

\* UPDATE effect_claim SET released_at = now.
Release(c) == [c EXCEPT !.released = TRUE]

\* The release of the claim, for the next row of the snapshot.
ReapRelease(r) ==
  /\ rpc[r] = "release"
  /\ \E row \in todo[r] :
       /\ claims' = {IF c.effect = row.effect /\ c.attempt = row.attempt
                     THEN Release(c) ELSE c : c \in claims}
       /\ cur' = [cur EXCEPT ![r] = row]
       /\ todo' = [todo EXCEPT ![r] = todo[r] \ {row}]
  /\ rpc' = [rpc EXCEPT ![r] = "requeue"]
  /\ UNCHANGED <<rowVars, results, workerVars>>

\* Fault: one retry too many.
RetriesOnceMore(row) == row.seen <= MaxAttempts

RetriesLeft(row) == row.seen < MaxAttempts

\* UPDATE effect: pending again or failed, decided by the counters as read
\* and with no condition on the row's present status.
ReapRequeue(r) ==
  LET e == cur[r].effect IN
  /\ rpc[r] = "requeue"
  /\ \/ /\ RetriesLeft(cur[r])
        /\ status' = [status EXCEPT ![e] = "pending"]
        /\ assigned' = [assigned EXCEPT ![e] = NoWorker]
     \/ /\ ~RetriesLeft(cur[r])
        /\ status' = [status EXCEPT ![e] = "failed"]
        /\ UNCHANGED assigned
  /\ rpc' = [rpc EXCEPT ![r] = IF todo[r] = {} THEN "idle" ELSE "release"]
  /\ cur' = [cur EXCEPT ![r] = NoRow]
  /\ UNCHANGED <<attempts, created, resultRef, now, claims, results, workerVars>>
  /\ UNCHANGED todo

\* A statement fails or the process stops: the rest of the pass is lost.
ReapAbort(r) ==
  /\ r \in Unreliable
  /\ rpc[r] # "idle"
  /\ rpc' = [rpc EXCEPT ![r] = "idle"]
  /\ todo' = [todo EXCEPT ![r] = {}]
  /\ cur' = [cur EXCEPT ![r] = NoRow]
  /\ UNCHANGED <<rowVars, claims, results, workerVars>>

---------------------------------------------------------------------------
WorkerStep(w) ==
  \/ Register(w)    \/ ClaimSelect(w) \/ ClaimNothing(w) \/ ClaimUpdate(w)
  \/ ClaimLost(w)   \/ ClaimInsert(w) \/ Start(w)        \/ Complete(w)
  \/ InsertResult(w) \/ Fail(w)       \/ Heartbeat(w)

ReaperStep(r) == ReapSelect(r) \/ ReapRelease(r) \/ ReapRequeue(r)

Next ==
  \/ \E e \in Effects : Enqueue(e)
  \/ \E w \in Workers : WorkerStep(w) \/ Stop(w) \/ ReportLost(w)
  \/ \E c \in claims : LeaseExpires(c)
  \/ \E r \in Reapers : ReaperStep(r) \/ ReapAbort(r)

Spec == Init /\ [][Next]_vars

\* A running worker keeps polling and its handler returns.  Nothing in the
\* repository schedules reap_expired, so reapers get no fairness.
FairSpec == Spec /\ \A w \in Workers : WF_vars(WorkerStep(w))

\* What an operator who does run a reaper adds: time passes, and the reaper
\* is called again and again.
ReapedSpec ==
  /\ FairSpec
  /\ \A r \in Reapers : WF_vars(ReaperStep(r))
  /\ WF_vars(\E c \in claims : LeaseExpires(c))

---------------------------------------------------------------------------
(* Properties.                                                             *)

WorkerPCs == {"register", "poll", "selected", "updated", "leased", "running",
              "result", "heartbeat", "down"}
HoldingPCs == {"selected", "updated", "leased", "running", "result"}

\* Every row, lease and process counter has the type its table or code gives it.
TypeOK ==
  /\ status \in [Effects -> Statuses]
  /\ attempts \in [Effects -> Nat]
  /\ assigned \in [Effects -> Workers \cup {NoWorker}]
  /\ created \in [Effects -> Nat]
  /\ resultRef \in [Effects -> Nat]
  /\ now \in Nat
  /\ claims \subseteq Claim
  /\ results \subseteq [effect : Effects, ran : Nat, numbered : Nat]
  /\ online \subseteq Workers
  /\ pc \in [Workers -> WorkerPCs]
  /\ held \in [Workers -> Effects \cup {NoEffect}]
  /\ \A w \in Workers : pc[w] \in HoldingPCs => held[w] \in Effects
  /\ ran \in [Workers -> Nat]
  /\ rpc \in [Reapers -> {"idle", "release", "requeue"}]
  /\ todo \in [Reapers -> SUBSET ReapRow]
  /\ cur \in [Reapers -> ReapRow \cup {NoRow}]
  /\ \A r \in Reapers : rpc[r] = "requeue" => cur[r] \in ReapRow

\* claim_one never leaves two open leases on one effect, however the
\* statements of workers, late workers and the reaper interleave.
AtMostOneOpenClaim ==
  \A e \in Effects : \A c, d \in OpenClaims(e) : c = d

\* An effect is offered to workers (pending) only while nobody holds an open
\* lease on it or is between the claim UPDATE and its INSERT.
PendingIsUnclaimed ==
  \A e \in Effects : status[e] = "pending" => OpenClaims(e) = {} /\ Claiming(e) = {}

\* The open lease is the one of the row's latest attempt, and belongs to the
\* row's assigned worker: a released lease is never the newest one.
OpenClaimMatchesRow ==
  \A e \in Effects : \A c \in OpenClaims(e) :
    c.attempt = attempts[e] /\ c.worker = assigned[e]

\* reap_expired stops requeueing at max_attempts, although it decides with
\* the counter its SELECT read: no effect is started more often than that.
AttemptsWithinMax == \A e \in Effects : attempts[e] <= MaxAttempts

\* Every effect_result row was produced under a lease that was recorded in
\* effect_claim, and is numbered with that attempt or a later one.
ResultNamesALease ==
  \A x \in results :
    /\ x.ran <= x.numbered
    /\ \E c \in claims : c.effect = x.effect /\ c.attempt = x.ran

\* What the parts of LeaseInv below say beside the invariants above.
OfferedBelowMax ==
  \A e \in Effects : status[e] \in {"absent", "pending"} => attempts[e] < MaxAttempts

HeldIsEnqueued ==
  /\ \A c \in claims : status[c.effect] # "absent"
  /\ \A w \in Workers : pc[w] \in HoldingPCs => status[held[w]] # "absent"

ClaimsAreKeyed ==
  /\ \A c \in claims : c.attempt <= attempts[c.effect]
  /\ \A c, d \in claims : c.effect = d.effect /\ c.attempt = d.attempt => c = d

ClaimingIsNewest ==
  \A w \in Workers : pc[w] = "updated" =>
    /\ ran[w] = attempts[held[w]]
    /\ assigned[held[w]] = w
    /\ \A c \in claims : c.effect = held[w] => c.attempt < ran[w] /\ c.released

SnapshotIsCurrent ==
  \A r \in Reapers : \A row \in todo[r] :
    /\ row.seen = attempts[row.effect]
    /\ \E c \in claims : c.effect = row.effect /\ c.attempt = row.attempt /\ ~c.released

RequeuerHasToken ==
  \A r \in Reapers : rpc[r] = "requeue" =>
    /\ status[cur[r].effect] \notin {"absent", "pending"}
    /\ cur[r].seen = attempts[cur[r].effect]
    /\ OpenClaims(cur[r].effect) = {}
    /\ Claiming(cur[r].effect) = {}

\* Why the invariants above hold with one reaper: an effect has at most one
\* live lease token, which is its pending status, a worker inside claim_one, an
\* open claim, or a reaper that has released the claim and not yet requeued.
\* Late start, complete and fail calls can destroy the token, never copy it.
LeaseInv ==
  /\ PendingIsUnclaimed
  /\ OpenClaimMatchesRow
  /\ AttemptsWithinMax
  /\ OfferedBelowMax
  /\ HeldIsEnqueued
  /\ ClaimsAreKeyed
  /\ ClaimingIsNewest
  /\ SnapshotIsCurrent
  /\ RequeuerHasToken

\* While no worker fails, every effect reaches a terminal status and stays
\* there, in spite of expired leases, late workers, stale reaper passes and
\* passes that are cut short.
EventuallySettled ==
  \A e \in Effects : status[e] = "pending" ~> [](status[e] \in Settled)

---------------------------------------------------------------------------
(* What the documents say, and the code does not do.                       *)

\* specs/04-effect-protocol.md section 1: succeeded is terminal.
SucceededIsTerminal ==
  [][\A e \in Effects : status[e] = "succeeded" => status'[e] = "succeeded"]_vars

\* specs/04-effect-protocol.md section 10: the canonical result is the one of
\* the successor; a worker that completes late does not overwrite it.
SuccessorResultWins ==
  [][\A e \in Effects : resultRef'[e] >= resultRef[e]]_vars

\* specs/04-effect-protocol.md section 10: when a worker crashes mid-effect the
\* lease expires and the effect returns to the queue.
CrashedWorkIsRecovered ==
  \A e \in Effects : \A w \in Workers :
    (pc[w] = "down" /\ assigned[e] = w /\ status[e] \in {"claimed", "running"})
      ~> (status[e] \notin {"claimed", "running"} \/ assigned[e] # w)
=============================================================================
