--------------------------- MODULE MemoryReview ---------------------------
(***************************************************************************)
(* Memory candidates and memories: propose_memory, approve_memory and      *)
(* reject_memory of Engine (crates/actant-command/src/lib.rs), revoke,     *)
(* delete and detect_conflicts of MemoryStore (crates/actant-memory), and  *)
(* the server's GET /v1/memories?status=all, one SQL statement per step.   *)
(***************************************************************************)
EXTENDS Naturals, Sequences, FiniteSets

CONSTANTS
    Candidates,   \* memory_candidate ids; one stands for its text too
    Reviews,      \* calls of propose_, approve_ and reject_memory
    Opposing,     \* sets of two candidates whose texts contradict each other
    MaxMemories   \* bound on memory rows

VARIABLES
    candidate,    \* per candidate: status of its row, or "none"
    memory,       \* memory rows in order of created_at
    conflict,     \* memory_conflict rows: <<memory_a_id, memory_b_id>>
    review,       \* per call: command, candidate and next statement
    announced,    \* events: <<event_type, candidate>>
    scan,         \* pairs detect_conflicts has still to insert
    listing       \* GET /v1/memories: place, rows shown, and history

vars == <<candidate, memory, conflict, review, announced, scan, listing>>

Commands == {"propose", "approve", "reject"}
Statuses == {"none", "pending_review", "approved", "rejected"}

Goto(r, next) == review' = [review EXCEPT ![r].pc = next]

Rows == DOMAIN memory
MemoriesOf(c) == {m \in Rows : memory[m].cand = c}
Calls(op, c) == {r \in Reviews : review[r].pc # "idle" /\ review[r].op = op /\ review[r].cand = c}

\* Candidates may be there from earlier calls.
Init ==
    /\ candidate \in [Candidates -> {"none", "pending_review"}]
    /\ memory = <<>>
    /\ conflict = {}
    /\ review = [r \in Reviews |-> [op |-> "none", cand |-> CHOOSE c \in Candidates : TRUE, pc |-> "idle"]]
    /\ announced = {}
    /\ scan = {}
    /\ listing = [pc |-> "idle", known |-> {}, shown |-> {}, promoted |-> {}]

-----------------------------------------------------------------------------
(* The three commands.  A proposal draws a fresh id; a review names any.   *)

Begin(r, op, c) ==
    /\ review[r].pc = "idle"
    /\ op = "propose" => candidate[c] = "none" /\ Calls("propose", c) = {}
    /\ review' = [review EXCEPT ![r] = [op |-> op, cand |-> c,
          pc |-> [propose |-> "insert", approve |-> "select", reject |-> "update"][op]]]
    /\ UNCHANGED <<candidate, memory, conflict, announced, scan, listing>>

InsertCandidate(r) ==
    /\ review[r].pc = "insert" /\ review[r].op = "propose"
    /\ candidate' = [candidate EXCEPT ![review[r].cand] = "pending_review"]
    /\ Goto(r, "event")
    /\ UNCHANGED <<memory, conflict, announced, scan, listing>>

\* Fault: the candidate is marked before its memory is there.
MarksFirst(r) ==
    /\ review[r].pc = "select"
    /\ Goto(r, IF candidate[review[r].cand] = "none" THEN "failed" ELSE "insert")
    /\ candidate' = [candidate EXCEPT ![review[r].cand] = IF @ = "none" THEN @ ELSE "approved"]
    /\ UNCHANGED <<memory, conflict, announced, scan, listing>>

\* approve_memory reads the text and never looks at the status.
SelectCandidate(r) ==
    /\ review[r].pc = "select"
    /\ Goto(r, IF candidate[review[r].cand] = "none" THEN "failed" ELSE "insert")
    /\ UNCHANGED <<candidate, memory, conflict, announced, scan, listing>>

InsertMemory(r) ==
    /\ review[r].pc = "insert" /\ review[r].op = "approve"
    /\ Len(memory) < MaxMemories
    /\ memory' = Append(memory, [cand |-> review[r].cand, revoked |-> FALSE, deleted |-> FALSE])
    /\ listing' = [listing EXCEPT !.promoted =
          IF listing.pc = "second" THEN @ \cup {review[r].cand} ELSE @]
    /\ Goto(r, "update")
    /\ UNCHANGED <<candidate, conflict, announced, scan>>

\* Fault: a failed UPDATE is retried together with the INSERT before it.
RetriesBoth(r) ==
    /\ review[r].pc = "update"
    /\ \/ /\ candidate' = [candidate EXCEPT ![review[r].cand] =
                IF @ = "none" THEN @ ELSE IF review[r].op = "approve" THEN "approved" ELSE "rejected"]
          /\ Goto(r, "event")
       \/ /\ review[r].op = "approve" /\ Goto(r, "insert") /\ UNCHANGED candidate
    /\ UNCHANGED <<memory, conflict, announced, scan, listing>>

\* An UPDATE by id, whatever the status was; it touches no row for an unknown id.
UpdateCandidate(r) ==
    /\ review[r].pc = "update"
    /\ candidate' = [candidate EXCEPT ![review[r].cand] =
          IF @ = "none" THEN @ ELSE IF review[r].op = "approve" THEN "approved" ELSE "rejected"]
    /\ Goto(r, "event")
    /\ UNCHANGED <<memory, conflict, announced, scan, listing>>

ReviewEvent(r) ==
    /\ review[r].pc = "event"
    /\ announced' = announced \cup {<<review[r].op, review[r].cand>>}
    /\ Goto(r, "done")
    /\ UNCHANGED <<candidate, memory, conflict, scan, listing>>

\* A failing statement or a dropped request.
Abort(r) ==
    /\ review[r].pc \in {"select", "insert", "update", "event"}
    /\ Goto(r, "failed")
    /\ UNCHANGED <<candidate, memory, conflict, announced, scan, listing>>

-----------------------------------------------------------------------------
(* MemoryStore.  list_active orders by created_at, newest first.           *)

Active(m) == ~memory[m].revoked /\ ~memory[m].deleted

Revoke(m) ==
    /\ memory' = [memory EXCEPT ![m].revoked = TRUE]
    /\ UNCHANGED <<candidate, conflict, review, announced, scan, listing>>

Delete(m) ==
    /\ memory' = [memory EXCEPT ![m].deleted = TRUE]
    /\ UNCHANGED <<candidate, conflict, review, announced, scan, listing>>

Opposed(a, b) == {memory[a].cand, memory[b].cand} \in Opposing

\* Fault: both loops run over all rows.
ComparesBothWays ==
    /\ scan = {}
    /\ scan' = {p \in Rows \X Rows :
                   p[1] # p[2] /\ Active(p[1]) /\ Active(p[2]) /\ Opposed(p[1], p[2])}
    /\ UNCHANGED <<candidate, memory, conflict, review, announced, listing>>

ScanSelect ==
    /\ scan = {}
    /\ scan' = {p \in Rows \X Rows :
                   p[1] > p[2] /\ Active(p[1]) /\ Active(p[2]) /\ Opposed(p[1], p[2])}
    /\ UNCHANGED <<candidate, memory, conflict, review, announced, listing>>

\* INSERT OR IGNORE against UNIQUE (memory_a_id, memory_b_id).
ScanInsert(p) ==
    /\ p \in scan
    /\ conflict' = conflict \cup {p}
    /\ scan' = scan \ {p}
    /\ UNCHANGED <<candidate, memory, review, announced, listing>>

ScanAbort ==
    /\ scan # {}
    /\ scan' = {}
    /\ UNCHANGED <<candidate, memory, conflict, review, announced, listing>>

-----------------------------------------------------------------------------
(* list_memories with status=all: two queries.                             *)

ListMemories ==
    /\ listing.pc # "second"
    /\ listing' = [pc |-> "second", promoted |-> {},
                   known |-> {c \in Candidates : candidate[c] # "none"},
                   shown |-> {memory[m].cand : m \in DOMAIN memory}]
    /\ UNCHANGED <<candidate, memory, conflict, review, announced, scan>>

\* Fault: the second query lists the candidates still under review only.
ListsPending ==
    /\ listing.pc = "second"
    /\ listing' = [listing EXCEPT !.pc = "done",
                      !.shown = @ \cup {c \in Candidates : candidate[c] = "pending_review"}]
    /\ UNCHANGED <<candidate, memory, conflict, review, announced, scan>>

\* status != 'approved': the promoted row stands for the candidate.
ListCandidates ==
    /\ listing.pc = "second"
    /\ listing' = [listing EXCEPT !.pc = "done",
                      !.shown = @ \cup {c \in Candidates : candidate[c] \in {"pending_review", "rejected"}}]
    /\ UNCHANGED <<candidate, memory, conflict, review, announced, scan>>

-----------------------------------------------------------------------------
ReviewStep(r) ==
    \/ InsertCandidate(r) \/ SelectCandidate(r) \/ InsertMemory(r)
    \/ UpdateCandidate(r) \/ ReviewEvent(r) \/ Abort(r)

Next ==
    \/ \E r \in Reviews, op \in Commands, c \in Candidates : Begin(r, op, c)
    \/ \E r \in Reviews : ReviewStep(r)
    \/ \E m \in DOMAIN memory : Revoke(m) \/ Delete(m)
    \/ \E p \in scan : ScanInsert(p)
    \/ ScanSelect \/ ScanAbort \/ ListMemories \/ ListCandidates

Spec == Init /\ [][Next]_vars

-----------------------------------------------------------------------------
TypeOK ==
    /\ candidate \in [Candidates -> Statuses]
    /\ \A m \in DOMAIN memory : memory[m].cand \in Candidates
    /\ conflict \cup scan \subseteq {p \in Rows \X Rows : p[1] > p[2]}   \* newer first
    /\ announced \subseteq Commands \X Candidates

(* An approved candidate has a memory, and memory_approved is announced only
   for one: approve_memory inserts the memory before it marks the candidate,
   so that a failure between the two loses the mark and never the memory.  *)
ApprovedHasMemory ==
    \A c \in Candidates :
        (candidate[c] = "approved" \/ <<"approve", c>> \in announced) => MemoriesOf(c) # {}

(* A candidate has no more memories than approve_memory calls, failed and
   repeated ones included; the code allows a second approval its own memory. *)
MemoriesHaveApprovals ==
    \A c \in Candidates : Cardinality(MemoriesOf(c)) <= Cardinality(Calls("approve", c))

(* detect_conflicts reports a contradiction once, however often and on
   whatever stale list it runs: UNIQUE (memory_a_id, memory_b_id) only works
   because every pass lists the newer memory first.                        *)
ConflictPairsOnce ==
    \A p \in conflict : Opposed(p[1], p[2]) /\ <<p[2], p[1]>> \notin conflict

(* GET /v1/memories?status=all leaves a candidate out only if its memory was
   inserted between the two queries.                                       *)
ListingShowsAll ==
    listing.pc = "done" => listing.known \subseteq listing.shown \cup listing.promoted

(* Every memory, mark, announcement, conflict and listing is accounted for by
   the calls that were made, whichever of them failed: the five above.     *)
ReviewIsAccounted ==
    /\ TypeOK /\ ApprovedHasMemory /\ MemoriesHaveApprovals
    /\ ConflictPairsOnce /\ ListingShowsAll
=============================================================================
