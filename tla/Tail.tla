-------------------------------- MODULE Tail --------------------------------
(***************************************************************************)
(* actantdb tail --follow (crates/actant-cli/src/cmd/tail.rs): the newest  *)
(* events once, then a poll that asks for the ids above the last one       *)
(* printed.  Ids are made before the row is inserted, so rows of two       *)
(* writers can appear in another order than their ids.                     *)
(***************************************************************************)
EXTENDS Naturals, Sequences, FiniteSets, FiniteSetsExt

CONSTANTS
    Ids,        \* event ids that pass the command's filters, in id order
    FirstBatch, \* limit of fetch_recent
    PageSize    \* limit of fetch_since

VARIABLES
    table,      \* ids inserted
    tail,       \* place, last_id (0 for none), what is printed, in order
    before,     \* history: ids in the table at the first query
    overtaken   \* history: ids inserted when last_id was already above them

tailVars == <<table, tail, before, overtaken>>

TailInit ==
    /\ table = {} /\ before = {} /\ overtaken = {}
    /\ tail = [pc |-> "start", last |-> 0, printed |-> <<>>]

Insert(id) ==
    /\ id \notin table
    /\ table' = table \cup {id}
    /\ overtaken' = IF id < tail.last THEN overtaken \cup {id} ELSE overtaken
    /\ UNCHANGED <<tail, before>>

Rank(id, rows) == Cardinality({r \in rows : r < id})
Ascending(rows) == [n \in 1..Cardinality(rows) |-> CHOOSE id \in rows : Rank(id, rows) = n - 1]

Printing(rows) ==
    tail' = [pc |-> "follow", printed |-> tail.printed \o Ascending(rows),
             last |-> IF rows = {} THEN tail.last ELSE Max(rows)]

\* ORDER BY id DESC LIMIT, reversed.
FetchRecent ==
    /\ tail.pc = "start"
    /\ Printing({id \in table : Cardinality({r \in table : r > id}) < FirstBatch})
    /\ before' = table
    /\ UNCHANGED <<table, overtaken>>

\* Fault: the newest page above the cursor.
NewestPage(last) ==
    LET above == {id \in table : id > last} IN {id \in above : Cardinality({r \in above : r > id}) < PageSize}

Page(last) ==
    LET above == {id \in table : id > last} IN {id \in above : Rank(id, above) < PageSize}

FetchSince ==
    /\ tail.pc = "follow"
    /\ Printing(Page(tail.last))
    /\ UNCHANGED <<table, before, overtaken>>

TailNext == FetchRecent \/ FetchSince \/ \E id \in Ids : Insert(id)

TailSpec == TailInit /\ [][TailNext]_tailVars /\ WF_tailVars(FetchRecent) /\ WF_tailVars(FetchSince)

-----------------------------------------------------------------------------
Printed == {tail.printed[n] : n \in DOMAIN tail.printed}

(* Events are printed once each and in id order, and none below the cursor is
   left out but those older than the first batch and those inserted when the
   cursor had already passed their id.                                     *)
TailIsComplete ==
    /\ \A m, n \in DOMAIN tail.printed : m < n => tail.printed[m] < tail.printed[n]
    /\ tail.pc = "follow" => \A id \in table : id <= tail.last =>
          id \in Printed \cup overtaken \cup {i \in before : Cardinality({r \in before : r > i}) >= FirstBatch}

(* Every event above the cursor comes out in the end, also when events come
   in faster than one page holds.                                          *)
TailCatchesUp ==
    \A id \in Ids : (tail.pc = "follow" /\ id \in table /\ id > tail.last) ~> (id \in Printed)
=============================================================================
