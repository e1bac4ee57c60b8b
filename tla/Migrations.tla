----------------------------- MODULE Migrations -----------------------------
(***************************************************************************)
(* Storage::open and run_migrations (crates/actant-storage/src/lib.rs, and *)
(* the same loop in postgres.rs): processes that open one database apply   *)
(* the bundled scripts statement by statement, each its own transaction,   *)
(* and record a script after its last statement.  CREATE TABLE and ALTER   *)
(* TABLE fail the second time; a few indexes are created IF NOT EXISTS.    *)
(***************************************************************************)
EXTENDS Naturals, Sequences

CONSTANTS
    Scripts,     \* statements of each bundled migration, in order
    Repeatable,  \* <<migration, statement>> that say IF NOT EXISTS
    Procs,       \* processes that open the database
    MaxStops     \* bound on processes killed or failed by the database in mid-run

VARIABLES
    applied,     \* sequence of statements that took effect
    recorded,    \* schema_migration
    proc,        \* per process: place, migration, statement
    stops,
    broken       \* history: a process stopped inside a script

vars == <<applied, recorded, proc, stops, broken>>

Names == DOMAIN Scripts
At(place, m) == [pc |-> place, migration |-> m, statement |-> 1]
Done(stmt) == \E i \in DOMAIN applied : applied[i] = stmt

Init ==
    /\ applied = <<>> /\ recorded = {}
    /\ proc = [p \in Procs |-> At("closed", 1)]
    /\ stops = 0 /\ broken = FALSE

-----------------------------------------------------------------------------
Open(p) ==
    /\ proc[p].pc \in {"closed", "failed"}
    /\ proc' = [proc EXCEPT ![p] = At("check", 1)]
    /\ UNCHANGED <<applied, recorded, stops, broken>>

CheckApplied(p) ==
    /\ proc[p].pc = "check"
    /\ LET m == proc[p].migration IN
       proc' = [proc EXCEPT ![p] = IF m > Len(Scripts) THEN At("open", m)
                                   ELSE IF m \in recorded THEN At("check", m + 1)
                                   ELSE At("apply", m)]
    /\ UNCHANGED <<applied, recorded, stops, broken>>

ApplySqlScript(p) ==
    /\ proc[p].pc = "apply"
    /\ LET stmt == <<proc[p].migration, proc[p].statement>> IN
       IF stmt[2] > Scripts[stmt[1]]
       THEN proc' = [proc EXCEPT ![p].pc = "record"] /\ UNCHANGED applied
       ELSE IF Done(stmt) /\ stmt \notin Repeatable
       THEN proc' = [proc EXCEPT ![p].pc = "failed"] /\ UNCHANGED applied
       ELSE /\ applied' = IF Done(stmt) THEN applied ELSE Append(applied, stmt)
            /\ proc' = [proc EXCEPT ![p].statement = @ + 1]
    /\ UNCHANGED <<recorded, stops, broken>>

\* Fault: only the last script is recorded.
RecordsNewest(p) ==
    /\ proc[p].pc = "record"
    /\ LET m == proc[p].migration IN
       /\ recorded' = IF m = Len(Scripts) THEN recorded \cup {m} ELSE recorded
       /\ proc' = [proc EXCEPT ![p] = At("check", m + 1)]
    /\ UNCHANGED <<applied, stops, broken>>

\* The name is the primary key.
RecordMigration(p) ==
    /\ proc[p].pc = "record"
    /\ LET m == proc[p].migration IN
       IF m \in recorded
       THEN proc' = [proc EXCEPT ![p].pc = "failed"] /\ UNCHANGED recorded
       ELSE /\ recorded' = recorded \cup {m}
            /\ proc' = [proc EXCEPT ![p] = At("check", m + 1)]
    /\ UNCHANGED <<applied, stops, broken>>

InScript(p) == proc[p].pc = "record" \/ (proc[p].pc = "apply" /\ proc[p].statement > 1)

\* Killed, or an error of the database such as a lock held too long.
Stop(p) ==
    /\ proc[p].pc \in {"check", "apply", "record"} /\ stops < MaxStops
    /\ proc' = [proc EXCEPT ![p] = At("closed", 1)]
    /\ stops' = stops + 1 /\ broken' = (broken \/ InScript(p))
    /\ UNCHANGED <<applied, recorded>>

Close(p) ==
    /\ proc[p].pc = "open"
    /\ proc' = [proc EXCEPT ![p] = At("closed", 1)]
    /\ UNCHANGED <<applied, recorded, stops, broken>>

-----------------------------------------------------------------------------
Step(p) == CheckApplied(p) \/ ApplySqlScript(p) \/ RecordMigration(p)

Next == \E p \in Procs : Open(p) \/ Step(p) \/ Stop(p) \/ Close(p)

Spec == Init /\ [][Next]_vars /\ \A p \in Procs : WF_vars(Open(p)) /\ WF_vars(Step(p))

-----------------------------------------------------------------------------
Whole(m) == \A s \in 1..Scripts[m] : Done(<<m, s>>)

TypeOK ==
    /\ recorded \subseteq Names
    /\ \A i \in DOMAIN applied : applied[i][1] \in Names /\ applied[i][2] \in 1..Scripts[applied[i][1]]
    /\ \A p \in Procs : proc[p].pc \in {"closed", "check", "apply", "record", "open", "failed"}

(* A migration is recorded only when every statement of it and of all earlier
   migrations has taken effect, in the bundled order, although processes
   apply the scripts side by side; so an opened database has the whole schema. *)
RecordedIsWhole ==
    /\ \A m \in recorded : \A n \in 1..m : Whole(n) /\ n \in recorded
    /\ \A i, j \in DOMAIN applied : i < j =>
          \/ applied[i][1] < applied[j][1]
          \/ applied[i][1] = applied[j][1] /\ applied[i][2] < applied[j][2]
    /\ \A p \in Procs : proc[p].pc = "open" => recorded = Names

(* Statements of a script that is not recorded stand in the database only
   while some process is inside that script, or after one was stopped there:
   from then on every open of that database fails.                         *)
HalfAppliedWasStopped ==
    \A i \in DOMAIN applied :
        LET m == applied[i][1] IN
        m \in recorded \/ broken \/ \E p \in Procs : proc[p].migration = m /\ InScript(p)

(* Nobody is shut out by another process that opens the database at the same
   time: unless one is stopped inside a script, every process gets it open. *)
EveryoneOpens ==
    \A p \in Procs : []<>(broken \/ proc[p].pc = "open")
=============================================================================
