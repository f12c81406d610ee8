---------------------------- MODULE StoreOpening ----------------------------
(***************************************************************************)
(* The opening of runtime.db.  The server, its threads and the command     *)
(* line tools each create what is missing and migrate what is old, with    *)
(* no one in charge: most statements commit on their own, a few share a    *)
(* transaction.  Any of them may die between two, and two may be at it at  *)
(* the same time.                                                          *)
(*                                                                         *)
(* A table stands for all those that are treated as it is.  Rows are told  *)
(* apart only by the table they are in, for the two tables that a          *)
(* migration moves aside, copies and drops.                                *)
(***************************************************************************)
EXTENDS Naturals, Sequences

CONSTANTS
    Openers,        \* processes and threads that open the database
    Servers,        \* those that open the web application's store on it, too
    Nobody,         \* no one holds the write lock
    MaxOpenings,    \* bound: openings
    MaxCrashes      \* bound: openings cut short by a death

ASSUME OpenersAssumption == Servers \subseteq Openers /\ Nobody \notin Openers
ASSUME BoundsAssumption == MaxOpenings \in Nat /\ MaxCrashes \in Nat

VARIABLES
    table,          \* sqlite_master: the form of each table
    rows,           \* where the rows of a moved table are
    marked,         \* schema_migrations has m6c_submission_state_v2
    writer,         \* who holds SQLite's write lock across statements
    op,             \* how far each opener is
    openings, crashes,
    overlapped      \* history: an opening began before another had ended

vars == <<table, rows, marked, writer, op, openings, crashes, overlapped>>

-----------------------------------------------------------------------------
(* The schema *)

Form == {"none", "old", "current"}

\* What apply_phase3_store_migration rebuilds from rows that are there, and what
\* it creates when it is missing.
Rebuilt == {"artifacts", "revisions", "approvals", "exports"}
Supplied == {"outputs", "reviews"}

\* The scripts of the two stores, in order.
RuntimeTables ==
    <<"artifacts", "runs", "revisions", "approvals", "exports", "outputs", "gates">>
ProductTables == <<"bindings", "attempts">>

\* Tables whose later columns are added one by one, and those that are moved.
Widened == {"runs", "bindings"}
Moved == {"gates", "attempts"}

Table == Rebuilt \cup Supplied \cup Widened \cup Moved
Place == {"table", "aside"}

Step == {"closed", "failed", "open", "applying", "starting", "creating", "reviews",
         "columns", "altering", "gates", "beginning", "marking", "renaming",
         "recreating", "copying", "dropping", "remarking"}

Opening == [at : Step, fresh : BOOLEAN, todo : Seq(Table), part : Table]

Closed == [at |-> "closed", fresh |-> FALSE, todo |-> <<>>, part |-> "runs"]

\* Databases a start may find: none, one of phase 2, one of milestone 6B.
Empty == [t \in Table |-> "none"]

PhaseTwo == [t \in Table |->
    IF t \in {"reviews", "bindings", "attempts"} THEN "none" ELSE "old"]

BeforeCutover == [t \in Table |->
    IF t \in {"bindings", "attempts"} THEN "old" ELSE "current"]

Init ==
    /\ table \in {Empty, PhaseTwo, BeforeCutover}
    /\ rows = [m \in Moved |-> IF table[m] = "none" THEN {} ELSE {"table"}]
    /\ marked = FALSE
    /\ writer = Nobody
    /\ op = [o \in Openers |-> Closed]
    /\ openings = 0 /\ crashes = 0 /\ overlapped = FALSE

At(o, step) == op[o].at = step

Free == writer = Nobody

Goto(o, step) == op' = [op EXCEPT ![o].at = step]

Fail(o) == op' = [op EXCEPT ![o] = [Closed EXCEPT !.at = "failed"]]

AtRest(o) == op[o].at \in {"closed", "failed", "open"}

\* phase3_store_migration_is_current.
Current == \A t \in Rebuilt \cup Supplied : table[t] = "current"

-----------------------------------------------------------------------------
(* RuntimeStore *)

\* Mutant: the schema is initialised before it is migrated.
OpenUnmigrated(o) ==
    /\ op[o].at \in {"closed", "failed"} /\ openings < MaxOpenings
    /\ openings' = openings + 1
    /\ overlapped' = (overlapped \/ \E p \in Openers : ~AtRest(p))
    /\ Goto(o, "starting")
    /\ UNCHANGED <<table, rows, marked, writer, crashes>>

\* The file is looked at before the connection that will use it is made.
Open(o) ==
    /\ op[o].at \in {"closed", "failed"} /\ openings < MaxOpenings
    /\ openings' = openings + 1
    /\ overlapped' = (overlapped \/ \E p \in Openers : ~AtRest(p))
    /\ Goto(o, IF table # Empty /\ ~Current THEN "applying" ELSE "starting")
    /\ UNCHANGED <<table, rows, marked, writer, crashes>>

\* Mutant: the tables already renamed are not put back.
RefuseHalfway(o) ==
    /\ At(o, "applying") /\ Free
    /\ \E t \in Rebuilt : table[t] = "none"
    /\ table' = [table EXCEPT !["artifacts"] = "none"]
    /\ Fail(o)
    /\ UNCHANGED <<rows, marked, writer, openings, crashes, overlapped>>

\* A table to rebuild is not there: the transaction is rolled back and the
\* opening raises.
Refuse(o) ==
    /\ At(o, "applying") /\ Free
    /\ \E t \in Rebuilt : table[t] = "none"
    /\ Fail(o)
    /\ UNCHANGED <<table, rows, marked, writer, openings, crashes, overlapped>>

\* One BEGIN IMMEDIATE transaction: each table not yet current is renamed,
\* created, filled and the old one dropped.  A second one finds nothing to do.
Migrated == [t \in Table |-> IF t \in Rebuilt \cup Supplied THEN "current" ELSE table[t]]

Apply(o) ==
    /\ At(o, "applying") /\ (Current \/ Free)
    /\ \A t \in Rebuilt : table[t] # "none"
    /\ table' = Migrated
    /\ Goto(o, "starting")
    /\ UNCHANGED <<rows, marked, writer, openings, crashes, overlapped>>

\* _init_schema: a database without tables is a fresh one.
Begin(o) ==
    /\ At(o, "starting")
    /\ op' = [op EXCEPT ![o].at = "creating", ![o].fresh = (table = Empty),
                        ![o].todo = RuntimeTables]
    /\ UNCHANGED <<table, rows, marked, writer, openings, crashes, overlapped>>

\* CREATE TABLE IF NOT EXISTS, a commit each, in the scripts of both stores.
Create(o) ==
    /\ At(o, "creating") /\ op[o].todo # <<>>
    /\ LET t == Head(op[o].todo)
       IN  IF table[t] = "none"
           THEN Free /\ table' = [table EXCEPT ![t] = "current"]
           ELSE UNCHANGED table
    /\ op' = [op EXCEPT ![o].todo = Tail(@)]
    /\ UNCHANGED <<rows, marked, writer, openings, crashes, overlapped>>

Created(o) ==
    /\ At(o, "creating") /\ op[o].todo = <<>>
    /\ Goto(o, IF op[o].part = "runs" THEN "reviews" ELSE "columns")
    /\ UNCHANGED <<table, rows, marked, writer, openings, crashes, overlapped>>

\* Only the one that found the database fresh makes the review tables.
Reviews(o) ==
    /\ At(o, "reviews")
    /\ IF op[o].fresh /\ table["reviews"] = "none"
       THEN Free /\ table' = [table EXCEPT !["reviews"] = "current"]
       ELSE UNCHANGED table
    /\ Goto(o, "columns")
    /\ UNCHANGED <<rows, marked, writer, openings, crashes, overlapped>>

\* What follows the columns of a store: the rebuild of the gates, or the
\* transaction of the web application's migrations.
AfterColumns(o) == IF op[o].part = "runs" THEN "gates" ELSE "beginning"

\* PRAGMA table_info, and then ALTER TABLE ADD COLUMN for what it did not list.
CheckColumns(o) ==
    /\ At(o, "columns")
    /\ Goto(o, IF table[op[o].part] = "old" THEN "altering" ELSE AfterColumns(o))
    /\ UNCHANGED <<table, rows, marked, writer, openings, crashes, overlapped>>

\* A column another opener has added meanwhile: "duplicate column name".
Alter(o) ==
    /\ At(o, "altering") /\ Free
    /\ IF table[op[o].part] = "old"
       THEN table' = [table EXCEPT ![op[o].part] = "current"] /\ Goto(o, AfterColumns(o))
       ELSE Fail(o) /\ UNCHANGED table
    /\ UNCHANGED <<rows, marked, writer, openings, crashes, overlapped>>

\* The runtime's store is open; the web application's is opened on it.
Onward(o) ==
    IF o \in Servers
    THEN [op[o] EXCEPT !.at = "creating", !.todo = ProductTables, !.part = "bindings"]
    ELSE [Closed EXCEPT !.at = "open"]

\* content_profile is filled in first, which takes the write lock.
CheckGates(o) ==
    /\ At(o, "gates") /\ Free
    /\ op' = [op EXCEPT ![o] =
                 IF table["gates"] = "old"
                 THEN [@ EXCEPT !.at = "renaming", !.part = "gates"] ELSE Onward(o)]
    /\ UNCHANGED <<table, rows, marked, writer, openings, crashes, overlapped>>

-----------------------------------------------------------------------------
(* ProductStore *)

\* The first UPDATE opens a transaction that the migrations share.
BeginWrite(o) ==
    /\ At(o, "beginning") /\ Free
    /\ writer' = o
    /\ Goto(o, "marking")
    /\ UNCHANGED <<table, rows, marked, openings, crashes, overlapped>>

\* The migration is done, or there is nothing to move: mark and commit.
Mark(o) ==
    /\ At(o, "marking") /\ (marked \/ table["attempts"] # "old")
    /\ marked' = TRUE
    /\ writer' = Nobody
    /\ op' = [op EXCEPT ![o] = [Closed EXCEPT !.at = "open"]]
    /\ UNCHANGED <<table, rows, openings, crashes, overlapped>>

\* The source of a supplier does not compile: the transaction is rolled back.
MigrationRaises(o) ==
    /\ At(o, "marking") /\ ~marked
    /\ writer' = Nobody
    /\ Fail(o)
    /\ UNCHANGED <<table, rows, marked, openings, crashes, overlapped>>

\* executescript commits what is pending: the lock is given up.
Move(o) ==
    /\ At(o, "marking") /\ ~marked /\ table["attempts"] = "old"
    /\ writer' = Nobody
    /\ op' = [op EXCEPT ![o].at = "renaming", ![o].part = "attempts"]
    /\ UNCHANGED <<table, rows, marked, openings, crashes, overlapped>>

(* The script of a moved table: four statements, a commit each *)

Rename(o) ==
    LET m == op[o].part
    IN  /\ At(o, "renaming") /\ Free
        /\ IF table[m] = "none" \/ "aside" \in rows[m]
           THEN Fail(o) /\ UNCHANGED <<table, rows>>
           ELSE /\ table' = [table EXCEPT ![m] = "none"]
                /\ rows' = [rows EXCEPT ![m] = {"aside"}]
                /\ Goto(o, "recreating")
        /\ UNCHANGED <<marked, writer, openings, crashes, overlapped>>

Recreate(o) ==
    LET m == op[o].part
    IN  /\ At(o, "recreating") /\ Free
        /\ IF table[m] # "none" THEN Fail(o) /\ UNCHANGED table
           ELSE table' = [table EXCEPT ![m] = "current"] /\ Goto(o, "copying")
        /\ UNCHANGED <<rows, marked, writer, openings, crashes, overlapped>>

\* Mutant: the rows are not copied.
CopyNothing(o) ==
    /\ At(o, "copying") /\ Free
    /\ Goto(o, "dropping")
    /\ UNCHANGED <<table, rows, marked, writer, openings, crashes, overlapped>>

Copy(o) ==
    /\ At(o, "copying") /\ Free
    /\ rows' = [rows EXCEPT ![op[o].part] = @ \cup {"table"}]
    /\ Goto(o, "dropping")
    /\ UNCHANGED <<table, marked, writer, openings, crashes, overlapped>>

\* Mutant: the table set aside is left.
DropForgotten(o) ==
    /\ At(o, "dropping")
    /\ op' = [op EXCEPT ![o] =
                 IF @.part = "attempts" THEN [@ EXCEPT !.at = "remarking"] ELSE Onward(o)]
    /\ UNCHANGED <<table, rows, marked, writer, openings, crashes, overlapped>>

Drop(o) ==
    LET m == op[o].part
    IN  /\ At(o, "dropping") /\ Free
        /\ rows' = [rows EXCEPT ![m] = @ \ {"aside"}]
        /\ op' = [op EXCEPT ![o] =
                     IF m = "attempts" THEN [@ EXCEPT !.at = "remarking"] ELSE Onward(o)]
        /\ UNCHANGED <<table, marked, writer, openings, crashes, overlapped>>

\* A mark that another opener has set meanwhile is a duplicate key.
MarkMoved(o) ==
    /\ At(o, "remarking") /\ Free
    /\ IF marked THEN Fail(o) /\ UNCHANGED marked
       ELSE marked' = TRUE /\ op' = [op EXCEPT ![o] = [Closed EXCEPT !.at = "open"]]
    /\ UNCHANGED <<table, rows, writer, openings, crashes, overlapped>>

-----------------------------------------------------------------------------
(* Ends *)

Close(o) ==
    /\ At(o, "open")
    /\ Goto(o, "closed")
    /\ UNCHANGED <<table, rows, marked, writer, openings, crashes, overlapped>>

\* The next statement needs the write lock.
Writes(o) ==
    \/ op[o].at \in {"applying", "altering", "gates", "beginning", "renaming",
                    "recreating", "copying", "dropping", "remarking"}
    \/ At(o, "creating") /\ op[o].todo # <<>> /\ table[Head(op[o].todo)] = "none"
    \/ At(o, "reviews") /\ op[o].fresh /\ table["reviews"] = "none"

\* It waits five seconds for it: "database is locked".
LockTimesOut(o) ==
    /\ Writes(o) /\ writer \notin {o, Nobody}
    /\ Fail(o)
    /\ UNCHANGED <<table, rows, marked, writer, openings, crashes, overlapped>>

\* SQLite undoes what was not committed.
Crash(o) ==
    /\ crashes < MaxCrashes /\ ~AtRest(o)
    /\ crashes' = crashes + 1
    /\ op' = [op EXCEPT ![o] = Closed]
    /\ writer' = IF writer = o THEN Nobody ELSE writer
    /\ UNCHANGED <<table, rows, marked, openings, overlapped>>

RuntimeOpening(o) ==
    \/ Open(o) \/ Refuse(o) \/ Apply(o) \/ Begin(o) \/ Create(o) \/ Created(o)
    \/ Reviews(o) \/ CheckColumns(o) \/ Alter(o) \/ CheckGates(o)

ProductOpening(o) ==
    BeginWrite(o) \/ Mark(o) \/ MigrationRaises(o) \/ Move(o) \/ MarkMoved(o)

Script(o) == Rename(o) \/ Recreate(o) \/ Copy(o) \/ Drop(o)

Next ==
    \E o \in Openers :
        \/ RuntimeOpening(o) \/ ProductOpening(o) \/ Script(o)
        \/ Close(o) \/ LockTimesOut(o) \/ Crash(o)

Spec == Init /\ [][Next]_vars

-----------------------------------------------------------------------------
(* Properties *)

\* The rows of a table that is moved are always somewhere, in the table or in
\* the one beside it, whoever dies and whoever else is at it.
RowsAreKept == [][\A m \in Moved : rows[m] # {} => rows'[m] # {}]_vars

\* An opening that is past the migration works on current tables: none opens
\* the database around the migration, also when several look at it at once.
WorksOnCurrent ==
    \A o \in Openers :
        op[o].at \notin {"closed", "failed", "applying", "starting", "creating"}
            => \A t \in Rebuilt : table[t] = "current"

\* A database that every later opening will refuse, because a table to rebuild
\* is missing, is what a death during its first creation leaves, and nothing
\* else.
RefusedAfterDeath ==
    (table # Empty /\ \E t \in Rebuilt : table[t] = "none") =>
        \/ crashes > 0
        \/ \E o \in Openers : At(o, "creating")

\* Rows that were moved aside are in their table again when no one is moving
\* them, unless an opening was cut short or two overlapped: then they stay aside
\* for ever, and the mark says that the migration is done.
RowsComeBack ==
    \A m \in Moved :
        \/ rows[m] \in {{}, {"table"}}
        \/ \E o \in Openers :
               op[o].part = m /\ op[o].at \in {"recreating", "copying", "dropping"}
        \/ crashes > 0 \/ overlapped
=============================================================================
