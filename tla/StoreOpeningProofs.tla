------------------------- MODULE StoreOpeningProofs -------------------------
(***************************************************************************)
(* Proofs about StoreOpening, for any openers and any number of openings   *)
(* and deaths.                                                             *)
(***************************************************************************)
EXTENDS StoreOpening, TLAPS

OpeningType ==
    /\ table \in [Table -> Form]
    /\ rows \in [Moved -> SUBSET Place]
    /\ marked \in BOOLEAN
    /\ writer \in Openers \cup {Nobody}
    /\ op \in [Openers -> Opening]
    /\ openings \in Nat /\ crashes \in Nat /\ overlapped \in BOOLEAN

(***************************************************************************)
(* The inductive invariant.  Nothing makes a table old, and only tables    *)
(* that are moved ever go: so what a creation has passed stays current.    *)
(* A move puts its table aside only when none is aside, so two openers are *)
(* never in the script of one table, and what one drops it has copied.     *)
(* That rows come back needs more: who is cut off neither by a death nor   *)
(* by another opener is alone, and finds the table it renamed gone.        *)
(***************************************************************************)
Early == {"closed", "failed", "applying", "starting", "creating"}
InScript(o) == op[o].at \in {"recreating", "copying", "dropping"}

\* What a creation has yet to make is on its list.
CreatingInv ==
    \A o \in Openers :
        /\ op[o].at \in {"starting", "creating"} => \A t \in Rebuilt : table[t] # "old"
        /\ At(o, "creating") =>
              \A t \in Rebuilt :
                  table[t] = "current" \/ \E i \in DOMAIN op[o].todo : op[o].todo[i] = t

WriterInv == writer # Nobody => At(writer, "marking")

ScriptInv ==
    \A o \in Openers :
        /\ At(o, "renaming") \/ InScript(o) => op[o].part \in Moved
        /\ InScript(o) => "aside" \in rows[op[o].part]
        /\ At(o, "dropping") => "table" \in rows[op[o].part]
        /\ \A p \in Openers : InScript(o) /\ InScript(p) /\ o # p => op[o].part # op[p].part

Undisturbed == crashes = 0 /\ ~overlapped

AloneInv ==
    Undisturbed =>
        /\ \A o, p \in Openers : o # p => AtRest(o) \/ AtRest(p)
        /\ \A m \in Moved :
               "aside" \in rows[m] => \E o \in Openers : InScript(o) /\ op[o].part = m
        /\ \A o \in Openers : At(o, "recreating") => table[op[o].part] = "none"

OpeningInv ==
    /\ OpeningType /\ CreatingInv /\ WorksOnCurrent /\ WriterInv /\ ScriptInv
    /\ AloneInv /\ RefusedAfterDeath

-----------------------------------------------------------------------------
\* The lists of tables are lists of tables, and name every one that is rebuilt.
LEMMA TableLists ==
    /\ RuntimeTables \in Seq(Table) /\ ProductTables \in Seq(Table)
    /\ \A t \in Rebuilt : \E i \in DOMAIN RuntimeTables : RuntimeTables[i] = t
<1>1. RuntimeTables \in Seq(Table) /\ ProductTables \in Seq(Table)
  BY DEF RuntimeTables, ProductTables, Table, Rebuilt, Supplied, Widened, Moved
<1>2. /\ RuntimeTables[1] = "artifacts" /\ RuntimeTables[3] = "revisions"
      /\ RuntimeTables[4] = "approvals" /\ RuntimeTables[5] = "exports"
      /\ {1, 3, 4, 5} \subseteq DOMAIN RuntimeTables
  BY DEF RuntimeTables
<1> QED
  BY <1>1, <1>2 DEF Rebuilt

\* A record of an opener stays one at another step.
LEMMA RecordType ==
    ASSUME NEW r \in Opening, NEW s \in Step
    PROVE  [r EXCEPT !.at = s] \in Opening
  BY DEF Opening

\* The records of openers at rest.
LEMMA ClosedType ==
    /\ Closed \in Opening
    /\ [Closed EXCEPT !.at = "failed"] \in Opening
    /\ [Closed EXCEPT !.at = "open"] \in Opening
<1>1. "runs" \in Table /\ {"closed", "failed", "open"} \subseteq Step
  BY DEF Table, Widened, Step
<1>2. <<>> \in Seq(Table)
  OBVIOUS
<1>3. Closed \in Opening
  BY <1>1, <1>2 DEF Closed, Opening
<1> QED
  BY <1>1, <1>2, <1>3, RecordType

LEMMA OnwardType ==
    ASSUME OpeningType, NEW o \in Openers
    PROVE  Onward(o) \in Opening
<1>1. "bindings" \in Table /\ {"creating", "open"} \subseteq Step
  BY DEF Table, Widened, Step
<1> QED
  BY <1>1, TableLists, ClosedType DEF Onward, OpeningType, Opening, Closed

LEMMA TypeStep == OpeningType /\ [Next]_vars => OpeningType'
<1> SUFFICES ASSUME OpeningType, [Next]_vars PROVE OpeningType'
  OBVIOUS
<1> USE OpenersAssumption, BoundsAssumption DEF OpeningType
<1>1. \A o \in Openers, s \in Step : Goto(o, s) => op' \in [Openers -> Opening]
  BY DEF Goto, Opening
<1>2. \A o \in Openers : Fail(o) => op' \in [Openers -> Opening]
  BY ClosedType DEF Fail
<1>3. ASSUME NEW o \in Openers, Open(o) \/ Refuse(o) \/ Apply(o) PROVE OpeningType'
  <2>1. CASE Open(o)
    BY <1>1, <2>1 DEF Open, Step
  <2>2. CASE Refuse(o)
    BY <1>2, <2>2 DEF Refuse
  <2>3. CASE Apply(o)
    BY <1>1, <2>3 DEF Apply, Migrated, Form, Step
  <2> QED
    BY <1>3, <2>1, <2>2, <2>3
<1>4. ASSUME NEW o \in Openers, Begin(o) PROVE OpeningType'
  <2>1. PICK b \in BOOLEAN :
           op' = [op EXCEPT ![o].at = "creating", ![o].fresh = b,
                            ![o].todo = RuntimeTables]
    BY <1>4 DEF Begin
  <2>2. op[o] \in Opening /\ "creating" \in Step
    BY DEF Step
  <2> DEFINE first == [op[o] EXCEPT !.at = "creating"]
             second == [first EXCEPT !.fresh = b]
  <2>3. first \in Opening
    BY <2>2, RecordType
  <2>4. second \in Opening
    <3> HIDE DEF first
    <3> QED
      BY <2>3 DEF Opening
  <2>5. [second EXCEPT !.todo = RuntimeTables] \in Opening
    <3> HIDE DEF second
    <3> QED
      BY <2>4, TableLists DEF Opening
  <2>6. op' \in [Openers -> Opening]
    BY <2>1, <2>5
  <2> QED
    BY <1>4, <2>6 DEF Begin
<1>5. ASSUME NEW o \in Openers, Create(o) PROVE OpeningType'
  <2>1. op[o].todo \in Seq(Table) /\ op[o].todo # <<>>
    BY <1>5 DEF Create, Opening
  <2>2. Tail(op[o].todo) \in Seq(Table)
    BY <2>1
  <2>3. op' \in [Openers -> Opening]
    BY <1>5, <2>2 DEF Create, Opening
  <2> QED
    BY <1>5, <2>3 DEF Create, Form
<1>6. ASSUME NEW o \in Openers, Created(o) \/ Reviews(o) \/ CheckColumns(o) \/ Alter(o)
      PROVE OpeningType'
  <2>1. {"reviews", "columns", "altering", "gates", "beginning"} \subseteq Step
    BY DEF Step
  <2> QED
    BY <1>1, <1>2, <1>6, <2>1
    DEF Created, Reviews, CheckColumns, Alter, AfterColumns, Form
<1>7. ASSUME NEW o \in Openers, CheckGates(o) PROVE OpeningType'
  <2>1. "gates" \in Table /\ "renaming" \in Step
    BY DEF Table, Moved, Step
  <2>2. op' \in [Openers -> Opening]
    BY <1>7, <2>1, OnwardType DEF CheckGates, Opening
  <2> QED
    BY <1>7, <2>2 DEF CheckGates
<1>8. ASSUME NEW o \in Openers, BeginWrite(o) \/ MigrationRaises(o) PROVE OpeningType'
  BY <1>1, <1>2, <1>8 DEF BeginWrite, MigrationRaises, Step
<1>9. ASSUME NEW o \in Openers, Mark(o) \/ MarkMoved(o) PROVE OpeningType'
  BY <1>2, <1>9, ClosedType DEF Mark, MarkMoved
<1>10. ASSUME NEW o \in Openers, Move(o) PROVE OpeningType'
  <2>1. "attempts" \in Table /\ "renaming" \in Step
    BY DEF Table, Moved, Step
  <2>2. op' \in [Openers -> Opening]
    BY <1>10, <2>1 DEF Move, Opening
  <2> QED
    BY <1>10, <2>2 DEF Move
<1>11. ASSUME NEW o \in Openers, Rename(o) \/ Recreate(o) \/ Copy(o) PROVE OpeningType'
  BY <1>1, <1>2, <1>11 DEF Rename, Recreate, Copy, Form, Place, Step
<1>12. ASSUME NEW o \in Openers, Drop(o) PROVE OpeningType'
  <2>1. op' \in [Openers -> Opening]
    BY <1>12, OnwardType DEF Drop, Opening, Step
  <2> QED
    BY <1>12, <2>1 DEF Drop
<1>13. ASSUME NEW o \in Openers, Close(o) \/ LockTimesOut(o) PROVE OpeningType'
  BY <1>1, <1>2, <1>13 DEF Close, LockTimesOut, Step
<1>14. ASSUME NEW o \in Openers, Crash(o) PROVE OpeningType'
  BY <1>14, ClosedType DEF Crash
<1>15. CASE UNCHANGED vars
  BY <1>15 DEF vars
<1> QED
  BY <1>3, <1>4, <1>5, <1>6, <1>7, <1>8, <1>9, <1>10, <1>11, <1>12, <1>13, <1>14,
     <1>15 DEF Next, RuntimeOpening, ProductOpening, Script

-----------------------------------------------------------------------------
(* What a step of one opener leaves alone *)

Steps(o) ==
    \/ RuntimeOpening(o) \/ ProductOpening(o) \/ Script(o)
    \/ Close(o) \/ LockTimesOut(o) \/ Crash(o)

LEMMA OthersRest ==
    ASSUME OpeningType, NEW o \in Openers, Steps(o), NEW p \in Openers, p # o
    PROVE  op'[p] = op[p]
<1> USE DEF OpeningType
<1>1. CASE RuntimeOpening(o)
  BY <1>1 DEF RuntimeOpening, Open, Refuse, Apply, Begin, Create, Created, Reviews,
     CheckColumns, Alter, CheckGates, Goto, Fail
<1>2. CASE ProductOpening(o)
  BY <1>2 DEF ProductOpening, BeginWrite, Mark, MigrationRaises, Move, MarkMoved, Goto, Fail
<1>3. CASE Script(o)
  BY <1>3 DEF Script, Rename, Recreate, Copy, Drop, Goto, Fail
<1>4. CASE Close(o) \/ LockTimesOut(o) \/ Crash(o)
  BY <1>4 DEF Close, LockTimesOut, Crash, Goto, Fail
<1> QED
  BY <1>1, <1>2, <1>3, <1>4 DEF Steps

\* No step makes a rebuilt table old, or takes a current one away.
LEMMA TablesLast ==
    ASSUME OpeningType, ScriptInv, NEW o \in Openers, Steps(o), NEW t \in Rebuilt
    PROVE  /\ table[t] = "current" => table'[t] = "current"
           /\ table[t] # "old" => table'[t] # "old"
<1> USE DEF OpeningType
<1>1. t \in Table /\ t \notin Moved
  BY DEF Table, Rebuilt, Moved
<1>2. CASE RuntimeOpening(o)
  BY <1>1, <1>2 DEF RuntimeOpening, Open, Refuse, Apply, Begin, Create, Created, Reviews,
     CheckColumns, Alter, CheckGates, Migrated
<1>3. CASE ProductOpening(o)
  BY <1>3 DEF ProductOpening, BeginWrite, Mark, MigrationRaises, Move, MarkMoved
<1>4. CASE Script(o)
  <2>1. At(o, "renaming") \/ InScript(o) => op[o].part \in Moved
    BY DEF ScriptInv
  <2> QED
    BY <1>1, <1>4, <2>1 DEF Script, Rename, Recreate, Copy, Drop, At, InScript
<1>5. CASE Close(o) \/ LockTimesOut(o) \/ Crash(o)
  BY <1>5 DEF Close, LockTimesOut, Crash
<1> QED
  BY <1>2, <1>3, <1>4, <1>5 DEF Steps

-----------------------------------------------------------------------------
(* The parts of the invariant, one after another *)

CreatingOf(o) ==
    /\ op[o].at \in {"starting", "creating"} => \A t \in Rebuilt : table[t] # "old"
    /\ At(o, "creating") =>
          \A t \in Rebuilt :
              table[t] = "current" \/ \E i \in DOMAIN op[o].todo : op[o].todo[i] = t
    /\ op[o].at \notin Early => \A t \in Rebuilt : table[t] = "current"

LEMMA CreatingParts == CreatingInv /\ WorksOnCurrent <=> \A o \in Openers : CreatingOf(o)
  BY DEF CreatingInv, WorksOnCurrent, CreatingOf, Early

LEMMA CreatingStep ==
    ASSUME OpeningInv, OpeningType', NEW o \in Openers, Steps(o), NEW p \in Openers
    PROVE  CreatingOf(p)'
<1>1. OpeningType /\ ScriptInv /\ CreatingOf(o) /\ CreatingOf(p)
  BY CreatingParts DEF OpeningInv
<1>2. \A t \in Rebuilt : /\ table[t] = "current" => table'[t] = "current"
                         /\ table[t] # "old" => table'[t] # "old"
  BY <1>1, TablesLast
<1>3. CASE p # o
  <2>1. op'[p] = op[p]
    BY <1>1, <1>3, OthersRest
  <2> QED
    BY <1>1, <1>2, <2>1 DEF CreatingOf, At
<1>4. CASE p = o /\ op[o].at \notin Early
  <2>1. \A t \in Rebuilt : table'[t] = "current"
    BY <1>1, <1>2, <1>4 DEF CreatingOf
  <2> QED
    BY <2>1, <1>4 DEF CreatingOf
<1>5. CASE p = o /\ op'[o].at \in {"closed", "failed", "applying"}
  BY <1>5 DEF CreatingOf, At, Early
<1>6. CASE Open(o) /\ p = o
  <2>1. op'[o].at = "starting" => table = Empty \/ Current
    BY <1>1, <1>6 DEF Open, Goto, OpeningType
  <2>2. op'[o].at \in {"applying", "starting"} /\ table' = table
    BY <1>1, <1>6 DEF Open, Goto, OpeningType
  <2>3. Rebuilt \subseteq Table
    BY DEF Table
  <2> QED
    BY <1>6, <2>1, <2>2, <2>3 DEF CreatingOf, Empty, Current, At, Early
<1>7. CASE Apply(o) /\ p = o
  <2>1. op'[o].at = "starting" /\ \A t \in Rebuilt : table'[t] = "current"
    BY <1>1, <1>7 DEF Apply, Migrated, Goto, OpeningType, Table
  <2> QED
    BY <1>7, <2>1 DEF CreatingOf, At, Early
<1>8. CASE Begin(o) /\ p = o
  <2>1. /\ op'[o].at = "creating" /\ op'[o].todo = RuntimeTables /\ table' = table
        /\ op[o].at = "starting"
    BY <1>1, <1>8 DEF Begin, OpeningType, Opening, At
  <2> QED
    BY <1>1, <1>8, <2>1, TableLists DEF CreatingOf, At, Early
<1>9. CASE Create(o) /\ p = o
  <2>1. op[o].todo \in Seq(Table) /\ op[o].todo # <<>> /\ op[o].at = "creating"
    BY <1>1, <1>9 DEF Create, OpeningType, Opening, At
  <2>2. op'[o].at = "creating" /\ op'[o].todo = Tail(op[o].todo)
    BY <1>1, <1>9, <2>1 DEF Create, OpeningType
  <2>3. \A t \in Rebuilt : table[t] # "old"
    BY <1>1, <2>1 DEF CreatingOf
  <2>4. ASSUME NEW t \in Rebuilt, t = Head(op[o].todo) PROVE table'[t] = "current"
    BY <1>1, <1>9, <2>3, <2>4 DEF Create, OpeningType, Form, Table
  <2>5. ASSUME NEW t \in Rebuilt, NEW i \in DOMAIN op[o].todo, op[o].todo[i] = t
        PROVE  table'[t] = "current" \/ \E k \in DOMAIN op'[o].todo : op'[o].todo[k] = t
    <3>1. CASE i = 1
      BY <2>1, <2>4, <2>5, <3>1
    <3>2. CASE i # 1
      <4>1. i - 1 \in DOMAIN Tail(op[o].todo) /\ Tail(op[o].todo)[i - 1] = t
        BY <2>1, <2>5, <3>2
      <4> QED
        BY <2>2, <4>1
    <3> QED
      BY <3>1, <3>2
  <2> QED
    BY <1>1, <1>2, <1>9, <2>1, <2>2, <2>3, <2>5 DEF CreatingOf, At, Early
<1>10. CASE Created(o) /\ p = o
  <2>1. op[o].at = "creating" /\ DOMAIN op[o].todo = {} /\ table' = table
    BY <1>10 DEF Created, At
  <2>2. op'[o].at \notin Early
    BY <1>1, <1>10 DEF Created, Goto, OpeningType, Early
  <2> QED
    BY <1>1, <1>10, <2>1, <2>2 DEF CreatingOf, At, Early
<1>11. CASE Refuse(o) \/ LockTimesOut(o) \/ Crash(o)
  <2>1. op'[o].at \in {"closed", "failed"}
    BY <1>1, <1>11 DEF Refuse, LockTimesOut, Crash, Fail, Closed, OpeningType
  <2> QED
    BY <1>3, <1>5, <2>1
<1>12. CASE p = o /\ op[o].at \in Early
  <2>1. \/ Open(o) \/ Refuse(o) \/ Apply(o) \/ Begin(o) \/ Create(o) \/ Created(o)
        \/ LockTimesOut(o) \/ Crash(o)
    BY <1>12 DEF Steps, RuntimeOpening, ProductOpening, Script, Reviews, CheckColumns,
       Alter, CheckGates, BeginWrite, Mark, MigrationRaises, Move, MarkMoved, Rename,
       Recreate, Copy, Drop, Close, At, Early
  <2> QED
    BY <1>6, <1>7, <1>8, <1>9, <1>10, <1>11, <1>12, <2>1
<1> QED
  BY <1>3, <1>4, <1>12

LEMMA WriterStep ==
    ASSUME OpeningInv, OpeningType', NEW o \in Openers, Steps(o)
    PROVE  WriterInv'
<1> USE OpenersAssumption DEF OpeningInv, OpeningType, WriterInv, At
<1>1. CASE UNCHANGED writer /\ (op[o].at # "marking" \/ writer # o)
  <2>1. ASSUME writer # Nobody PROVE op'[writer] = op[writer]
    BY <1>1, <2>1, OthersRest
  <2> QED
    BY <1>1, <2>1
<1>2. CASE BeginWrite(o)
  BY <1>2 DEF BeginWrite, Goto
<1>3. CASE Mark(o) \/ MigrationRaises(o) \/ Move(o)
  BY <1>3 DEF Mark, MigrationRaises, Move
<1>4. CASE Crash(o)
  <2>1. ASSUME writer # Nobody, writer # o PROVE op'[writer] = op[writer]
    BY <2>1, OthersRest
  <2> QED
    BY <1>4, <2>1 DEF Crash
<1>5. CASE LockTimesOut(o)
  BY <1>1, <1>5 DEF LockTimesOut
<1>6. CASE RuntimeOpening(o)
  BY <1>1, <1>6 DEF RuntimeOpening, Open, Refuse, Apply, Begin, Create, Created, Reviews,
     CheckColumns, Alter, CheckGates
<1>7. CASE MarkMoved(o) \/ Script(o) \/ Close(o)
  BY <1>1, <1>7 DEF MarkMoved, Script, Rename, Recreate, Copy, Drop, Close
<1> QED
  BY <1>2, <1>3, <1>4, <1>5, <1>6, <1>7 DEF Steps, ProductOpening

\* Where an opener stands when it has failed, ended or gone on.
LEMMA Standing ==
    ASSUME OpeningType, NEW o \in Openers
    PROVE  /\ Fail(o) => op'[o].at = "failed"
           /\ \A s \in Step : Goto(o, s) => op'[o].at = s /\ op'[o].part = op[o].part
           /\ Onward(o).at \in {"creating", "open"}
           /\ Closed.at = "closed" /\ [Closed EXCEPT !.at = "open"].at = "open"
<1>1. Closed.at = "closed" /\ [Closed EXCEPT !.at = "open"].at = "open"
  BY DEF Closed
<1>2. Fail(o) => op'[o].at = "failed"
  BY DEF Fail, Closed, OpeningType
<1>3. op[o] \in Opening
  BY DEF OpeningType
<1>4. \A s \in Step : Goto(o, s) => op'[o].at = s /\ op'[o].part = op[o].part
  BY <1>3 DEF Goto, OpeningType, Opening
<1>5. Onward(o).at \in {"creating", "open"}
  BY <1>1, <1>3 DEF Onward, Opening
<1> QED
  BY <1>1, <1>2, <1>4, <1>5

\* Where the script of a table leads.
LEMMA ScriptMoves ==
    ASSUME OpeningType, NEW o \in Openers, Steps(o)
    PROVE  /\ InScript(o)' => /\ op'[o].part = op[o].part
                              /\ Rename(o) \/ Recreate(o) \/ Copy(o)
           /\ At(o, "renaming")' => op'[o].part \in Moved
           /\ rows' # rows => Rename(o) \/ Copy(o) \/ Drop(o)
<1> USE Standing DEF OpeningType, InScript, At
<1>0. op[o] \in Opening /\ op'[o].at \in {"renaming", "recreating", "copying", "dropping"}
                          => op'[o].at \in Step
  BY DEF Step
<1>1. CASE Open(o) \/ Refuse(o) \/ Apply(o) \/ Created(o) \/ Reviews(o) \/ CheckColumns(o)
           \/ Alter(o) \/ BeginWrite(o) \/ MigrationRaises(o) \/ Close(o) \/ LockTimesOut(o)
  <2>1. op'[o].at \in {"applying", "starting", "reviews", "columns", "altering", "gates",
                      "beginning", "marking", "closed", "failed"}
    BY <1>1 DEF Open, Refuse, Apply, Created, Reviews, CheckColumns, Alter, AfterColumns,
       BeginWrite, MigrationRaises, Close, LockTimesOut, Step
  <2> QED
    BY <1>1, <2>1 DEF Open, Refuse, Apply, Created, Reviews, CheckColumns, Alter,
       BeginWrite, MigrationRaises, Close, LockTimesOut
<1>2. CASE Begin(o) \/ Create(o)
  <2>1. op'[o].at \in {"starting", "creating"}
    BY <1>2 DEF Begin, Create, Opening
  <2> QED
    BY <1>2, <2>1 DEF Begin, Create
<1>3. CASE CheckGates(o) \/ Move(o)
  <2>1. /\ op'[o].at \in {"renaming", "creating", "open"}
        /\ op'[o].at = "renaming" => op'[o].part \in {"gates", "attempts"}
    <3>1. CASE Move(o)
      BY <3>1 DEF Move, Opening
    <3>2. CASE CheckGates(o) /\ table["gates"] = "old"
      BY <3>2 DEF CheckGates, Opening
    <3>3. CASE CheckGates(o) /\ table["gates"] # "old"
      <4>1. op'[o] = Onward(o)
        BY <3>3 DEF CheckGates
      <4> QED
        BY <4>1
    <3> QED
      BY <1>3, <3>1, <3>2, <3>3
  <2> QED
    BY <1>3, <2>1 DEF CheckGates, Move, Moved
<1>4. CASE Mark(o) \/ MarkMoved(o) \/ Crash(o)
  <2>1. op'[o].at \in {"open", "failed", "closed"}
    BY <1>4 DEF Mark, MarkMoved, Crash
  <2> QED
    BY <1>4, <2>1 DEF Mark, MarkMoved, Crash
<1>5. CASE Rename(o) \/ Recreate(o) \/ Copy(o)
  <2>1. op'[o].at = "failed" \/ (op'[o].at # "renaming" /\ op'[o].part = op[o].part)
    BY <1>5 DEF Rename, Recreate, Copy, Step
  <2> QED
    BY <1>5, <2>1 DEF Recreate
<1>6. CASE Drop(o)
  <2>1. op'[o].at \in {"remarking", "creating", "open"}
    BY <1>6 DEF Drop, Opening
  <2> QED
    BY <1>6, <2>1
<1> QED
  BY <1>1, <1>2, <1>3, <1>4, <1>5, <1>6 DEF Steps, RuntimeOpening, ProductOpening, Script

\* The rows of a table that somebody else moves stay where they are.
LEMMA RowsOfOthers ==
    ASSUME OpeningInv, NEW o \in Openers, Steps(o), NEW p \in Openers, p # o, InScript(p)
    PROVE  rows'[op[p].part] = rows[op[p].part]
<1> USE DEF OpeningInv, OpeningType, ScriptInv, At
<1>1. op[p].part \in Moved /\ "aside" \in rows[op[p].part]
  OBVIOUS
<1>2. CASE Rename(o)
  BY <1>1, <1>2 DEF Rename
<1>3. CASE Copy(o) \/ Drop(o)
  <2>1. op[o].part # op[p].part
    BY <1>3 DEF Copy, Drop, InScript
  <2> QED
    BY <1>1, <1>3, <2>1 DEF Copy, Drop
<1> QED
  BY <1>2, <1>3, ScriptMoves

ScriptOf(o) ==
    /\ At(o, "renaming") \/ InScript(o) => op[o].part \in Moved
    /\ InScript(o) => "aside" \in rows[op[o].part]
    /\ At(o, "dropping") => "table" \in rows[op[o].part]

Apart(o, p) == InScript(o) /\ InScript(p) /\ o # p => op[o].part # op[p].part

LEMMA ScriptStep ==
    ASSUME OpeningInv, OpeningType', NEW o \in Openers, Steps(o)
    PROVE  ScriptInv'
<1> USE DEF OpeningInv, OpeningType
<1>1. \A p \in Openers : p # o => op'[p] = op[p]
  BY OthersRest
<1>2. ASSUME NEW p \in Openers, p # o PROVE ScriptOf(p)'
  <2>1. CASE InScript(p)
    <3>1. rows'[op[p].part] = rows[op[p].part]
      BY <1>2, <2>1, RowsOfOthers
    <3> QED
      BY <1>1, <1>2, <3>1 DEF ScriptInv, ScriptOf, InScript, At
  <2>2. CASE ~InScript(p)
    BY <1>1, <1>2, <2>2 DEF ScriptInv, ScriptOf, InScript, At
  <2> QED
    BY <2>1, <2>2
<1>3. ScriptOf(o)'
  <2>1. CASE InScript(o)'
    <3>1. op[o].part \in Moved /\ op'[o].part = op[o].part
      BY <2>1, ScriptMoves DEF ScriptInv, Rename, Recreate, Copy, At, InScript
    <3>2. CASE Rename(o)
      <4>1. op'[o].at = "recreating" /\ rows' = [rows EXCEPT ![op[o].part] = {"aside"}]
        BY <2>1, <3>2, Standing DEF Rename, InScript, Step
      <4> QED
        BY <3>1, <4>1 DEF ScriptOf, InScript, At
    <3>3. CASE Recreate(o)
      <4>1. op'[o].at = "copying" /\ rows' = rows
        BY <2>1, <3>3, Standing DEF Recreate, InScript, Step
      <4>2. "aside" \in rows[op[o].part]
        BY <3>3 DEF Recreate, ScriptInv, InScript, At
      <4> QED
        BY <3>1, <4>1, <4>2 DEF ScriptOf, InScript, At
    <3>4. CASE Copy(o)
      <4>1. /\ op'[o].at = "dropping"
            /\ rows' = [rows EXCEPT ![op[o].part] = @ \cup {"table"}]
        BY <3>4, Standing DEF Copy, Step
      <4>2. "aside" \in rows[op[o].part]
        BY <3>4 DEF Copy, ScriptInv, InScript, At
      <4> QED
        BY <3>1, <4>1, <4>2 DEF ScriptOf, InScript, At
    <3> QED
      BY <2>1, <3>2, <3>3, <3>4, ScriptMoves
  <2>2. CASE ~InScript(o)'
    BY <2>2, ScriptMoves DEF ScriptOf, InScript, At
  <2> QED
    BY <2>1, <2>2
<1>4. ASSUME NEW p \in Openers, p # o PROVE Apart(o, p)' /\ Apart(p, o)'
  <2>1. CASE InScript(o)
    BY <1>1, <1>4, <2>1, ScriptMoves DEF ScriptInv, Apart, InScript
  <2>2. CASE ~InScript(o) /\ InScript(o)' /\ InScript(p)
    <3>1. Rename(o) /\ op'[o].part = op[o].part
      BY <2>2, ScriptMoves DEF Recreate, Copy, InScript, At
    <3>2. "aside" \notin rows[op[o].part]
      BY <2>2, <3>1, Standing DEF Rename, InScript
    <3>3. "aside" \in rows[op[p].part]
      BY <2>2 DEF ScriptInv
    <3> QED
      BY <1>1, <1>4, <3>1, <3>2, <3>3 DEF Apart
  <2>3. CASE ~InScript(o)' \/ ~InScript(p)
    BY <1>1, <1>4, <2>3 DEF Apart, InScript
  <2> QED
    BY <2>1, <2>2, <2>3
<1>5. ASSUME NEW p \in Openers, NEW q \in Openers PROVE Apart(p, q)'
  <2>1. CASE p # o /\ q # o
    BY <1>1, <2>1 DEF ScriptInv, Apart, InScript
  <2> QED
    BY <1>4, <2>1 DEF Apart
<1> QED
  BY <1>2, <1>3, <1>5 DEF ScriptInv, ScriptOf, Apart

\* Undisturbed, an opener at work has the database for itself.
LEMMA AloneStep ==
    ASSUME OpeningInv, OpeningType', NEW o \in Openers, Steps(o)
    PROVE  AloneInv'
<1> SUFFICES ASSUME Undisturbed' PROVE AloneInv'
  BY DEF AloneInv
<1> USE DEF OpeningInv, OpeningType
<1>1. \A p \in Openers : p # o => op'[p] = op[p]
  BY OthersRest
<1>2. CASE Open(o)
  <2>1. Undisturbed /\ \A p \in Openers : AtRest(p)
    BY <1>2 DEF Open, Undisturbed
  <2>2. table' = table /\ rows' = rows /\ ~At(o, "recreating")'
    BY <1>2, Standing DEF Open, Step, At
  <2>3. \A p \in Openers : ~InScript(p)
    BY <2>1 DEF AtRest, InScript
  <2>4. \A m \in Moved : "aside" \notin rows[m]
    BY <2>1, <2>3 DEF AloneInv
  <2> QED
    BY <1>1, <2>1, <2>2, <2>3, <2>4 DEF AloneInv, AtRest, InScript, At
<1>3. CASE ~Open(o)
  <2>1. ~Crash(o) /\ Undisturbed
    BY <1>3 DEF Undisturbed, Steps, RuntimeOpening, ProductOpening, Script, Crash, Refuse,
       Apply, Begin, Create, Created, Reviews, CheckColumns, Alter, CheckGates,
       BeginWrite, Mark, MigrationRaises, Move, MarkMoved, Rename, Recreate, Copy, Drop,
       Close, LockTimesOut
  <2>2. AtRest(o) => Close(o)
    BY <1>3, <2>1 DEF Steps, RuntimeOpening, ProductOpening, Script, Refuse,
       Apply, Begin, Create, Created, Reviews, CheckColumns, Alter, CheckGates,
       BeginWrite, Mark, MigrationRaises, Move, MarkMoved, Rename, Recreate, Copy, Drop,
       LockTimesOut, Writes, At, AtRest
  <2>3. ~AtRest(o) => \A p \in Openers : p # o => AtRest(p)
    BY <2>1 DEF AloneInv
  <2>4. \A p, q \in Openers : p # q => AtRest(p)' \/ AtRest(q)'
    <3>1. CASE AtRest(o)
      <4>1. AtRest(o)'
        BY <2>2, <3>1, Standing DEF Close, Step, AtRest
      <4> QED
        BY <1>1, <2>1, <4>1 DEF AloneInv, AtRest
    <3>2. CASE ~AtRest(o)
      BY <1>1, <2>3, <3>2 DEF AtRest
    <3> QED
      BY <3>1, <3>2
  <2>5. ~LockTimesOut(o)
    <3> SUFFICES ASSUME LockTimesOut(o) PROVE FALSE
      OBVIOUS
    <3>1. writer \in Openers /\ writer # o /\ At(writer, "marking") /\ ~AtRest(o)
      BY <2>2, Standing DEF LockTimesOut, WriterInv, Writes, AtRest, At
    <3> QED
      BY <2>3, <3>1 DEF AtRest, At
  <2>6. At(o, "recreating") => table[op[o].part] = "none"
    BY <2>1 DEF AloneInv
  <2>7. CASE AtRest(o)
    <3>1. Close(o) /\ ~InScript(o)' /\ ~At(o, "recreating")' /\ ~InScript(o)
      BY <2>2, <2>7, Standing DEF Close, Step, InScript, At
    <3>2. rows' = rows /\ table' = table
      BY <3>1 DEF Close
    <3> QED
      BY <1>1, <2>1, <2>4, <3>1, <3>2 DEF AloneInv, InScript, At
  <2>8. CASE ~AtRest(o)
    <3>1. \A p \in Openers : p # o => ~InScript(p) /\ ~InScript(p)' /\ ~At(p, "recreating")'
      BY <1>1, <2>3, <2>8 DEF AtRest, InScript, At
    <3>2. \A m \in Moved : "aside" \in rows[m] => InScript(o) /\ op[o].part = m
      BY <2>1, <3>1 DEF AloneInv
    <3>3. /\ \A m \in Moved : "aside" \in rows'[m] => InScript(o)' /\ op'[o].part = m
          /\ At(o, "recreating")' => table'[op'[o].part] = "none"
      <4>1. At(o, "renaming") \/ InScript(o) => op[o].part \in Moved
        BY DEF ScriptInv
      <4>2. Moved \subseteq Table
        BY DEF Table
      <4>3. CASE Rename(o)
        <5>1. ~InScript(o) /\ op[o].part \in Moved
          BY <4>1, <4>3 DEF Rename, InScript, At
        <5>2. \A m \in Moved : "aside" \notin rows[m]
          BY <3>2, <5>1
        <5>3. CASE table[op[o].part] = "none"
          <6>1. rows' = rows /\ op'[o].at = "failed"
            BY <4>3, <5>3, Standing DEF Rename
          <6> QED
            BY <5>2, <6>1 DEF At
        <5>4. CASE table[op[o].part] # "none"
          <6>1. /\ rows' = [rows EXCEPT ![op[o].part] = {"aside"}]
                /\ table' = [table EXCEPT ![op[o].part] = "none"]
                /\ op'[o].at = "recreating" /\ op'[o].part = op[o].part
            BY <4>3, <5>1, <5>2, <5>4, Standing DEF Rename, Step
          <6> QED
            BY <4>2, <5>1, <5>2, <6>1 DEF InScript
        <5> QED
          BY <5>3, <5>4
      <4>4. CASE Recreate(o)
        <5>1. rows' = rows /\ op'[o].at = "copying" /\ op'[o].part = op[o].part
          BY <2>6, <4>4, Standing DEF Recreate, Step
        <5> QED
          BY <3>2, <5>1 DEF InScript, At
      <4>5. CASE Copy(o)
        <5>1. /\ rows' = [rows EXCEPT ![op[o].part] = @ \cup {"table"}]
              /\ op'[o].at = "dropping" /\ op'[o].part = op[o].part
          BY <4>5, Standing DEF Copy, Step
        <5>2. \A m \in Moved : "aside" \in rows'[m] => "aside" \in rows[m]
          BY <5>1
        <5> QED
          BY <3>2, <5>1, <5>2 DEF InScript, At
      <4>6. CASE Drop(o)
        <5>1. op[o].part \in Moved /\ InScript(o)
          BY <4>1, <4>6 DEF Drop, InScript, At
        <5>2. rows' = [rows EXCEPT ![op[o].part] = @ \ {"aside"}]
          BY <4>6 DEF Drop
        <5>3. \A m \in Moved : "aside" \notin rows'[m]
          BY <3>2, <5>1, <5>2
        <5>4. ~At(o, "recreating")'
          BY <4>6, ScriptMoves DEF Drop, Rename, Recreate, Copy, InScript, At
        <5> QED
          BY <5>3, <5>4
      <4>7. CASE ~(Rename(o) \/ Recreate(o) \/ Copy(o) \/ Drop(o))
        <5>1. rows' = rows /\ ~InScript(o)' /\ ~At(o, "recreating")'
          BY <4>7, ScriptMoves DEF InScript, At
        <5>2. ~InScript(o)
          BY <2>1, <2>5, <4>7 DEF Steps, RuntimeOpening, ProductOpening, Script, Open,
             Refuse, Apply, Begin, Create, Created, Reviews, CheckColumns, Alter,
             CheckGates, BeginWrite, Mark, MigrationRaises, Move, MarkMoved, Close, At,
             InScript
        <5> QED
          BY <3>2, <5>1, <5>2
      <4> QED
        BY <4>3, <4>4, <4>5, <4>6, <4>7
    <3> QED
      BY <2>4, <3>1, <3>3 DEF AloneInv
  <2> QED
    BY <2>7, <2>8
<1> QED
  BY <1>2, <1>3

\* Only a death, or an opening still at it, leaves the tables of a creation half
\* made.
LEMMA RefusedStep ==
    ASSUME OpeningInv, OpeningType', NEW o \in Openers, Steps(o),
           WorksOnCurrent'
    PROVE  RefusedAfterDeath'
<1> USE DEF OpeningInv, OpeningType
<1> SUFFICES ASSUME table' # Empty, NEW t \in Rebuilt, table'[t] = "none", ~(crashes > 0)'
             PROVE  \E p \in Openers : At(p, "creating")'
  BY DEF RefusedAfterDeath, At
<1>1. \A p \in Openers : p # o => op'[p] = op[p]
  BY OthersRest
<1>2. op'[o].at \in Early /\ ~(crashes > 0)
  <2>1. op'[o].at \in Early
    BY DEF WorksOnCurrent, Early
  <2>2. crashes' = crashes \/ crashes' = crashes + 1
    BY DEF Steps, RuntimeOpening, ProductOpening, Script, Crash, Open, Refuse,
       Apply, Begin, Create, Created, Reviews, CheckColumns, Alter, CheckGates,
       BeginWrite, Mark, MigrationRaises, Move, MarkMoved, Rename, Recreate, Copy, Drop,
       Close, LockTimesOut
  <2> QED
    BY <2>1, <2>2
<1>3. table[t] # "current"
  BY TablesLast
<1>4. op[o].at \in Early
  BY <1>3 DEF WorksOnCurrent, Early
<1>5. CASE op'[o].at = "creating"
  BY <1>5 DEF At
<1>6. CASE op'[o].at # "creating"
  <2>1. Open(o) \/ Refuse(o) \/ Apply(o) \/ LockTimesOut(o)
    <3>1. \/ Open(o) \/ Refuse(o) \/ Apply(o) \/ Begin(o) \/ Create(o) \/ Created(o)
          \/ LockTimesOut(o) \/ Crash(o)
      BY <1>4 DEF Steps, RuntimeOpening, ProductOpening, Script, Reviews, CheckColumns,
         Alter, CheckGates, BeginWrite, Mark, MigrationRaises, Move, MarkMoved, Rename,
         Recreate, Copy, Drop, Close, At, Early
    <3>2. ~Begin(o) /\ ~Create(o)
      BY <1>6 DEF Begin, Create, At, Opening
    <3>3. ~Created(o)
      BY <1>2, Standing DEF Created, Step, Early
    <3>4. ~Crash(o)
      BY DEF Crash
    <3> QED
      BY <3>1, <3>2, <3>3, <3>4
  <2>2. ~Apply(o)
    BY DEF Apply, Migrated, Table
  <2>3. table' = table
    BY <2>1, <2>2 DEF Open, Refuse, LockTimesOut
  <2>4. PICK p \in Openers : At(p, "creating")
    BY <1>2, <2>3 DEF RefusedAfterDeath
  <2>5. p # o
    <3> SUFFICES ASSUME p = o PROVE FALSE
      OBVIOUS
    <3>1. LockTimesOut(o)
      BY <2>1, <2>2, <2>4 DEF Open, Refuse, At
    <3>2. writer \in Openers /\ At(writer, "marking")
      BY <3>1 DEF LockTimesOut, WriterInv
    <3> QED
      BY <1>3, <3>2 DEF WorksOnCurrent, At
  <2> QED
    BY <1>1, <2>4, <2>5 DEF At
<1> QED
  BY <1>5, <1>6

-----------------------------------------------------------------------------
(* The theorems *)

LEMMA OpeningStart == Init => OpeningInv
<1> SUFFICES ASSUME Init PROVE OpeningInv
  OBVIOUS
<1> USE OpenersAssumption, BoundsAssumption DEF Init
<1>1. /\ Rebuilt \subseteq Table /\ Moved \subseteq Table
      /\ "reviews" \notin Rebuilt \cup Moved
      /\ Rebuilt \cap (Moved \cup Widened) = {}
  BY DEF Table, Rebuilt, Moved, Widened
<1>2. OpeningType
  <2>1. table \in [Table -> Form]
    BY DEF Empty, PhaseTwo, BeforeCutover, Form
  <2>2. rows \in [Moved -> SUBSET Place]
    BY DEF Place
  <2> QED
    BY <2>1, <2>2, ClosedType DEF OpeningType
<1>3. \A o \in Openers : op[o].at = "closed"
  BY DEF Closed
<1>4. \A m \in Moved : "aside" \notin rows[m]
  OBVIOUS
<1>5. RefusedAfterDeath
  <2>1. table # Empty => \A t \in Rebuilt : table[t] # "none"
    BY <1>1 DEF PhaseTwo, BeforeCutover, Rebuilt
  <2> QED
    BY <2>1 DEF RefusedAfterDeath
<1>6. CreatingInv /\ WorksOnCurrent /\ ScriptInv
  BY <1>3 DEF CreatingInv, WorksOnCurrent, ScriptInv, InScript, At
<1>7. AloneInv
  BY <1>3, <1>4 DEF AloneInv, AtRest, At
<1> QED
  BY <1>2, <1>5, <1>6, <1>7 DEF OpeningInv, WriterInv

LEMMA OpeningStep == OpeningInv /\ [Next]_vars => OpeningInv'
<1> SUFFICES ASSUME OpeningInv, [Next]_vars PROVE OpeningInv'
  OBVIOUS
<1>1. OpeningType'
  BY TypeStep DEF OpeningInv
<1>2. ASSUME NEW o \in Openers, Steps(o) PROVE OpeningInv'
  <2>1. CreatingInv' /\ WorksOnCurrent'
    <3>1. \A p \in Openers : CreatingOf(p)'
      BY <1>1, <1>2, CreatingStep
    <3> QED
      BY <3>1 DEF CreatingInv, WorksOnCurrent, CreatingOf, Early
  <2>2. WriterInv' /\ ScriptInv' /\ AloneInv'
    BY <1>1, <1>2, WriterStep, ScriptStep, AloneStep
  <2>3. RefusedAfterDeath'
    BY <1>1, <1>2, <2>1, RefusedStep
  <2> QED
    BY <1>1, <2>1, <2>2, <2>3 DEF OpeningInv
<1>3. CASE UNCHANGED vars
  BY <1>3 DEF vars, OpeningInv, OpeningType, CreatingInv, WorksOnCurrent, WriterInv,
     ScriptInv, AloneInv, RefusedAfterDeath, Undisturbed, InScript, AtRest, At
<1> QED
  BY <1>2, <1>3 DEF Next, Steps

\* The inductive invariant holds of the opening of runtime.db (store.py of both
\* packages), however many processes open it and die at it.
THEOREM OpeningInvariant == Spec => []OpeningInv
<1> QED
  BY OpeningStart, OpeningStep, PTL DEF Spec

\* RuntimeStore.__init__ never gets past a database that shot_prompt_migration
\* should have rebuilt, also when several look at it at once.
THEOREM CurrentTables == Spec => []WorksOnCurrent
<1>1. OpeningInv => WorksOnCurrent
  BY DEF OpeningInv
<1> QED
  BY <1>1, OpeningInvariant, PTL

\* The database that apply_phase3_store_migration refuses for good comes from a
\* death during its first creation, and from nothing else.
THEOREM RefusedOnlyAfterDeath == Spec => []RefusedAfterDeath
<1>1. OpeningInv => RefusedAfterDeath
  BY DEF OpeningInv
<1> QED
  BY <1>1, OpeningInvariant, PTL

\* Openings that neither die nor overlap bring every row that a script has moved
\* aside back to its table.
THEOREM RowsReturn == Spec => []RowsComeBack
<1>1. OpeningInv => RowsComeBack
  <2> SUFFICES ASSUME OpeningInv, NEW m \in Moved, rows[m] \notin {{}, {"table"}},
                      ~(crashes > 0), ~overlapped
               PROVE  \E o \in Openers : InScript(o) /\ op[o].part = m
    BY DEF RowsComeBack, InScript
  <2>1. "aside" \in rows[m]
    BY DEF OpeningInv, OpeningType, Place
  <2>2. Undisturbed
    BY DEF Undisturbed, OpeningInv, OpeningType
  <2> QED
    BY <2>1, <2>2 DEF OpeningInv, AloneInv
<1> QED
  BY <1>1, OpeningInvariant, PTL

\* No death and no other opener makes the scripts of _ensure_columns and of
\* _apply_m6c_submission_state_migration lose the rows they move: what is dropped
\* was copied.
THEOREM NoRowLost == Spec => RowsAreKept
<1>1. ASSUME OpeningInv, [Next]_vars, NEW m \in Moved, rows[m] # {} PROVE rows'[m] # {}
  <2>1. CASE rows' = rows
    BY <1>1, <2>1
  <2>2. CASE rows' # rows
    <3>1. PICK o \in Openers : Steps(o)
      BY <1>1, <2>2 DEF Next, Steps, vars
    <3>2. Rename(o) \/ Copy(o) \/ Drop(o)
      BY <1>1, <2>2, <3>1, ScriptMoves DEF OpeningInv
    <3>3. Drop(o) => "table" \in rows[op[o].part]
      BY <1>1 DEF Drop, OpeningInv, ScriptInv
    <3> QED
      BY <1>1, <3>2, <3>3 DEF Rename, Copy, Drop, OpeningInv, OpeningType
  <2> QED
    BY <2>1, <2>2
<1>2. OpeningInv /\ [Next]_vars => [\A m \in Moved : rows[m] # {} => rows'[m] # {}]_vars
  BY <1>1
<1> QED
  BY <1>2, OpeningInvariant, PTL DEF Spec, RowsAreKept
=============================================================================
