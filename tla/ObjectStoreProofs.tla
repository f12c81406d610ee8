-------------------------- MODULE ObjectStoreProofs --------------------------
(***************************************************************************)
(* Proofs about ObjectStore, for any contents, writers and bounds.         *)
(***************************************************************************)
EXTENDS ObjectStore, TLAPS

(***************************************************************************)
(* The inductive invariant.  A row is committed from the step "row" only,  *)
(* so the file must be there from the moment a writer has found or made    *)
(* it; it stays there because the tools run alone, because a sweep's plan  *)
(* names no referenced object, and because only a consistent backup is     *)
(* restored.                                                               *)
(***************************************************************************)
WritersHold ==
    \A w \in Writers : op[w].step \in {"fill", "row"} => file[op[w].object] # "none"

ToolAlone == tool # NoTool => \A w \in Writers : op[w] = Idle

SweepIsOfGarbage ==
    tool.step = "sweep" =>
        \A o \in tool.todo : file[o] = "whole" /\ \A w \in Writers : <<w, o>> \notin rows

\* Until somebody dies, a short file has a writer at it, so that none is copied.
TornFits ==
    crashes = 0 =>
        /\ \A o \in Objects : file[o] = "torn" =>
               \E w \in Writers : op[w] = [step |-> "fill", object |-> o]
        /\ \A o \in Objects : tool.copy.file[o] # "torn"
        /\ \A b \in backups, o \in Objects : b.data.file[o] # "torn"

BackupsConsistent ==
    \A b \in backups : \A r \in b.data.rows : b.data.file[r[2]] = "whole"

StoreInv ==
    /\ TypeOK /\ ReferencesResolve
    /\ WritersHold /\ ToolAlone /\ TornFits /\ SweepIsOfGarbage
    /\ BackupsConsistent /\ CollectedIsSaved

-----------------------------------------------------------------------------
\* An inventory is one of Inventories, whatever the files and rows are.
LEMMA InventoryType == TypeOK => Inventory \in Inventories /\ Nothing \in Inventories
  BY StoreAssumption DEF TypeOK, Inventory, Inventories, Nothing

LEMMA TypeInit == Init => TypeOK
<1> SUFFICES ASSUME Init PROVE TypeOK
  OBVIOUS
<1>1. Nothing \in Inventories
  BY StoreAssumption DEF Nothing, Inventories
<1> QED
  BY <1>1, StoreAssumption DEF Init, TypeOK, Nothing, Idle, NoTool

LEMMA TypeStep == TypeOK /\ [Next]_vars => TypeOK'
<1> SUFFICES ASSUME TypeOK, [Next]_vars PROVE TypeOK'
  OBVIOUS
<1> USE StoreAssumption DEF TypeOK, Kept
<1>1. ASSUME NEW w \in Writers, NEW o \in Objects, WriteObject(w, o) PROVE TypeOK'
  BY <1>1 DEF WriteObject
<1>2. ASSUME NEW w \in Writers, NEW o \in Objects, DeleteRow(w, o) PROVE TypeOK'
  BY <1>2 DEF DeleteRow
<1>3. ASSUME NEW w \in Writers, CreateFile(w) PROVE TypeOK'
  BY <1>3 DEF CreateFile, Goto, Return, Idle
<1>4. ASSUME NEW w \in Writers, FillFile(w) PROVE TypeOK'
  BY <1>4 DEF FillFile, Goto
<1>5. ASSUME NEW w \in Writers, CommitRow(w) PROVE TypeOK'
  BY <1>5 DEF CommitRow, Return, Idle
<1>6. ASSUME NEW w \in Writers, CommitFails(w) \/ WriterDies(w) PROVE TypeOK'
  BY <1>6 DEF CommitFails, WriterDies, Return, Idle
<1>7. CASE BackupDatabase
  BY <1>7, InventoryType DEF BackupDatabase, Inventories, Nothing
<1>8. ASSUME NEW o \in Objects, CopyFile(o) PROVE TypeOK'
  <2>1. tool'.copy \in Inventories
    BY <1>8 DEF CopyFile, Inventories
  <2> QED
    BY <1>8, <2>1 DEF CopyFile
<1>9. CASE FinishBackup
  BY <1>9, InventoryType DEF FinishBackup, NoTool
<1>10. ASSUME NEW b \in backups, Sweep(b) PROVE TypeOK'
  BY <1>10, InventoryType DEF Sweep, Candidates
<1>11. ASSUME NEW o \in Objects, Unlink(o) PROVE TypeOK'
  BY <1>11 DEF Unlink
<1>12. CASE FinishSweep \/ ToolDies
  BY <1>12, InventoryType DEF FinishSweep, ToolDies, NoTool
<1>13. ASSUME NEW b \in backups, Restore(b) PROVE TypeOK'
  BY <1>13 DEF Restore, Inventories
<1>14. CASE UNCHANGED vars
  BY <1>14 DEF vars
<1> QED
  BY <1>1, <1>2, <1>3, <1>4, <1>5, <1>6, <1>7, <1>8, <1>9, <1>10, <1>11, <1>12,
     <1>13, <1>14 DEF Next, Write, Maintain

\* A writer at work has no tool beside it.
LEMMA Alone == ToolAlone => \A w \in Writers : op[w] # Idle => tool = NoTool
  BY DEF ToolAlone

\* So no file is short while a tool runs, unless somebody died.
LEMMA CopiedIsWhole ==
    ASSUME StoreInv, tool # NoTool, crashes = 0, NEW o \in Objects
    PROVE  file[o] # "torn"
<1>1. \A w \in Writers : op[w].step = "idle"
  BY DEF StoreInv, ToolAlone, Idle
<1>2. ~ \E w \in Writers : op[w] = [step |-> "fill", object |-> o]
  BY <1>1
<1> QED
  BY <1>2 DEF StoreInv, TornFits

LEMMA StoreStep == StoreInv /\ [Next]_vars => StoreInv'
<1> SUFFICES ASSUME StoreInv, [Next]_vars PROVE StoreInv'
  OBVIOUS
<1>0. TypeOK /\ TypeOK'
  BY TypeStep DEF StoreInv
<1> DEFINE Rest == /\ ReferencesResolve /\ WritersHold /\ ToolAlone /\ TornFits
                   /\ SweepIsOfGarbage /\ BackupsConsistent /\ CollectedIsSaved
<1> SUFFICES Rest'
  BY <1>0 DEF StoreInv
<1> USE <1>0, StoreAssumption
    DEF TypeOK, StoreInv, Kept, ReferencesResolve, WritersHold, ToolAlone,
        TornFits, SweepIsOfGarbage, BackupsConsistent, CollectedIsSaved, NoTool, Idle
<1>1. ASSUME NEW w \in Writers, NEW o \in Objects, WriteObject(w, o) PROVE Rest'
  BY <1>1 DEF WriteObject
<1>2. ASSUME NEW w \in Writers, NEW o \in Objects, DeleteRow(w, o) PROVE Rest'
  BY <1>2 DEF DeleteRow
<1>3. ASSUME NEW w \in Writers, CreateFile(w) PROVE Rest'
  BY <1>3 DEF CreateFile, Goto, Return
<1>4. ASSUME NEW w \in Writers, FillFile(w) PROVE Rest'
  BY <1>4 DEF FillFile, Goto
<1>5. ASSUME NEW w \in Writers, CommitRow(w) PROVE Rest'
  BY <1>5 DEF CommitRow, Return
<1>6. ASSUME NEW w \in Writers, CommitFails(w) \/ WriterDies(w) PROVE Rest'
  BY <1>6 DEF CommitFails, WriterDies, Return
<1>7. CASE BackupDatabase
  <2>1. Nothing \in Inventories /\ \A o \in Objects : Nothing.file[o] = "none"
    BY InventoryType DEF Nothing
  <2>2. \A o \in Objects : tool'.copy.file[o] = "none"
    BY <1>7, <2>1 DEF BackupDatabase, Nothing
  <2> QED
    BY <1>7, <2>2 DEF BackupDatabase, Quiet
<1>8. ASSUME NEW o \in Objects, CopyFile(o) PROVE Rest'
  <2>1. tool'.copy.file = [tool.copy.file EXCEPT ![o] = file[o]] /\ tool'.step = "backup"
    BY <1>8 DEF CopyFile, Inventories
  <2>2. tool # NoTool
    BY <1>8 DEF CopyFile
  <2>3. crashes = 0 => file[o] # "torn"
    BY <2>2, CopiedIsWhole
  <2>4. crashes = 0 => \A p \in Objects : tool'.copy.file[p] # "torn"
    BY <2>1, <2>3 DEF Inventories
  <2> QED
    BY <1>8, <2>1, <2>4 DEF CopyFile
<1>9. CASE FinishBackup
  <2>1. \A o \in Objects : tool'.copy.file[o] = "none"
    BY <1>9 DEF FinishBackup, Nothing
  <2>2. \A b \in backups' : b \in backups \/ b.data = tool.copy
    BY <1>9 DEF FinishBackup
  <2>3. TornFits'
    BY <1>9, <2>1, <2>2 DEF FinishBackup
  <2> QED
    BY <1>9, <2>3 DEF FinishBackup, Consistent, Referenced
<1>10. ASSUME NEW b \in backups, Sweep(b) PROVE Rest'
  BY <1>10 DEF Sweep, Quiet, Candidates, Inventory, Referenced
<1>11. ASSUME NEW o \in Objects, Unlink(o) PROVE Rest'
  BY <1>11 DEF Unlink
<1>12. CASE FinishSweep \/ ToolDies
  BY <1>12 DEF FinishSweep, ToolDies, Nothing
<1>13. ASSUME NEW b \in backups, Restore(b) PROVE Rest'
  BY <1>13 DEF Restore, Quiet
<1>14. CASE UNCHANGED vars
  BY <1>14 DEF vars
<1> QED
  BY <1>1, <1>2, <1>3, <1>4, <1>5, <1>6, <1>7, <1>8, <1>9, <1>10, <1>11, <1>12,
     <1>13, <1>14 DEF Next, Write, Maintain

\* The inductive invariant holds in every reachable state.
THEOREM StoreInvariant == Spec => []StoreInv
<1>1. Init => StoreInv
  BY TypeInit DEF Init, StoreInv, ReferencesResolve, WritersHold, ToolAlone,
     TornFits, SweepIsOfGarbage, BackupsConsistent, CollectedIsSaved, NoTool, Idle, Nothing
<1> QED
  BY <1>1, StoreStep, PTL DEF Spec

-----------------------------------------------------------------------------
\* Every variable keeps its type (the tables, files and tools of the object
\* store).
THEOREM StoreTypeCorrect == Spec => []TypeOK
  BY StoreInvariant, PTL DEF StoreInv

\* No interleaving of writers, backups, collections, restores and deaths leaves
\* a row whose object has no file, or a short one that nobody is filling
\* unless somebody died.
THEOREM NoDanglingReference == Spec => []ReferencesResolve
  BY StoreInvariant, PTL DEF StoreInv

\* What a collection is about to unlink is in a verified backup of the root in
\* use, as it stands on disk.
THEOREM SweptIsSaved == Spec => []CollectedIsSaved
  BY StoreInvariant, PTL DEF StoreInv

\* A whole file goes away between restores only when nothing needs it and a
\* backup has it.
THEOREM WholeFilesAreKept == Spec => WholeIsKept
<1> DEFINE Kept1 ==
      \A o \in Objects :
         file[o] = "whole" /\ file'[o] # "whole" /\ root' = root =>
            /\ \A w \in Writers : <<w, o>> \notin rows /\ op[w].object # o
            /\ \E b \in backups : b.data.file[o] = "whole"
<1>1. StoreInv /\ [Next]_vars => [Kept1]_vars
  <2> SUFFICES ASSUME StoreInv, [Next]_vars, NEW o \in Objects,
                      file[o] = "whole", file'[o] # "whole", root' = root
               PROVE  /\ \A w \in Writers : <<w, o>> \notin rows /\ op[w].object # o
                      /\ \E b \in backups : b.data.file[o] = "whole"
    OBVIOUS
  <2> USE StoreAssumption DEF StoreInv, TypeOK, Kept
  <2>1. ASSUME NEW w \in Writers, CreateFile(w) PROVE FALSE
    BY <2>1 DEF CreateFile
  <2>2. ASSUME NEW w \in Writers, FillFile(w) PROVE FALSE
    BY <2>2 DEF FillFile
  <2>3. ASSUME NEW b \in backups, Restore(b) PROVE FALSE
    BY <2>3 DEF Restore
  <2>4. file' # file
    OBVIOUS
  <2>5. PICK p \in Objects : Unlink(p)
    BY <2>1, <2>2, <2>3, <2>4 DEF Next, Write, Maintain, vars, WriteObject, DeleteRow,
       CommitRow, CommitFails, WriterDies, BackupDatabase, CopyFile, FinishBackup,
       Sweep, FinishSweep, ToolDies
  <2>6. o \in tool.todo /\ tool.step = "sweep"
    BY <2>5 DEF Unlink
  <2>7. \A w \in Writers : op[w].object = NoObject
    BY <2>6 DEF ToolAlone, NoTool, Idle
  <2> QED
    BY <2>6, <2>7 DEF SweepIsOfGarbage, CollectedIsSaved
<1> QED
  BY <1>1, StoreInvariant, PTL DEF Spec, WholeIsKept
=============================================================================
