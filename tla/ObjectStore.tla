----------------------------- MODULE ObjectStore -----------------------------
(***************************************************************************)
(* The content-addressed object files, the rows that reference them and    *)
(* the operator's tools: inventory, backup, collection of what no row      *)
(* references, restore.                                                    *)
(*                                                                         *)
(* A writer (a request of the server, its script thread, a CLI command)    *)
(* first makes the file of an object and then, in a transaction of its     *)
(* own, the row that names it.  The file is made in place: it exists, and  *)
(* is empty, before its bytes are in it.  Files are never written again.   *)
(* The tools are run as the operator's guide says, while no writer is at   *)
(* work; nothing in the code enforces it.  All roots here are marked as    *)
(* temporary, which collection asks for.                                   *)
(***************************************************************************)
EXTENDS Naturals, FiniteSets

CONSTANTS
    Objects,     \* contents, named by their hash
    Writers,     \* each with a table of its own
    NoObject,
    MaxFiles,    \* bound on how often the file of an object is made
    MaxBackups,  \* bound on backups
    MaxRestores, \* bound on restores
    MaxCrashes   \* bound on interrupted writers and tools

ASSUME StoreAssumption ==
    /\ NoObject \notin Objects
    /\ {MaxFiles, MaxBackups, MaxRestores, MaxCrashes} \subseteq Nat

VARIABLES
    file,     \* file[o]: "none", "torn" (shorter than the content) or "whole"
    made,     \* made[o]: how often the file was made (its modification time)
    rows,     \* the committed references <<table, object>>
    op,       \* op[w]: what a writer does, and for which object
    root,     \* number of the data root in use; a restore makes a new one
    tool,     \* the maintenance tool that runs
    backups,  \* the verified backups
    crashes

vars == <<file, made, rows, op, root, tool, backups, crashes>>

Kept == <<root, tool, backups, crashes>>

Inventories == [file : [Objects -> {"none", "torn", "whole"}],
                made : [Objects -> 0..MaxFiles],
                rows : SUBSET (Writers \X Objects)]

\* What ObjectInventory hashes: every file with its hash and time, and the
\* tables that reference it.
Inventory == [file |-> file, made |-> made, rows |-> rows]

Nothing == [file |-> [o \in Objects |-> "none"],
            made |-> [o \in Objects |-> 0], rows |-> {}]

Referenced(inventory) == {r[2] : r \in inventory.rows}

\* Mutant: the references are not looked at.
CandidatesAll(inventory) == {o \in Objects : inventory.file[o] = "whole"}

\* What an inventory reports as removable: whole files no row references.
\* (Which of them are old enough and of a known kind is left open.)
Candidates(inventory) ==
    {o \in Objects \ Referenced(inventory) : inventory.file[o] = "whole"}

Idle == [step |-> "idle", object |-> NoObject]
NoTool == [step |-> "idle", copy |-> Nothing, todo |-> {}]

TypeOK ==
    /\ file \in [Objects -> {"none", "torn", "whole"}]
    /\ made \in [Objects -> 0..MaxFiles]
    /\ rows \subseteq Writers \X Objects
    /\ op \in [Writers -> [step : {"idle", "create", "fill", "row"},
                           object : Objects \cup {NoObject}]]
    /\ \A w \in Writers : op[w].step # "idle" => op[w].object \in Objects
    /\ root \in 0..MaxRestores
    /\ tool \in [step : {"idle", "backup", "sweep"}, copy : Inventories,
                 todo : SUBSET Objects]
    /\ backups \subseteq [root : 0..MaxRestores, data : Inventories]
    /\ crashes \in 0..MaxCrashes

Init ==
    /\ file = Nothing.file /\ made = Nothing.made /\ rows = {}
    /\ op = [w \in Writers |-> Idle]
    /\ root = 0 /\ tool = NoTool /\ backups = {} /\ crashes = 0

-----------------------------------------------------------------------------
(* Writers *)

Goto(w, step) == op' = [op EXCEPT ![w] = [@ EXCEPT !.step = step]]
Return(w) == op' = [op EXCEPT ![w] = Idle]

\* path.exists(): a content whose file is there is not written again.
WriteObject(w, o) ==
    /\ op[w] = Idle /\ tool = NoTool
    /\ op' = [op EXCEPT ![w] =
                 [step |-> IF file[o] = "none" THEN "create" ELSE "row",
                  object |-> o]]
    /\ UNCHANGED <<file, made, rows, Kept>>

\* os.open with O_EXCL: raises when another writer was here first.
CreateFile(w) ==
    LET o == op[w].object IN
    /\ op[w].step = "create"
    /\ IF file[o] = "none"
       THEN /\ made[o] < MaxFiles
            /\ file' = [file EXCEPT ![o] = "torn"]
            /\ made' = [made EXCEPT ![o] = @ + 1]
            /\ Goto(w, "fill")
       ELSE Return(w) /\ UNCHANGED <<file, made>>
    /\ UNCHANGED <<rows, Kept>>

FillFile(w) ==
    /\ op[w].step = "fill"
    /\ file' = [file EXCEPT ![op[w].object] = "whole"]
    /\ Goto(w, "row")
    /\ UNCHANGED <<made, rows, Kept>>

\* The transaction that stores the object's id, or its failure: then the file
\* stays and nothing references it.
CommitRow(w) ==
    /\ op[w].step = "row"
    /\ rows' = rows \cup {<<w, op[w].object>>}
    /\ Return(w)
    /\ UNCHANGED <<file, made, Kept>>

CommitFails(w) ==
    /\ op[w].step = "row"
    /\ Return(w)
    /\ UNCHANGED <<file, made, rows, Kept>>

\* Deleting an unused model deletes the rows of its revisions.
DeleteRow(w, o) ==
    /\ op[w] = Idle /\ tool = NoTool
    /\ <<w, o>> \in rows
    /\ rows' = rows \ {<<w, o>>}
    /\ UNCHANGED <<file, made, op, Kept>>

-----------------------------------------------------------------------------
(* Maintenance *)

\* No writer is at work (the operator's part), and no other tool.
Quiet == tool = NoTool /\ \A w \in Writers : op[w] = Idle

\* M6BackupService.create: the database through SQLite's backup, then the
\* files one after another, then the payload is checked against itself.
BackupDatabase ==
    /\ Quiet
    /\ Cardinality(backups) < MaxBackups
    /\ tool' = [step |-> "backup", copy |-> [Nothing EXCEPT !.rows = rows],
                todo |-> Objects]
    /\ UNCHANGED <<file, made, rows, op, root, backups, crashes>>

CopyFile(o) ==
    /\ tool.step = "backup" /\ o \in tool.todo
    /\ tool' = [tool EXCEPT !.copy.file[o] = file[o],
                            !.copy.made[o] = made[o],
                            !.todo = @ \ {o}]
    /\ UNCHANGED <<file, made, rows, op, root, backups, crashes>>

\* A referenced object that is missing or torn fails the backup.
Consistent(inventory) ==
    \A o \in Referenced(inventory) : inventory.file[o] = "whole"

FinishBackup ==
    /\ tool.step = "backup" /\ tool.todo = {}
    /\ backups' = IF Consistent(tool.copy)
                  THEN backups \cup {[root |-> root, data |-> tool.copy]}
                  ELSE backups
    /\ tool' = NoTool
    /\ UNCHANGED <<file, made, rows, op, root, crashes>>

\* Mutant: any backup of the root will do, whatever its inventory.
SweepUnmatched(b) ==
    /\ Quiet /\ b \in backups /\ b.root = root
    /\ \E old \in SUBSET Candidates(Inventory) :
          tool' = [step |-> "sweep", copy |-> Nothing, todo |-> old]
    /\ UNCHANGED <<file, made, rows, op, root, backups, crashes>>

\* ObjectGarbageCollector.apply: a verified backup of this root with the given
\* hash, and an inventory taken now with the same hash.
Sweep(b) ==
    /\ Quiet
    /\ b \in backups /\ b.root = root
    /\ b.data = Inventory
    /\ \E old \in SUBSET Candidates(Inventory) :
          tool' = [step |-> "sweep", copy |-> Nothing, todo |-> old]
    /\ UNCHANGED <<file, made, rows, op, root, backups, crashes>>

Unlink(o) ==
    /\ tool.step = "sweep" /\ o \in tool.todo
    /\ file' = [file EXCEPT ![o] = "none"]
    /\ tool' = [tool EXCEPT !.todo = @ \ {o}]
    /\ UNCHANGED <<made, rows, op, root, backups, crashes>>

FinishSweep ==
    /\ tool.step = "sweep" /\ tool.todo = {}
    /\ tool' = NoTool
    /\ UNCHANGED <<file, made, rows, op, root, backups, crashes>>

\* M6RestoreService.restore copies a verified backup, times included, to a new
\* root; the operator then goes on with that root.
Restore(b) ==
    /\ Quiet
    /\ b \in backups /\ root < MaxRestores
    /\ file' = b.data.file /\ made' = b.data.made /\ rows' = b.data.rows
    /\ root' = root + 1
    /\ UNCHANGED <<op, tool, backups, crashes>>

-----------------------------------------------------------------------------
(* A writer's process, or a tool, dies.  A backup without a manifest is none, *)
(* a sweep leaves the rest of its plan.                                       *)

WriterDies(w) ==
    /\ crashes < MaxCrashes /\ crashes' = crashes + 1
    /\ op[w] # Idle
    /\ Return(w)
    /\ UNCHANGED <<file, made, rows, root, tool, backups>>

ToolDies ==
    /\ crashes < MaxCrashes /\ crashes' = crashes + 1
    /\ tool # NoTool
    /\ tool' = NoTool
    /\ UNCHANGED <<file, made, rows, op, root, backups>>

Write == \E w \in Writers :
            \/ \E o \in Objects : WriteObject(w, o) \/ DeleteRow(w, o)
            \/ CreateFile(w) \/ FillFile(w) \/ CommitRow(w) \/ CommitFails(w)

Maintain ==
    \/ BackupDatabase \/ FinishBackup \/ FinishSweep
    \/ \E o \in Objects : CopyFile(o) \/ Unlink(o)
    \/ \E b \in backups : Sweep(b) \/ Restore(b)

Next == Write \/ Maintain \/ ToolDies \/ \E w \in Writers : WriterDies(w)

Spec == Init /\ [][Next]_vars

-----------------------------------------------------------------------------
(* Properties *)

\* Whatever is written again, collected, restored or interrupted, every object
\* a row references has its file: a reader never meets a missing one.  It meets
\* a short one, which another writer found there and committed, only while the
\* one who made it fills it, or after somebody died.
ReferencesResolve ==
    \A r \in rows :
        /\ file[r[2]] # "none"
        /\ file[r[2]] = "torn" =>
              crashes > 0 \/ \E w \in Writers : op[w] = [step |-> "fill", object |-> r[2]]

\* Collection loses nothing: what it is about to unlink, and what a row may
\* still come to need, is whole in a verified backup of the root in use.
CollectedIsSaved ==
    tool.step = "sweep" =>
        \E b \in backups :
            /\ b.root = root
            /\ \A o \in tool.todo : b.data.file[o] = "whole" /\ made[o] = b.data.made[o]

\* Between restores a whole file goes away only when no row references it and
\* no writer has found it there, and a backup has it.
WholeIsKept ==
    [][\A o \in Objects :
         file[o] = "whole" /\ file'[o] # "whole" /\ root' = root =>
            /\ \A w \in Writers : <<w, o>> \notin rows /\ op[w].object # o
            /\ \E b \in backups : b.data.file[o] = "whole"]_vars

\* An object is immutable and its bytes hash to its name: read_bytes_object
\* raises for a referenced object whose file is not whole.
ReferencedIsWhole ==
    \A r \in rows : (\A w \in Writers : op[w] = Idle) => file[r[2]] = "whole"

=============================================================================
