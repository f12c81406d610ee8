--------------------------- MODULE RevisionChain ---------------------------
(***************************************************************************)
(* The revisions of one chapter: its script and the storyboard made from   *)
(* it.  The web server and `ai-drama` command line processes work on one   *)
(* database; each generates, edits, validates, approves and exports in     *)
(* several commits, and may die between any two.                           *)
(*                                                                         *)
(* A revision is named by its place in the order of insertion.  The texts  *)
(* are abstracted to what the validators tell apart: `flawed` content, a   *)
(* missing dependency, a source that is not the current approved script.   *)
(***************************************************************************)
EXTENDS Naturals, Sequences, FiniteSets

CONSTANTS
    Web,            \* the server process: its handlers run one at a time
    Cli,            \* command line processes
    Generators,     \* the processes that make, edit and validate revisions
    Deciders,       \* the processes that approve and reject
    Directories,    \* destinations of bundle exports
    NoDirectory,    \* the destination of an operation that has none
    MaxRevisions,   \* bound: revisions of the chapter and deaths, together
    MaxDecisions,   \* bound: approvals and rejections
    MaxExports,     \* bound: exports on record when another begins
    MaxCrashes      \* bound: processes that die

Actors == Web \cup Cli

ASSUME ActorsAssumption == Generators \cup Deciders \subseteq Actors
ASSUME DirectoriesAssumption == NoDirectory \notin Directories
ASSUME BoundsAssumption ==
    /\ MaxRevisions \in Nat /\ MaxDecisions \in Nat
    /\ MaxExports \in Nat /\ MaxCrashes \in Nat

VARIABLES
    revisions,      \* tables revisions, runs, revision_dependencies,
                    \* validation_results and revision_outputs, per revision
    decisions,      \* table approval_records, in order of its sequence
    exports,        \* table export_records
    files,          \* the revision whose bundle a destination holds, 0: none
    op,             \* what each process is doing
    crashes

vars == <<revisions, decisions, exports, files, op, crashes>>

-----------------------------------------------------------------------------
(* Rows and operations *)

Kind == {"script", "board"}
RunStatus == {"VALIDATING", "SUCCEEDED", "VALIDATION_FAILED"}
Approval == {"pending", "approved", "superseded", "rejected"}
Validator == {"structure", "coverage", "freshness", "integrity"}

\* The required validators of the skill that made a revision, in the order of
\* its manifest.  The storyboard skill's structural ones are one here.
Declared(k) ==
    IF k = "script" THEN <<"structure">>
    ELSE <<"structure", "coverage", "freshness", "integrity">>

Required(k) == {Declared(k)[i] : i \in DOMAIN Declared(k)}

RevisionRow ==
    [kind : Kind, flawed : BOOLEAN, run : RunStatus, dep : Nat,
     approval : Approval, passed : SUBSET Validator,
     failed : SUBSET Validator, bundle : BOOLEAN]

NewRow(k, flawed, run) ==
    [kind |-> k, flawed |-> flawed, run |-> run, dep |-> 0,
     approval |-> "pending", passed |-> {}, failed |-> {}, bundle |-> FALSE]

ExportKind == {"formal", "diagnostic", "single", "execution"}
Placed == {"formal", "diagnostic"}      \* those that put a bundle at their destination
Vouched == {"formal", "single"}         \* those that ask for an approval

Step == {"idle", "drafting", "calling", "linking", "bundling", "attesting", "validating", "approving",
         "replacing", "committing"}

Operation ==
    [at : Step, rev : Nat, dep : Nat, todo : Seq(Validator), settle : BOOLEAN,
     blocked : BOOLEAN, kind : ExportKind, dest : Directories \cup {NoDirectory},
     raced : BOOLEAN]    \* history: the gates of this approval met another process

Idle == [at |-> "idle", rev |-> 0, dep |-> 0, todo |-> <<>>, settle |-> FALSE,
         blocked |-> FALSE, kind |-> "single", dest |-> NoDirectory, raced |-> FALSE]

Revs == DOMAIN revisions

\* current_approved: the approved revision of an artifact, the newest if there
\* were several.
CurrentApproved(k) ==
    {r \in Revs :
        /\ revisions[r].kind = k /\ revisions[r].approval = "approved"
        /\ \A q \in Revs : revisions[q].kind = k /\ revisions[q].approval = "approved"
                               => q <= r}

\* The log has an approval of the revision, whatever followed.
Approves(i, r) == decisions[i].rev = r /\ decisions[i].action = "approve"

WasApproved(r) == \E i \in DOMAIN decisions : Approves(i, r)

\* revision_freshness: a storyboard is fresh while its source is the current
\* approved script; one without a dependency is fresh.
Fresh(r) ==
    revisions[r].kind = "board" /\ revisions[r].dep # 0
        => revisions[r].dep \in CurrentApproved("script")

\* check_storyboard_bundle_integrity: objects are never changed, so a bundle that
\* is there is whole.
Intact(r) == revisions[r].bundle

\* What a validator finds when it runs.
Passes(r, v) ==
    CASE v = "structure" -> ~revisions[r].flawed
      [] v = "coverage"  -> revisions[r].dep # 0
      [] v = "freshness" -> Fresh(r)
      [] v = "integrity" -> Intact(r)

\* The failures that approval and a formal export look at: every result ever
\* recorded, but for storyboard_bundle_integrity, which has a check of its own.
Blocking(r) == revisions[r].failed \ {"integrity"}

\* Mutant: the failed results are not looked at.
ApprovableUnchecked(r) ==
    /\ revisions[r].run \in {"SUCCEEDED", "VALIDATION_FAILED"} /\ Fresh(r)
    /\ revisions[r].kind = "board" => Intact(r)

\* The gates of approve_revision: any required result will do for the third.
Approvable(r) ==
    LET row == revisions[r]
    IN  /\ row.run \in {"SUCCEEDED", "VALIDATION_FAILED"}
        /\ Fresh(r)
        /\ row.passed \cup row.failed # {}
        /\ Blocking(r) = {}
        /\ row.kind = "board" => Intact(r)

At(a, step) == op[a].at = step

Goto(a, o) == op' = [op EXCEPT ![a] = o]

\* The step changes what the gates of an approval have looked at.
GotoSeen(a, o) ==
    op' = [b \in Actors |->
              IF b = a THEN o
              ELSE IF At(b, "approving") THEN [op[b] EXCEPT !.raced = TRUE] ELSE op[b]]

\* Another process has a revision that it has not validated yet.
Unvalidated(r) ==
    \E b \in Actors :
        /\ op[b].rev = r
        /\ op[b].at \in {"linking", "bundling", "attesting", "validating"}

Insert(row) ==
    /\ Len(revisions) + crashes < MaxRevisions
    /\ revisions' = Append(revisions, row)

Inserted == Len(revisions) + 1

-----------------------------------------------------------------------------
Init ==
    /\ revisions = <<>>
    /\ decisions = <<>>
    /\ exports = {}
    /\ files = [d \in Directories |-> 0]
    /\ op = [a \in Actors |-> Idle]
    /\ crashes = 0

(* Scripts *)

\* The streamed path: a validated candidate is published with its results and
\* the status of its run in one transaction, by the runner's thread, whatever
\* the server's handlers are at.
PublishScript ==
    /\ Web # {}
    /\ Insert([NewRow("script", FALSE, "SUCCEEDED") EXCEPT
                  !.passed = Required("script")])
    /\ UNCHANGED <<decisions, exports, files, op, crashes>>

\* The synchronous path: a run with the sources it reads, and then the call.
PrepareScript(a) ==
    /\ a \in Generators /\ At(a, "idle")
    /\ Goto(a, [Idle EXCEPT !.at = "drafting"])
    /\ UNCHANGED <<revisions, decisions, exports, files, crashes>>

\* The answer is parsed: the run is VALIDATING when the revision is inserted.
ScriptAnswered(a) ==
    /\ At(a, "drafting")
    /\ \E flawed \in BOOLEAN : Insert(NewRow("script", flawed, "VALIDATING"))
    /\ Goto(a, [Idle EXCEPT !.at = "validating", !.rev = Inserted,
                            !.todo = Declared("script"), !.settle = TRUE])
    /\ UNCHANGED <<decisions, exports, files, crashes>>

(* Storyboards *)

\* Mutant: any script will do as the source.
GenerateBoardFromAny(a) ==
    /\ a \in Generators /\ At(a, "idle")
    /\ \E s \in Revs : /\ revisions[s].kind = "script"
                      /\ Goto(a, [Idle EXCEPT !.at = "calling", !.dep = s])
    /\ UNCHANGED <<revisions, decisions, exports, files, crashes>>

\* run_storyboard: the source must be the current approved script.
GenerateBoard(a) ==
    /\ a \in Generators /\ At(a, "idle")
    /\ \E s \in CurrentApproved("script") :
           Goto(a, [Idle EXCEPT !.at = "calling", !.dep = s])
    /\ UNCHANGED <<revisions, decisions, exports, files, crashes>>

\* The provider's answer is parsed; the run has SUCCEEDED before the validators
\* run, and the dependency on the source is another commit.
BoardAnswered(a) ==
    /\ At(a, "calling")
    /\ \E flawed \in BOOLEAN : Insert(NewRow("board", flawed, "SUCCEEDED"))
    /\ Goto(a, [op[a] EXCEPT !.at = "linking", !.rev = Inserted,
                             !.todo = Declared("board"), !.settle = TRUE])
    /\ UNCHANGED <<decisions, exports, files, crashes>>

\* RUNTIME_FAILED or PARSE_FAILED: no revision.
GenerationFails(a) ==
    /\ op[a].at \in {"drafting", "calling"}
    /\ Goto(a, Idle)
    /\ UNCHANGED <<revisions, decisions, exports, files, crashes>>

\* A migrated storyboard is left without a bundle and without results.
Link(a) ==
    /\ At(a, "linking")
    /\ revisions' = [revisions EXCEPT ![op[a].rev].dep = op[a].dep]
    /\ Goto(a, IF op[a].todo = <<>> THEN Idle ELSE [op[a] EXCEPT !.at = "bundling"])
    /\ UNCHANGED <<decisions, exports, files, crashes>>

\* materialize_storyboard_bundle: both outputs in one transaction, or those that
\* are there already.
Bundle(a) ==
    /\ At(a, "bundling")
    /\ revisions' = [revisions EXCEPT ![op[a].rev].bundle = TRUE]
    /\ Goto(a, [op[a] EXCEPT !.at = IF op[a].settle THEN "attesting"
                                     ELSE "validating"])
    /\ UNCHANGED <<decisions, exports, files, crashes>>

\* BundleError: a generation fails its run, an edit or a validation by hand
\* raises.
BundleFails(a) ==
    /\ At(a, "bundling")
    /\ revisions' = IF op[a].settle
                    THEN [revisions EXCEPT ![op[a].rev].run = "VALIDATION_FAILED"]
                    ELSE revisions
    /\ Goto(a, Idle)
    /\ UNCHANGED <<decisions, exports, files, crashes>>

\* A generation records the integrity of the bundle it has just made, as a
\* required result, before the declared validators run.
Attest(a) ==
    /\ At(a, "attesting")
    /\ revisions' = [revisions EXCEPT ![op[a].rev].passed = @ \cup {"integrity"}]
    /\ Goto(a, [op[a] EXCEPT !.at = "validating"])
    /\ UNCHANGED <<decisions, exports, files, crashes>>

\* The `artifacts materialize-bundle` command.
Materialize(a) ==
    /\ a \in Cli /\ At(a, "idle")
    /\ \E r \in Revs :
           /\ revisions[r].kind = "board"
           /\ revisions' = [revisions EXCEPT ![r].bundle = TRUE]
    /\ UNCHANGED <<decisions, exports, files, op, crashes>>

\* The `artifacts migrate-storyboard` command.  The legacy storyboard is not a
\* row here: it gives the source, a script that was approved when it was made,
\* whatever has become of it.
MigrateBoard(a) ==
    /\ a \in Cli /\ At(a, "idle")
    /\ \E s \in Revs :
           /\ revisions[s].kind = "script" /\ WasApproved(s)
           /\ Insert(NewRow("board", FALSE, "SUCCEEDED"))
           /\ Goto(a, [Idle EXCEPT !.at = "linking", !.rev = Inserted, !.dep = s])
    /\ UNCHANGED <<decisions, exports, files, crashes>>

(* Manual revisions and validation *)

\* create_manual_revision copies the dependencies of its source; a storyboard
\* without one cannot be edited.
EditScript(a) ==
    /\ a \in Web \cap Generators /\ At(a, "idle")
    /\ \E r \in Revs : revisions[r].kind = "script"
    /\ \E flawed \in BOOLEAN : Insert(NewRow("script", flawed, "SUCCEEDED"))
    /\ Goto(a, [Idle EXCEPT !.at = "validating", !.rev = Inserted,
                            !.todo = Declared("script")])
    /\ UNCHANGED <<decisions, exports, files, crashes>>

EditBoard(a) ==
    /\ a \in Web \cap Generators /\ At(a, "idle")
    /\ \E r \in Revs :
           /\ revisions[r].kind = "board" /\ revisions[r].dep # 0
           /\ Goto(a, [Idle EXCEPT !.at = "linking", !.rev = Inserted,
                                   !.dep = revisions[r].dep,
                                   !.todo = Declared("board")])
    /\ \E flawed \in BOOLEAN : Insert(NewRow("board", flawed, "SUCCEEDED"))
    /\ UNCHANGED <<decisions, exports, files, crashes>>

ValidateBoard(a) ==
    /\ a \in Web \cap Generators /\ At(a, "idle")
    /\ \E r \in Revs :
           /\ revisions[r].kind = "board"
           /\ Goto(a, [Idle EXCEPT !.at = "bundling", !.rev = r,
                                   !.todo = Declared("board")])
    /\ UNCHANGED <<revisions, decisions, exports, files, crashes>>

\* run_declared_validators commits one result after the other.
RunValidator(a) ==
    /\ At(a, "validating") /\ op[a].todo # <<>>
    /\ LET v == Head(op[a].todo)
           r == op[a].rev
       IN  IF Passes(r, v)
           THEN /\ revisions' = [revisions EXCEPT ![r].passed = @ \cup {v}]
                /\ GotoSeen(a, [op[a] EXCEPT !.todo = Tail(@)])
           ELSE /\ revisions' = [revisions EXCEPT ![r].failed = @ \cup {v}]
                /\ GotoSeen(a, [op[a] EXCEPT !.todo = Tail(@), !.blocked = TRUE])
    /\ UNCHANGED <<decisions, exports, files, crashes>>

\* A generation ends with the status of its run; an edit or a validation by
\* hand leaves the run as it is.
Settle(a) ==
    /\ At(a, "validating") /\ op[a].todo = <<>>
    /\ revisions' =
           IF ~op[a].settle THEN revisions
           ELSE [revisions EXCEPT ![op[a].rev].run =
                     IF op[a].blocked THEN "VALIDATION_FAILED" ELSE "SUCCEEDED"]
    /\ Goto(a, Idle)
    /\ UNCHANGED <<decisions, exports, files, crashes>>

(* Decisions *)

ApproveCheck(a) ==
    /\ a \in Deciders /\ At(a, "idle")
    /\ \E r \in Revs :
           /\ Approvable(r)
           /\ Goto(a, [Idle EXCEPT !.at = "approving", !.rev = r,
                                   !.raced = Unvalidated(r)])
    /\ UNCHANGED <<revisions, decisions, exports, files, crashes>>

\* Mutant: the revision that was approved before stays so.
ApprovedBeside(r) == [revisions EXCEPT ![r].approval = "approved"]

\* approve_in_transaction: the approved revision of the artifact is superseded.
Approved(r) ==
    [q \in Revs |->
        [revisions[q] EXCEPT !.approval =
            IF q = r THEN "approved"
            ELSE IF revisions[q].kind = revisions[r].kind /\ @ = "approved"
                 THEN "superseded" ELSE @]]

Decide(r, action) ==
    /\ Len(decisions) < MaxDecisions
    /\ decisions' = Append(decisions, [rev |-> r, action |-> action])

ApproveCommit(a) ==
    /\ At(a, "approving")
    /\ Decide(op[a].rev, "approve")
    /\ revisions' = Approved(op[a].rev)
    /\ GotoSeen(a, Idle)
    /\ UNCHANGED <<exports, files, crashes>>

\* record_rejection: any revision, whatever its status.
Reject(a) ==
    /\ a \in Deciders /\ At(a, "idle")
    /\ \E r \in Revs :
           /\ Decide(r, "reject")
           /\ revisions' = [revisions EXCEPT ![r].approval = "rejected"]
    /\ GotoSeen(a, Idle)
    /\ UNCHANGED <<exports, files, crashes>>

(* Exports *)

MayExport == Cardinality(exports) < MaxExports

\* The gates of a bundle export and the test that its destination is free.
ExportBundle(a) ==
    /\ a \in Cli /\ At(a, "idle") /\ MayExport
    /\ \E r \in Revs, d \in Directories, k \in Placed :
           /\ revisions[r].kind = "board" /\ Intact(r)
           /\ k = "formal" => /\ revisions[r].approval = "approved"
                              /\ Fresh(r) /\ Blocking(r) = {}
           /\ k = "diagnostic" => ~Fresh(r)
           /\ files[d] = 0
           /\ Goto(a, [Idle EXCEPT !.at = "replacing", !.rev = r, !.kind = k,
                                   !.dest = d])
    /\ UNCHANGED <<revisions, decisions, exports, files, crashes>>

\* os.replace moves the staged directory to its place before the transaction
\* that records it commits; it fails when the destination has been taken since,
\* and the transaction is rolled back.
ReplaceDirectory(a) ==
    /\ At(a, "replacing")
    /\ IF files[op[a].dest] # 0
       THEN Goto(a, Idle) /\ UNCHANGED files
       ELSE /\ files' = [files EXCEPT ![op[a].dest] = op[a].rev]
            /\ Goto(a, [op[a] EXCEPT !.at = "committing"])
    /\ UNCHANGED <<revisions, decisions, exports, crashes>>

Record(o) == exports' = exports \cup {[rev |-> o.rev, kind |-> o.kind, dest |-> o.dest]}

\* Mutant: the directory is taken away in every case, not only when a commit raises.
CommitExportCleaned(a) ==
    /\ At(a, "committing")
    /\ Record(op[a])
    /\ files' = [files EXCEPT ![op[a].dest] = 0]
    /\ Goto(a, Idle)
    /\ UNCHANGED <<revisions, decisions, crashes>>

CommitExport(a) ==
    /\ At(a, "committing")
    /\ Record(op[a])
    /\ Goto(a, Idle)
    /\ UNCHANGED <<revisions, decisions, files, crashes>>

\* A commit that raises takes the directory away again.
CommitFails(a) ==
    /\ At(a, "committing")
    /\ files' = [files EXCEPT ![op[a].dest] = 0]
    /\ Goto(a, Idle)
    /\ UNCHANGED <<revisions, decisions, exports, crashes>>

\* export_approved: one file and its sidecar are written and then recorded; a
\* death between the two leaves files that nothing refers to.
ExportSingle(a) ==
    /\ a \in Cli /\ At(a, "idle") /\ MayExport
    /\ \E k \in Kind : \E r \in CurrentApproved(k) :
           Fresh(r) /\ Record([Idle EXCEPT !.rev = r])
    /\ UNCHANGED <<revisions, decisions, files, op, crashes>>

\* An export for execution is refused, always, and the refusal is recorded: with
\* the destination it names, where nothing is put.
BlockExecution(a) ==
    /\ a \in Cli /\ At(a, "idle") /\ MayExport
    /\ \E r \in Revs, d \in Directories :
           /\ revisions[r].kind = "board"
           /\ exports' = exports \cup {[rev |-> r, kind |-> "execution", dest |-> d]}
    /\ UNCHANGED <<revisions, decisions, files, op, crashes>>

\* A process dies in the middle of what it does; SQLite undoes what it had not
\* committed.
Crash(a) ==
    /\ crashes < MaxCrashes /\ Len(revisions) + crashes < MaxRevisions
    /\ ~At(a, "idle")
    /\ crashes' = crashes + 1
    /\ Goto(a, Idle)
    /\ UNCHANGED <<revisions, decisions, exports, files>>

-----------------------------------------------------------------------------
Generation(a) ==
    \/ PrepareScript(a) \/ ScriptAnswered(a) \/ GenerateBoard(a) \/ BoardAnswered(a)
    \/ GenerationFails(a) \/ Link(a) \/ Bundle(a) \/ BundleFails(a) \/ Attest(a)
    \/ Materialize(a) \/ MigrateBoard(a) \/ EditScript(a) \/ EditBoard(a)
    \/ ValidateBoard(a) \/ RunValidator(a) \/ Settle(a)

Decision(a) == ApproveCheck(a) \/ ApproveCommit(a) \/ Reject(a)

Export(a) ==
    \/ ExportBundle(a) \/ ReplaceDirectory(a) \/ CommitExport(a)
    \/ CommitFails(a) \/ ExportSingle(a) \/ BlockExecution(a)

Next ==
    \/ PublishScript
    \/ \E a \in Actors : Generation(a) \/ Decision(a) \/ Export(a) \/ Crash(a)

Spec == Init /\ [][Next]_vars

-----------------------------------------------------------------------------
(* Properties *)

Decided == [rev : Nat, action : {"approve", "reject"}]
ExportRow == [rev : Nat, kind : ExportKind, dest : Directories \cup {NoDirectory}]

TypeOK ==
    /\ revisions \in Seq(RevisionRow)
    /\ decisions \in Seq(Decided)
    /\ exports \subseteq ExportRow
    /\ files \in [Directories -> Nat]
    /\ op \in [Actors -> Operation]
    /\ crashes \in Nat
    /\ \A r \in Revs : revisions[r].dep \in Revs \cup {0}

\* approval_status is what the log of decisions says, whoever decided and in
\* whatever order: the last decision about a revision, and superseded once
\* another revision of the artifact has been approved after it.  So at most one
\* revision of an artifact is approved.
StatusAgreesWithLog ==
    \A r \in Revs :
        IF revisions[r].approval = "pending"
        THEN \A i \in DOMAIN decisions : decisions[i].rev # r
        ELSE \E i \in DOMAIN decisions :
                 /\ decisions[i].rev = r
                 /\ \A j \in DOMAIN decisions : j > i => decisions[j].rev # r
                 /\ revisions[r].approval =
                      IF decisions[i].action = "reject" THEN "rejected"
                      ELSE IF \E j \in DOMAIN decisions :
                                  /\ j > i /\ decisions[j].action = "approve"
                                  /\ revisions[decisions[j].rev].kind = revisions[r].kind
                           THEN "superseded" ELSE "approved"

BecomesApproved(r) == revisions[r].approval # "approved" /\ revisions'[r].approval = "approved"

\* The gates of approve_revision are not in its transaction, and any required
\* result opens the third of them.  Still no approval is given to a storyboard
\* without its bundle, and one is unearned only in two ways.  Another process was
\* validating the revision at the gates, or has recorded a result or a decision
\* between the gates and the commit; or a death among the validators has left
\* some of their results missing, but none of them failed and the source fresh.
ApprovalIsEarned ==
    [][\A r \in Revs, a \in Actors :
           BecomesApproved(r) /\ At(a, "approving") /\ op'[a] = Idle /\ op[a].rev = r =>
               /\ revisions[r].kind = "board" => revisions[r].bundle
               /\ ~op[a].raced =>
                      /\ Blocking(r) = {} /\ Fresh(r)
                      /\ crashes = 0 =>
                            Required(revisions[r].kind) \subseteq revisions[r].passed]_vars

\* The chain of sources: what a storyboard depends on, also one copied by hand
\* from another, is a script that was approved.
SourceWasApproved ==
    \A r \in Revs :
        revisions[r].dep # 0 =>
            /\ revisions[r].kind = "board"
            /\ revisions[revisions[r].dep].kind = "script"
            /\ WasApproved(revisions[r].dep)

\* An export that is on record is there: a recorded bundle stands at its
\* destination, and a formal or single export is of a revision that was approved.
RecordIsTrue ==
    \A e \in exports :
        /\ e.kind \in Placed => e.dest \in Directories /\ files[e.dest] = e.rev
        /\ e.kind \in Vouched => WasApproved(e.rev)
=============================================================================
