-------------------------- MODULE SupplierSecrets --------------------------
(***************************************************************************)
(* The credential of one supplier and the model tests that use it.  A      *)
(* secret is a file; the database holds its version, the supplier's        *)
(* pointer to the current one, and a journal that lets a restart finish a  *)
(* replacement or a deletion that was cut off.  The server's handlers run  *)
(* one at a time; the thread of the model-test runner has a connection of  *)
(* its own and runs between any two of their steps.                        *)
(***************************************************************************)
EXTENDS Naturals, FiniteSets

CONSTANTS
    Tests,          \* model test runs
    NoTest,         \* no model test run
    MaxVersions,    \* bound: credential versions
    MaxFaults,      \* bound: I/O errors and damaged files
    MaxCrashes      \* bound: deaths of the server process

ASSUME NoTestAssumption == NoTest \notin Tests
ASSUME BoundsAssumption ==
    MaxVersions \in Nat /\ MaxFaults \in Nat /\ MaxCrashes \in Nat

VARIABLES
    supplier,       \* current_credential_version_id (0: none), credential_revision
    issued,         \* history: version ids given out (they are random)
    versions,       \* table credential_versions: the state of each version
    replacing,      \* credential_migration_journal, operation 'replace'
    deleting,       \* credential_migration_journal, operation 'delete'
    temp, final,    \* the two files of a version
    tests,          \* table supplier_model_test_runs
    calls,          \* history: provider calls made for a test
    server,         \* the phase of the process
    op,             \* what its main thread is doing with the credential
    runner,         \* what the model-test thread is doing
    faults, crashes

secret == <<supplier, issued, versions, replacing, deleting, temp, final>>
vars == <<secret, tests, calls, server, op, runner, faults, crashes>>

Version == 1..MaxVersions

-----------------------------------------------------------------------------
(* States *)

VersionState == {"absent", "pending_finalize", "ready", "pending_delete", "corrupt"}
JournalState == {"none", "journal_created", "temp_written", "pending_finalize",
                 "ready", "corrupt"}
FileState == {"none", "bad", "whole"}

Terminal == {"completed", "failed", "revoked", "submission_outcome_unknown"}
TestStatus == {"none", "queued", "submitting"} \cup Terminal
TestRow == [status : TestStatus, credential : Version \cup {0}]

\* The steps of replace, of delete and of recover, in the order of the code.
Step == {"idle", "writing", "noting", "pointing", "renaming", "finishing",
         "revoking", "unlinking", "forgetting", "settling", "spoiling", "clearing"}
Journal == [version : Version, kind : {"replace", "delete"}]
Operation == [at : Step, version : Version \cup {0}, expected : Nat,
              cancel : SUBSET Tests, giveup : SUBSET Tests,
              journal : {"replace", "delete"}, todo : SUBSET Journal]
Idle == [at |-> "idle", version |-> 0, expected |-> 0, cancel |-> {}, giveup |-> {},
         journal |-> "replace", todo |-> {}]

RunnerStep == {"idle", "claiming", "refusing", "loading", "reading", "calling",
               "ending", "failing"}
Runner == [at : RunnerStep, test : Tests \cup {NoTest}]
Resting == [at |-> "idle", test |-> NoTest]

Init ==
    /\ supplier = [current |-> 0, revision |-> 0]
    /\ issued = 0
    /\ versions = [v \in Version |-> "absent"]
    /\ replacing = [v \in Version |-> "none"]
    /\ deleting = {}
    /\ temp = [v \in Version |-> "none"]
    /\ final = [v \in Version |-> "none"]
    /\ tests = [t \in Tests |-> [status |-> "none", credential |-> 0]]
    /\ calls = [t \in Tests |-> 0]
    /\ server = "up"
    /\ op = Idle
    /\ runner = Resting
    /\ faults = 0 /\ crashes = 0

Working(step) == server = "up" /\ op.at = step
Free == Working("idle")

-----------------------------------------------------------------------------
(* Replacing the secret *)

\* A new version id; its journal row is committed before any file exists.
Replace ==
    /\ Free /\ issued < MaxVersions
    /\ issued' = issued + 1
    /\ replacing' = [replacing EXCEPT ![issued'] = "journal_created"]
    /\ op' = [Idle EXCEPT !.at = "writing", !.version = issued',
                          !.expected = supplier.revision]
    /\ UNCHANGED <<supplier, versions, deleting, temp, final, tests, calls, server,
                   runner, faults, crashes>>

WriteTemp ==
    /\ Working("writing")
    /\ temp' = [temp EXCEPT ![op.version] = "whole"]
    /\ op' = [op EXCEPT !.at = "noting"]
    /\ UNCHANGED <<supplier, issued, versions, replacing, deleting, final, tests, calls,
                   server, runner, faults, crashes>>

NoteTemp ==
    /\ Working("noting")
    /\ replacing' = [replacing EXCEPT ![op.version] = "temp_written"]
    /\ op' = [op EXCEPT !.at = "pointing"]
    /\ UNCHANGED <<supplier, issued, versions, deleting, temp, final, tests, calls, server,
                   runner, faults, crashes>>

\* Mutant: the version it replaces goes with it.
PointAlone ==
    /\ Working("pointing")
    /\ versions' = [v \in Version |-> IF v = op.version THEN "pending_finalize"
                                     ELSE IF v = supplier.current THEN "absent" ELSE versions[v]]
    /\ supplier' = [current |-> op.version, revision |-> op.expected + 1]
    /\ replacing' = [replacing EXCEPT ![op.version] = "pending_finalize"]
    /\ op' = [op EXCEPT !.at = "renaming"]
    /\ UNCHANGED <<issued, deleting, temp, final, tests, calls, server, runner, faults, crashes>>

\* One transaction: the version, the supplier's pointer and the journal.
Point ==
    /\ Working("pointing")
    /\ IF supplier.revision # op.expected
       THEN op' = Idle /\ UNCHANGED <<supplier, issued, versions, replacing>>
       ELSE /\ versions' = [versions EXCEPT ![op.version] = "pending_finalize"]
            /\ supplier' = [current |-> op.version, revision |-> op.expected + 1]
            /\ replacing' = [replacing EXCEPT ![op.version] = "pending_finalize"]
            /\ op' = [op EXCEPT !.at = "renaming"]
    /\ UNCHANGED <<issued, deleting, temp, final, tests, calls, server, runner, faults, crashes>>

\* os.replace; only then is the version ready.
Rename ==
    /\ Working("renaming")
    /\ final' = [final EXCEPT ![op.version] = temp[op.version]]
    /\ temp' = [temp EXCEPT ![op.version] = "none"]
    /\ op' = [op EXCEPT !.at = "finishing"]
    /\ UNCHANGED <<supplier, issued, versions, replacing, deleting, tests, calls, server,
                   runner, faults, crashes>>

Finish ==
    /\ Working("finishing")
    /\ versions' = [versions EXCEPT ![op.version] = "ready"]
    /\ replacing' = [replacing EXCEPT ![op.version] = "ready"]
    /\ op' = Idle
    /\ UNCHANGED <<supplier, issued, deleting, temp, final, tests, calls, server, runner,
                   faults, crashes>>

(* Deleting it *)

References(v, status) == {t \in Tests : tests[t] = [status |-> status, credential |-> v]}

\* Mutant: the file goes before the transaction.
DeleteFileFirst(force) ==
    /\ Free /\ supplier.current # 0
    /\ final' = [final EXCEPT ![supplier.current] = "none"]
    /\ op' = [Idle EXCEPT !.at = "revoking", !.version = supplier.current,
                          !.expected = supplier.revision]
    /\ UNCHANGED <<supplier, issued, versions, replacing, deleting, temp, tests, calls,
                   server, runner, faults, crashes>>

\* The tests that hold the version are read before the transaction that ends
\* them; without `force` there must be none.
Delete(force) ==
    /\ Free /\ supplier.current # 0
    /\ LET v == supplier.current
       IN  /\ force \/ References(v, "queued") \cup References(v, "submitting") = {}
           /\ op' = [Idle EXCEPT !.at = "revoking", !.version = v,
                                 !.expected = supplier.revision,
                                 !.cancel = References(v, "queued"),
                                 !.giveup = References(v, "submitting")]
    /\ UNCHANGED <<secret, tests, calls, server, runner, faults, crashes>>

\* Mutant: a test in the queue is left there.
RevokedSubmitting(t) ==
    IF t \in op.giveup /\ tests[t].status = "submitting" THEN "submission_outcome_unknown"
    ELSE tests[t].status

\* The status each test is given, if it is still what it was when it was read.
Revoked(t) ==
    CASE t \in op.cancel /\ tests[t].status = "queued" -> "revoked"
      [] t \in op.giveup /\ tests[t].status = "submitting" -> "submission_outcome_unknown"
      [] OTHER -> tests[t].status

Revoke ==
    /\ Working("revoking")
    /\ tests' = [t \in Tests |-> [tests[t] EXCEPT !.status = Revoked(t)]]
    /\ deleting' = deleting \cup {op.version}
    /\ versions' = [versions EXCEPT ![op.version] = "pending_delete"]
    /\ supplier' = [current |-> 0, revision |-> op.expected + 1]
    /\ op' = [op EXCEPT !.at = "unlinking"]
    /\ UNCHANGED <<issued, replacing, temp, final, calls, server, runner, faults, crashes>>

Unlink ==
    /\ Working("unlinking")
    /\ final' = [final EXCEPT ![op.version] = "none"]
    /\ op' = [op EXCEPT !.at = "forgetting"]
    /\ UNCHANGED <<supplier, issued, versions, replacing, deleting, temp, tests, calls, server,
                   runner, faults, crashes>>

Forget ==
    /\ Working("forgetting")
    /\ versions' = [versions EXCEPT ![op.version] = "absent"]
    /\ deleting' = deleting \ {op.version}
    /\ op' = Idle
    /\ UNCHANGED <<supplier, issued, replacing, temp, final, tests, calls, server, runner,
                   faults, crashes>>

\* A handler that shows or uses the secret finds its file bad.
ReadCurrent ==
    /\ Free /\ supplier.current # 0
    /\ LET v == supplier.current
       IN  /\ versions[v] = "ready" /\ final[v] # "whole"
           /\ versions' = [versions EXCEPT ![v] = "corrupt"]
    /\ UNCHANGED <<supplier, issued, replacing, deleting, temp, final, tests, calls, server, op,
                   runner, faults, crashes>>

-----------------------------------------------------------------------------
(* Model tests *)

CreateTest(t) ==
    /\ Free /\ supplier.current # 0
    /\ tests[t].status = "none" /\ versions[supplier.current] = "ready"
    /\ tests' = [tests EXCEPT ![t] = [status |-> "queued",
                                      credential |-> supplier.current]]
    /\ UNCHANGED <<secret, calls, server, op, runner, faults, crashes>>

\* The thread loads the snapshot of a queued test, which fails when its
\* credential is not ready, and then claims the test.
Pick(t) ==
    /\ server = "up" /\ runner.at = "idle" /\ tests[t].status = "queued"
    /\ runner' = [test |-> t, at |-> IF versions[tests[t].credential] = "ready"
                                     THEN "claiming" ELSE "refusing"]
    /\ UNCHANGED <<secret, tests, calls, server, op, faults, crashes>>

Claim ==
    /\ runner.at \in {"claiming", "refusing"}
    /\ IF tests[runner.test].status # "queued"
       THEN runner' = Resting /\ UNCHANGED tests
       ELSE /\ tests' = [tests EXCEPT ![runner.test].status = "submitting"]
            /\ runner' = [runner EXCEPT !.at =
                             IF @ = "claiming" THEN "loading" ELSE "failing"]
    /\ UNCHANGED <<secret, calls, server, op, faults, crashes>>

Goto(step) == runner' = [runner EXCEPT !.at = step]

\* The state of the version, and in another step the file.
Load ==
    /\ runner.at = "loading"
    /\ Goto(IF versions[tests[runner.test].credential] = "ready"
            THEN "reading" ELSE "failing")
    /\ UNCHANGED <<secret, tests, calls, server, op, faults, crashes>>

Read ==
    /\ runner.at = "reading"
    /\ LET v == tests[runner.test].credential
       IN  IF final[v] = "whole"
           THEN Goto("calling") /\ UNCHANGED versions
           ELSE /\ Goto("failing")
                /\ versions' = [versions EXCEPT ![v] =
                                    IF @ = "absent" THEN @ ELSE "corrupt"]
    /\ UNCHANGED <<supplier, issued, replacing, deleting, temp, final, tests, calls, server, op,
                   faults, crashes>>

Call ==
    /\ runner.at = "calling"
    /\ calls' = [calls EXCEPT ![runner.test] = @ + 1]
    /\ Goto("ending")
    /\ UNCHANGED <<secret, tests, server, op, faults, crashes>>

\* Mutant: the late answer replaces whatever end there is.
EndBlindly ==
    /\ runner.at \in {"ending", "failing"}
    /\ tests' = [tests EXCEPT ![runner.test].status =
                    IF runner.at = "ending" THEN "completed" ELSE "failed"]
    /\ runner' = Resting
    /\ UNCHANGED <<secret, calls, server, op, faults, crashes>>

\* complete and fail write only over 'submitting'; a test that was ended by a
\* forced deletion keeps that end.
End ==
    /\ runner.at \in {"ending", "failing"}
    /\ \E status \in IF runner.at = "ending"
                     THEN {"completed", "failed", "submission_outcome_unknown"}
                     ELSE {"failed"} :
           tests' = [tests EXCEPT ![runner.test].status =
                        IF @ = "submitting" THEN status ELSE @]
    /\ runner' = Resting
    /\ UNCHANGED <<secret, calls, server, op, faults, crashes>>

-----------------------------------------------------------------------------
(* Start *)

Journals == {[version |-> v, kind |-> "replace"] : v \in {u \in Version : replacing[u] # "none"}}
                \cup {[version |-> v, kind |-> "delete"] : v \in deleting}

\* recover reads all journals first.
Start ==
    /\ server = "down"
    /\ server' = "recovering"
    /\ op' = [Idle EXCEPT !.todo = Journals]
    /\ UNCHANGED <<secret, tests, calls, runner, faults, crashes>>

\* Takes the next journal, by a timestamp of the wall clock: in any order.  What
\* it does with the files comes before the rows.
RecoverFiles(j) ==
    /\ server = "recovering" /\ op.at = "idle" /\ j \in op.todo
    /\ LET v == j.version
           gone == j.kind = "delete" \/ versions[v] = "absent"
           move == ~gone /\ final[v] # "whole" /\ temp[v] = "whole"
           lost == ~gone /\ "whole" \notin {final[v], temp[v]}
       IN  /\ final' = [final EXCEPT ![v] = IF gone THEN "none"
                                            ELSE IF move THEN "whole" ELSE @]
           /\ temp' = [temp EXCEPT ![v] =
                 IF (gone /\ j.kind = "replace") \/ move THEN "none" ELSE @]
           /\ op' = [op EXCEPT !.at = IF lost THEN "spoiling" ELSE "settling",
                               !.version = v, !.journal = j.kind, !.todo = @ \ {j}]
    /\ UNCHANGED <<supplier, issued, versions, replacing, deleting, tests, calls,
                   server, runner, faults, crashes>>

\* A deletion takes its journal along in the transaction that deletes the version.
RecoverDeletion ==
    /\ server = "recovering" /\ op.at = "settling" /\ op.journal = "delete"
    /\ versions' = [versions EXCEPT ![op.version] = "absent"]
    /\ deleting' = deleting \ {op.version}
    /\ op' = [op EXCEPT !.at = "idle"]
    /\ UNCHANGED <<supplier, issued, replacing, temp, final, tests, calls, server,
                   runner, faults, crashes>>

\* Mutant: the journal goes, the version is never marked.
RecoverVersionUnmarked ==
    /\ server = "recovering" /\ op.journal = "replace"
    /\ op.at \in {"settling", "spoiling"}
    /\ op' = [op EXCEPT !.at = "clearing"]
    /\ UNCHANGED <<supplier, issued, versions, replacing, deleting, temp, final, tests,
                   calls, server, runner, faults, crashes>>

\* _mark_ready, journal included, or _mark_corrupt, or nothing for a version that
\* never came to be.
RecoverVersion ==
    /\ server = "recovering" /\ op.journal = "replace"
    /\ op.at \in {"settling", "spoiling"}
    /\ versions' = [versions EXCEPT ![op.version] =
                       IF @ = "absent" THEN @
                       ELSE IF op.at = "settling" THEN "ready" ELSE "corrupt"]
    /\ replacing' = [replacing EXCEPT ![op.version] =
                        IF versions[op.version] # "absent" /\ op.at = "settling"
                        THEN "ready" ELSE @]
    /\ op' = [op EXCEPT !.at = "clearing"]
    /\ UNCHANGED <<supplier, issued, deleting, temp, final, tests, calls, server, runner,
                   faults, crashes>>

\* The journal of a replacement stays while its version is corrupt.
RecoverJournal ==
    /\ server = "recovering" /\ op.at = "clearing"
    /\ replacing' = [replacing EXCEPT ![op.version] =
                        IF versions[op.version] = "corrupt" THEN "corrupt" ELSE "none"]
    /\ op' = [op EXCEPT !.at = "idle"]
    /\ UNCHANGED <<supplier, issued, versions, deleting, temp, final, tests, calls, server,
                   runner, faults, crashes>>

\* Every journal has been seen; the rest of the start comes to the model tests.
Recovered ==
    /\ server = "recovering" /\ op.at = "idle" /\ op.todo = {}
    /\ server' = "recovered"
    /\ UNCHANGED <<secret, tests, calls, op, runner, faults, crashes>>

\* Mutant: an interrupted test is queued again.
UpRequeued ==
    /\ server = "recovered" /\ server' = "up"
    /\ tests' = [t \in Tests |-> [tests[t] EXCEPT !.status =
                    IF @ = "submitting" THEN "queued" ELSE @]]
    /\ UNCHANGED <<secret, calls, op, runner, faults, crashes>>

\* mark_interrupted_model_tests_unknown, and the runner starts.
Up ==
    /\ server = "recovered"
    /\ server' = "up"
    /\ tests' = [t \in Tests |-> [tests[t] EXCEPT !.status =
                    IF @ = "submitting" THEN "submission_outcome_unknown" ELSE @]]
    /\ UNCHANGED <<secret, calls, op, runner, faults, crashes>>

-----------------------------------------------------------------------------
(* Faults *)

\* An I/O error leaves the handler; the server stays up.  A write may leave a
\* part of its file.
StepFails ==
    /\ faults < MaxFaults /\ server = "up"
    /\ op.at \in {"writing", "renaming", "unlinking"}
    /\ faults' = faults + 1
    /\ \E left \in {"none", "bad"} :
           temp' = IF op.at = "writing" THEN [temp EXCEPT ![op.version] = left] ELSE temp
    /\ op' = Idle
    /\ UNCHANGED <<supplier, issued, versions, replacing, deleting, final, tests, calls, server,
                   runner, crashes>>

\* The evidence of a test cannot be written: its row stays 'submitting'.
EndFails ==
    /\ faults < MaxFaults /\ runner.at \in {"ending", "failing"}
    /\ faults' = faults + 1
    /\ runner' = Resting
    /\ UNCHANGED <<secret, tests, calls, server, op, crashes>>

\* Somebody else's hand: a secret file is truncated or loses its mode.
Damage(v) ==
    /\ faults < MaxFaults /\ final[v] = "whole"
    /\ faults' = faults + 1
    /\ final' = [final EXCEPT ![v] = "bad"]
    /\ UNCHANGED <<supplier, issued, versions, replacing, deleting, temp, tests, calls, server,
                   op, runner, crashes>>

Crash ==
    /\ crashes < MaxCrashes /\ server # "down"
    /\ crashes' = crashes + 1
    /\ server' = "down"
    /\ \E left \in {"none", "bad"} :
           temp' = IF op.at = "writing" THEN [temp EXCEPT ![op.version] = left] ELSE temp
    /\ op' = Idle /\ runner' = Resting
    /\ UNCHANGED <<supplier, issued, versions, replacing, deleting, final, tests, calls, faults>>

-----------------------------------------------------------------------------
Handler ==
    \/ Replace \/ WriteTemp \/ NoteTemp \/ Point \/ Rename \/ Finish
    \/ \E force \in BOOLEAN : Delete(force)
    \/ Revoke \/ Unlink \/ Forget \/ ReadCurrent
    \/ \E t \in Tests : CreateTest(t)

Thread ==
    \/ \E t \in Tests : Pick(t)
    \/ Claim \/ Load \/ Read \/ Call \/ End

Boot ==
    \/ Start \/ \E j \in op.todo : RecoverFiles(j)
    \/ RecoverDeletion \/ RecoverVersion \/ RecoverJournal \/ Recovered \/ Up

Fault == StepFails \/ EndFails \/ (\E v \in Version : Damage(v)) \/ Crash

Next == Handler \/ Thread \/ Boot \/ Fault

Spec == Init /\ [][Next]_vars

-----------------------------------------------------------------------------
(* Properties *)

TypeOK ==
    /\ supplier \in [current : Version \cup {0}, revision : Nat]
    /\ issued \in 0..MaxVersions
    /\ versions \in [Version -> VersionState]
    /\ replacing \in [Version -> JournalState]
    /\ deleting \subseteq Version
    /\ temp \in [Version -> FileState]
    /\ final \in [Version -> FileState]
    /\ tests \in [Tests -> TestRow]
    /\ calls \in [Tests -> Nat]
    /\ server \in {"up", "down", "recovering", "recovered"}
    /\ op \in Operation
    /\ runner \in Runner
    /\ faults \in Nat /\ crashes \in Nat

\* The supplier never points at a secret that is lost: as long as nobody damages
\* its file, the current version is ready with a whole file, or a journal and one
\* whole file are there for the next start to finish it, wherever a handler, a
\* recovery or the disk gave up.
CurrentIsRecoverable ==
    LET v == supplier.current
    IN  v # 0 /\ final[v] # "bad" =>
            \/ versions[v] = "ready" /\ final[v] = "whole"
            \/ /\ versions[v] \in {"pending_finalize", "ready"}
               /\ replacing[v] # "none" /\ "whole" \in {temp[v], final[v]}

\* "For every boundary, restart recovery must converge to ready, completed
\* deletion, or explicit credential_storage_corrupt": when recover is through, no
\* version is pending, what is absent has left no file with plaintext behind, and
\* what is ready has its file.  Also when the journals are taken in an unlucky
\* order, and when the recovery itself was cut off before.
RecoveryConverges ==
    server = "recovered" =>
        /\ deleting = {}
        /\ \A v \in Version :
               /\ versions[v] \in {"absent", "ready", "corrupt"}
               /\ temp[v] = "none"
               /\ versions[v] = "absent" => final[v] = "none"
               /\ versions[v] = "ready" => final[v] # "none"
               /\ versions[v] = "corrupt" => final[v] # "whole"

\* A deletion reads the tests that hold the secret before its transaction, while
\* the thread claims them: still no test is left waiting for a secret that is
\* gone, and one left submitting is in the thread's hands (or its end could not be
\* written, and the next start ends it).
DeletedIsLetGo ==
    \A t \in Tests :
        LET v == tests[t].credential
        IN  v # 0 /\ versions[v] \in {"absent", "pending_delete"} =>
                /\ tests[t].status # "queued"
                /\ tests[t].status = "submitting" /\ server = "up" =>
                       runner.test = t \/ faults > 0

\* What a row says of the provider is true: a test is called at most once, one that
\* is queued or was revoked in the queue was never called, a completed one was.
OutcomeIsHonest ==
    \A t \in Tests :
        /\ calls[t] <= 1
        /\ tests[t].status \in {"none", "queued", "revoked"} => calls[t] = 0
        /\ tests[t].status = "completed" => calls[t] = 1

\* An end is an end: the thread's late answer, a forced deletion and a restart
\* never replace one another's verdict.
EndIsFinal ==
    [][\A t \in Tests : tests[t].status \in Terminal => tests'[t] = tests[t]]_vars

-----------------------------------------------------------------------------
(* The promise that rows, files and journals keep together *)

\* A version is to be until the transaction that points at it, and deleted from the
\* transaction that says so.  A file that is not there was lost.
Unborn(v) == v > issued \/ (op.at \in {"writing", "noting", "pointing"} /\ op.version = v)
LifeOf(v) ==
    IF Unborn(v) THEN "unborn"
    ELSE IF versions[v] = "absent" \/ v \in deleting THEN "gone"
    ELSE IF final[v] = "bad" THEN "spoiled"
    ELSE IF versions[v] # "corrupt" /\ "whole" \in {temp[v], final[v]} THEN "held"
    ELSE "lost"

Vault == INSTANCE SecretVault
             WITH Versions <- Version, current <- supplier.current,
                  life <- [v \in Version |-> LifeOf(v)]

\* No handler, error, death or recovery, in any order, loses a version that was put,
\* older ones included (jobs and tests are frozen to them), or brings one back.
KeepsVault == Vault!VaultSpec

=============================================================================
