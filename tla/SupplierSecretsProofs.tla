----------------------- MODULE SupplierSecretsProofs -----------------------
(***************************************************************************)
(* Proofs about SupplierSecrets, for any tests, versions, faults and       *)
(* deaths.                                                                 *)
(***************************************************************************)
EXTENDS SupplierSecrets, TLAPS

(***************************************************************************)
(* The inductive invariant, in five parts.  A version: its row, its        *)
(* journals and its two files fit together after every step.               *)
(***************************************************************************)
VersionFits(v) ==
    /\ v > issued => versions[v] = "absent" /\ temp[v] = "none" /\ replacing[v] = "none"
    /\ v = supplier.current => versions[v] # "absent" /\ v \notin deleting
    /\ versions[v] = "absent" => final[v] = "none" /\ v \notin deleting
    /\ temp[v] # "none" =>
           /\ final[v] = "none" /\ replacing[v] # "none"
           /\ versions[v] \in {"absent", "pending_finalize", "pending_delete"}
           /\ versions[v] # "absent" => temp[v] = "whole"
    /\ versions[v] = "pending_finalize" =>
           /\ replacing[v] # "none" /\ v \notin deleting
           /\ temp[v] = "whole" \/ final[v] # "none"
    /\ versions[v] = "pending_delete" => v \in deleting
    /\ versions[v] = "ready" /\ final[v] = "none" => v \in deleting
    /\ versions[v] = "corrupt" => final[v] = "bad" \/ (final[v] = "none" /\ v \in deleting)

\* What the main thread has in hand.
Making == {"writing", "noting", "pointing"}
Settling == {"settling", "spoiling", "clearing"}

HandFits ==
    LET v == op.version
    IN  /\ server \in {"down", "recovered"} => op.at = "idle"
        /\ server = "recovering" => op.at \in Settling \cup {"idle"}
        /\ server = "up" => op.at \notin Settling
        /\ op.at # "idle" => v \in Version
        /\ op.at \in Making => versions[v] = "absent" /\ replacing[v] # "none" /\ v <= issued
        /\ op.at \in {"noting", "pointing"} => temp[v] = "whole"
        /\ op.at = "renaming" => versions[v] = "pending_finalize" /\ temp[v] = "whole"
        /\ op.at = "finishing" =>
               versions[v] = "pending_finalize" /\ temp[v] = "none" /\ final[v] # "none"
        /\ op.at = "revoking" => v = supplier.current
        /\ op.at \in {"unlinking", "forgetting"} => v \in deleting
        /\ op.at = "forgetting" => final[v] = "none"
        /\ op.at \in Settling /\ op.journal = "delete" =>
               op.at = "settling" /\ v \in deleting /\ final[v] = "none"
        /\ op.at \in Settling /\ op.journal = "replace" => temp[v] = "none"
        /\ op.at = "settling" /\ op.journal = "replace" /\ versions[v] # "absent" =>
               final[v] # "none"
        /\ op.at = "spoiling" => versions[v] # "absent" /\ final[v] # "whole"
        /\ op.at = "clearing" => versions[v] # "pending_finalize"

\* A recovery has every journal that matters before it or in hand.
Handled(v, kind) ==
    \/ [version |-> v, kind |-> kind] \in op.todo
    \/ op.at \in {"settling", "spoiling"} /\ op.version = v /\ op.journal = kind

Unfinished(v) == versions[v] = "pending_finalize" \/ temp[v] # "none"

JournalsAreSeen ==
    /\ server = "recovering" =>
           \A v \in Version : /\ v \in deleting <=> Handled(v, "delete")
                              /\ Unfinished(v) => Handled(v, "replace")
    /\ server = "recovering" /\ op.at \in {"settling", "spoiling"} =>
           [version |-> op.version, kind |-> op.journal] \notin op.todo
    /\ server = "recovered" => \A v \in Version : v \notin deleting /\ ~Unfinished(v)

\* A test holds a version that was ready once, and none that is gone.
Held(t) == tests[t].credential

TestFits(t) ==
    /\ tests[t].status = "none" <=> Held(t) = 0
    /\ Held(t) # 0 =>
           /\ Held(t) <= issued
           /\ ~Unfinished(Held(t))
           /\ op.at \in Making => Held(t) # op.version
    /\ Held(t) # 0 /\ (Held(t) \in deleting \/ versions[Held(t)] = "absent") =>
           /\ tests[t].status # "queued"
           /\ tests[t].status = "submitting" /\ server = "up" => runner.test = t \/ faults > 0
    /\ op.at = "revoking" /\ Held(t) = op.version =>
           /\ tests[t].status = "queued" => t \in op.cancel
           /\ tests[t].status = "submitting" =>
                  t \in op.giveup \/ runner.test = t \/ faults > 0

\* What the thread has in hand, and what it has done.
Out(t) == tests[t].status \in {"submitting", "submission_outcome_unknown"}

RunnerFits ==
    LET t == runner.test
    IN  /\ server # "up" => runner = Resting
        /\ runner.at = "idle" => t = NoTest
        /\ runner.at # "idle" => t \in Tests
        /\ runner.at \in {"claiming", "refusing"} => tests[t].status \in {"queued", "revoked"}
        /\ runner.at \in {"loading", "reading", "calling", "failing"} => Out(t) /\ calls[t] = 0
        /\ runner.at = "ending" => Out(t) /\ calls[t] = 1

SecretsInv ==
    /\ TypeOK
    /\ \A v \in Version : VersionFits(v)
    /\ HandFits /\ JournalsAreSeen
    /\ \A t \in Tests : TestFits(t)
    /\ RunnerFits /\ OutcomeIsHonest

-----------------------------------------------------------------------------
(* Types *)

LEMMA IdleTypes == Idle \in Operation /\ Resting \in Runner
BY BoundsAssumption DEF Idle, Operation, Step, Resting, Runner, RunnerStep

\* The main thread goes on to another step of what it has in hand.
LEMMA Onward ==
    ASSUME TypeOK, NEW step \in Step
    PROVE  [op EXCEPT !.at = step] \in Operation
BY DEF TypeOK, Operation

LEMMA OpType == TypeOK /\ [Next]_vars => op' \in Operation
<1> SUFFICES ASSUME TypeOK, [Next]_vars PROVE op' \in Operation
  OBVIOUS
<1> USE DEF TypeOK
<1>1. CASE Replace
  <2>1. issued' \in Version /\ supplier.revision \in Nat
    BY <1>1, BoundsAssumption DEF Replace, Version
  <2>2. op' = [at |-> "writing", version |-> issued', expected |-> supplier.revision,
               cancel |-> {}, giveup |-> {}, journal |-> "replace", todo |-> {}]
    BY <1>1 DEF Replace, Idle
  <2> QED
    BY <2>1, <2>2 DEF Operation, Step
<1>2. ASSUME NEW force \in BOOLEAN, Delete(force) PROVE op' \in Operation
  <2>1. supplier.current \in Version \cup {0} /\ supplier.revision \in Nat
    OBVIOUS
  <2>2. op' = [at |-> "revoking", version |-> supplier.current,
               expected |-> supplier.revision,
               cancel |-> References(supplier.current, "queued"),
               giveup |-> References(supplier.current, "submitting"),
               journal |-> "replace", todo |-> {}]
    BY <1>2 DEF Delete, Idle
  <2> QED
    BY <2>1, <2>2 DEF Operation, Step, References
<1>3. CASE Start
  <2>1. Journals \subseteq Journal
    BY DEF Journals, Journal
  <2>2. op' = [at |-> "idle", version |-> 0, expected |-> 0, cancel |-> {}, giveup |-> {},
               journal |-> "replace", todo |-> Journals]
    BY <1>3 DEF Start, Idle
  <2> QED
    BY <2>1, <2>2 DEF Operation, Step
<1>4. ASSUME NEW j \in op.todo, RecoverFiles(j) PROVE op' \in Operation
  <2>1. j \in Journal /\ j.version \in Version /\ j.kind \in {"replace", "delete"}
    BY DEF Operation, Journal
  <2>2. PICK step \in {"spoiling", "settling"} :
           op' = [op EXCEPT !.at = step, !.version = j.version, !.journal = j.kind,
                            !.todo = @ \ {j}]
    BY <1>4 DEF RecoverFiles
  <2> QED
    BY <2>1, <2>2 DEF Operation, Step
<1>5. CASE Point \/ Finish \/ Forget \/ Crash \/ StepFails
  BY <1>5, IdleTypes, Onward DEF Point, Finish, Forget, Crash, StepFails, Step
<1>6. CASE \/ WriteTemp \/ NoteTemp \/ Rename \/ Revoke \/ Unlink
           \/ RecoverDeletion \/ RecoverVersion \/ RecoverJournal
  BY <1>6, Onward
  DEF WriteTemp, NoteTemp, Rename, Revoke, Unlink, RecoverDeletion, RecoverVersion,
      RecoverJournal, Step
<1>7. CASE \/ ReadCurrent \/ (\E t \in Tests : CreateTest(t)) \/ Thread \/ Recovered \/ Up
           \/ EndFails \/ (\E v \in Version : Damage(v)) \/ UNCHANGED vars
  BY <1>7 DEF ReadCurrent, CreateTest, Thread, Pick, Claim, Load, Read, Call, End, Recovered,
              Up, EndFails, Damage, vars
<1> QED
  BY <1>1, <1>2, <1>3, <1>4, <1>5, <1>6, <1>7 DEF Next, Handler, Boot, Fault

\* The tables and files of the secret.
LEMMA SecretType ==
    TypeOK /\ HandFits /\ [Next]_vars =>
        /\ supplier' \in [current : Version \cup {0}, revision : Nat]
        /\ issued' \in 0..MaxVersions
        /\ versions' \in [Version -> VersionState]
        /\ replacing' \in [Version -> JournalState]
        /\ deleting' \subseteq Version
        /\ temp' \in [Version -> FileState] /\ final' \in [Version -> FileState]
<1> DEFINE Typed ==
        /\ supplier \in [current : Version \cup {0}, revision : Nat]
        /\ issued \in 0..MaxVersions
        /\ versions \in [Version -> VersionState]
        /\ replacing \in [Version -> JournalState]
        /\ deleting \subseteq Version
        /\ temp \in [Version -> FileState] /\ final \in [Version -> FileState]
<1> SUFFICES ASSUME TypeOK, HandFits, [Next]_vars PROVE Typed'
  OBVIOUS
<1>a. Typed /\ op.version \in Version \cup {0} /\ op.expected \in Nat
  BY DEF TypeOK, Operation
<1> USE DEF VersionState, JournalState, FileState
<1>1. CASE Replace
  <2>1. issued' \in 0..MaxVersions
    BY <1>1, <1>a, BoundsAssumption DEF Replace
  <2> QED
    BY <1>1, <1>a, <2>1 DEF Replace
<1>2. CASE WriteTemp \/ NoteTemp
  BY <1>2, <1>a DEF WriteTemp, NoteTemp
<1>3. CASE Point
  BY <1>3, <1>a DEF Point
<1>4. CASE Rename
  <2>1. op.version \in Version => temp[op.version] \in FileState
    BY <1>a
  <2> QED
    BY <1>4, <1>a, <2>1 DEF Rename
<1>5. CASE Finish \/ Forget \/ Unlink
  BY <1>5, <1>a DEF Finish, Forget, Unlink
<1>6. CASE Revoke
  <2>1. op.version \in Version
    BY <1>6 DEF Revoke, Working, HandFits
  <2> QED
    BY <1>6, <1>a, <2>1 DEF Revoke
<1>7. CASE ReadCurrent \/ Read
  BY <1>7, <1>a DEF ReadCurrent, Read
<1>8. ASSUME NEW j \in op.todo, RecoverFiles(j) PROVE Typed'
  BY <1>8, <1>a DEF RecoverFiles
<1>9. CASE RecoverDeletion \/ RecoverVersion \/ RecoverJournal
  BY <1>9, <1>a DEF RecoverDeletion, RecoverVersion, RecoverJournal
<1>10. CASE StepFails \/ Crash
  BY <1>10, <1>a DEF StepFails, Crash
<1>11. ASSUME NEW v \in Version, Damage(v) PROVE Typed'
  BY <1>11, <1>a DEF Damage
<1>12. CASE UNCHANGED secret
  BY <1>12, <1>a DEF secret
<1>13. \/ \E force \in BOOLEAN : Delete(force)
       \/ \E t \in Tests : CreateTest(t) \/ Pick(t)
       \/ Claim \/ Load \/ Call \/ End \/ Start \/ Recovered \/ Up \/ EndFails \/ UNCHANGED vars
       => UNCHANGED secret
  BY DEF Delete, CreateTest, Pick, Claim, Load, Call, End, Start, Recovered, Up, EndFails,
         vars, Goto
<1> QED
  BY <1>1, <1>2, <1>3, <1>4, <1>5, <1>6, <1>7, <1>8, <1>9, <1>10, <1>11, <1>12, <1>13
  DEF Next, Handler, Thread, Boot, Fault

LEMMA TypeStep == SecretsInv /\ [Next]_vars => TypeOK'
<1> SUFFICES ASSUME SecretsInv, [Next]_vars PROVE TypeOK'
  OBVIOUS
<1>a. TypeOK /\ HandFits /\ RunnerFits
  BY DEF SecretsInv
<1>1. /\ supplier' \in [current : Version \cup {0}, revision : Nat]
      /\ issued' \in 0..MaxVersions
      /\ versions' \in [Version -> VersionState]
      /\ replacing' \in [Version -> JournalState]
      /\ deleting' \subseteq Version
      /\ temp' \in [Version -> FileState] /\ final' \in [Version -> FileState]
      /\ op' \in Operation
  BY <1>a, SecretType, OpType
<1>2. tests' \in [Tests -> TestRow]
  <2> USE <1>a DEF TypeOK, TestRow, TestStatus, Terminal
  <2>1. ASSUME NEW t \in Tests, CreateTest(t) PROVE tests' \in [Tests -> TestRow]
    BY <2>1 DEF CreateTest
  <2>2. CASE Claim
    BY <2>2 DEF Claim
  <2>3. CASE End
    <3>1. PICK status \in {"completed", "failed", "submission_outcome_unknown"} :
             tests' = [tests EXCEPT ![runner.test].status =
                          IF @ = "submitting" THEN status ELSE @]
      BY <2>3 DEF End
    <3>2. runner.test \in Tests /\ tests[runner.test] \in TestRow
      BY <2>3 DEF End, RunnerFits
    <3>3. \A t \in Tests : tests'[t] \in TestRow
      BY <3>1, <3>2
    <3> QED
      BY <3>1, <3>3
  <2>4. CASE Revoke
    <3>1. \A t \in Tests : Revoked(t) \in TestStatus
      BY DEF Revoked
    <3> QED
      BY <2>4, <3>1 DEF Revoke
  <2>5. CASE Up
    BY <2>5 DEF Up
  <2>6. CASE tests' = tests
    BY <2>6
  <2> QED
    BY <2>1, <2>2, <2>3, <2>4, <2>5, <2>6
    DEF Next, Handler, Thread, Boot, Fault, Replace, WriteTemp, NoteTemp, Point, Rename, Finish,
        Delete, Unlink, Forget, ReadCurrent, Pick, Load, Read, Call, Start, RecoverFiles,
        RecoverDeletion, RecoverVersion, RecoverJournal, Recovered, StepFails, EndFails, Damage,
        Crash, vars
<1>3. calls' \in [Tests -> Nat]
  <2>1. CASE Call
    <3>1. runner.test \in Tests /\ calls[runner.test] \in Nat
      BY <1>a, <2>1 DEF TypeOK, Call, RunnerFits
    <3> QED
      BY <1>a, <2>1, <3>1 DEF TypeOK, Call
  <2>2. CASE calls' = calls
    BY <1>a, <2>2 DEF TypeOK
  <2> QED
    BY <2>1, <2>2
    DEF Next, Handler, Thread, Boot, Fault, Replace, WriteTemp, NoteTemp, Point, Rename, Finish,
        Delete, Revoke, Unlink, Forget, ReadCurrent, CreateTest, Pick, Claim, Load, Read, End,
        Start, RecoverFiles, RecoverDeletion, RecoverVersion, RecoverJournal, Recovered, Up,
        StepFails, EndFails, Damage, Crash, vars
<1>4. runner' \in Runner
  <2> USE <1>a DEF TypeOK, Runner, RunnerStep
  <2>1. ASSUME NEW t \in Tests, Pick(t) PROVE runner' \in Runner
    BY <2>1 DEF Pick
  <2>2. CASE Claim
    BY <2>2, IdleTypes DEF Claim
  <2>3. CASE Load \/ Read \/ Call
    BY <2>3 DEF Load, Read, Call, Goto
  <2>4. CASE End \/ EndFails \/ Crash
    BY <2>4, IdleTypes DEF End, EndFails, Crash
  <2>5. CASE runner' = runner
    BY <2>5
  <2> QED
    BY <2>1, <2>2, <2>3, <2>4, <2>5
    DEF Next, Handler, Thread, Boot, Fault, Replace, WriteTemp, NoteTemp, Point, Rename, Finish,
        Delete, Revoke, Unlink, Forget, ReadCurrent, CreateTest, Start, RecoverFiles,
        RecoverDeletion, RecoverVersion, RecoverJournal, Recovered, Up, StepFails, Damage, vars
<1>5. /\ server' \in {"up", "down", "recovering", "recovered"}
      /\ faults' \in Nat /\ crashes' \in Nat
  <2>1. CASE StepFails \/ EndFails \/ Crash \/ \E v \in Version : Damage(v)
    BY <1>a, <2>1 DEF TypeOK, StepFails, EndFails, Crash, Damage
  <2>2. CASE Start \/ Recovered \/ Up
    BY <1>a, <2>2 DEF TypeOK, Start, Recovered, Up
  <2>3. CASE UNCHANGED <<server, faults, crashes>>
    BY <1>a, <2>3 DEF TypeOK
  <2> QED
    BY <2>1, <2>2, <2>3
    DEF Next, Handler, Thread, Boot, Fault, Replace, WriteTemp, NoteTemp, Point, Rename, Finish,
        Delete, Revoke, Unlink, Forget, ReadCurrent, CreateTest, Pick, Claim, Load, Read, Call,
        End, RecoverFiles, RecoverDeletion, RecoverVersion, RecoverJournal, vars
<1> QED
  BY <1>1, <1>2, <1>3, <1>4, <1>5 DEF TypeOK

-----------------------------------------------------------------------------
(* The files and rows of a version *)

\* The steps that leave the secret alone.
LEMMA SecretKept ==
    \/ \E force \in BOOLEAN : Delete(force)
    \/ \E t \in Tests : CreateTest(t) \/ Pick(t)
    \/ Claim \/ Load \/ Call \/ End \/ Start \/ Recovered \/ Up \/ EndFails \/ UNCHANGED vars
    => UNCHANGED secret
BY DEF Delete, CreateTest, Pick, Claim, Load, Call, End, Start, Recovered, Up, EndFails,
       vars, Goto

\* The version a test of the thread holds.
LEMMA RunnerHolds ==
    ASSUME SecretsInv, runner.at # "idle"
    PROVE  /\ server = "up" /\ runner.test \in Tests
           /\ Held(runner.test) \in Version /\ Held(runner.test) <= issued
           /\ ~Unfinished(Held(runner.test))
           /\ op.at \in Making => Held(runner.test) # op.version
<1>1. server = "up" /\ runner.test \in Tests
  BY DEF SecretsInv, RunnerFits, Resting
<1>2. runner \in Runner /\ tests[runner.test] \in TestRow
  BY <1>1 DEF SecretsInv, TypeOK
<1>3. tests[runner.test].status # "none"
  BY <1>2 DEF SecretsInv, RunnerFits, Runner, RunnerStep, Out
<1>4. Held(runner.test) # 0 /\ Held(runner.test) \in Version
  BY <1>1, <1>2, <1>3 DEF SecretsInv, TestFits, Held, TestRow
<1> QED
  BY <1>1, <1>4 DEF SecretsInv, TestFits

LEMMA VersionStep ==
    ASSUME SecretsInv, [Next]_vars, NEW v \in Version
    PROVE  VersionFits(v)'
<1>a. /\ VersionFits(v) /\ HandFits
      /\ supplier \in [current : Version \cup {0}, revision : Nat]
      /\ issued \in 0..MaxVersions
      /\ versions \in [Version -> VersionState] /\ replacing \in [Version -> JournalState]
      /\ deleting \subseteq Version
      /\ temp \in [Version -> FileState] /\ final \in [Version -> FileState]
  BY DEF SecretsInv, TypeOK
<1>b. /\ v \in Nat \ {0} /\ op.version \in Version \cup {0}
      /\ op.journal \in {"replace", "delete"}
  BY DEF Version, SecretsInv, TypeOK, Operation
<1> USE DEF VersionFits
<1>1. CASE Replace
  <2>1. issued' = issued + 1 /\ replacing' = [replacing EXCEPT ![issued'] = "journal_created"]
        /\ UNCHANGED <<supplier, versions, deleting, temp, final>>
    BY <1>1 DEF Replace
  <2> QED
    BY <1>a, <1>b, <2>1
<1>2. CASE WriteTemp
  BY <1>2, <1>a, <1>b DEF WriteTemp, Working, HandFits, Making
<1>3. CASE NoteTemp
  BY <1>3, <1>a, <1>b DEF NoteTemp, Working, HandFits, Making
<1>4. CASE Point
  BY <1>4, <1>a, <1>b DEF Point, Working, HandFits, Making
<1>5. CASE Rename
  BY <1>5, <1>a, <1>b DEF Rename, Working, HandFits
<1>6. CASE Finish
  BY <1>6, <1>a, <1>b DEF Finish, Working, HandFits
<1>7. CASE Revoke
  BY <1>7, <1>a, <1>b DEF Revoke, Working, HandFits
<1>8. CASE Unlink
  BY <1>8, <1>a, <1>b DEF Unlink, Working, HandFits
<1>9. CASE Forget
  BY <1>9, <1>a, <1>b DEF Forget, Working, HandFits
<1>10. CASE ReadCurrent
  BY <1>10, <1>a, <1>b DEF ReadCurrent, VersionState, FileState
<1>11. CASE Read
  <2>1. UNCHANGED <<supplier, issued, replacing, deleting, temp, final>>
    BY <1>11 DEF Read
  <2>2. /\ Held(runner.test) \in Version /\ ~Unfinished(Held(runner.test))
    BY <1>11, RunnerHolds DEF Read
  <2>3. \/ versions' = versions
        \/ /\ final[Held(runner.test)] # "whole"
           /\ versions' = [versions EXCEPT ![Held(runner.test)] =
                              IF @ = "absent" THEN @ ELSE "corrupt"]
    BY <1>11 DEF Read, Held
  <2> QED
    BY <1>a, <1>b, <2>1, <2>2, <2>3 DEF Unfinished, VersionState, FileState
<1>12. ASSUME NEW j \in op.todo, RecoverFiles(j) PROVE VersionFits(v)'
  <2>1. UNCHANGED <<supplier, issued, versions, replacing, deleting>>
    BY <1>12 DEF RecoverFiles
  <2>2. j \in Journal /\ server = "recovering"
    BY <1>12 DEF SecretsInv, TypeOK, Operation, RecoverFiles
  <2>3. j.kind = "delete" => j.version \in deleting
    <3>1. j = [version |-> j.version, kind |-> j.kind] /\ j.version \in Version
      BY <2>2 DEF Journal
    <3> QED
      BY <2>2, <3>1 DEF SecretsInv, JournalsAreSeen, Handled
  <2>4. CASE j.kind = "delete" \/ versions[j.version] = "absent"
    BY <1>12, <1>a, <1>b, <2>1, <2>3, <2>4 DEF RecoverFiles
  <2>5. CASE j.kind # "delete" /\ versions[j.version] # "absent"
    BY <1>12, <1>a, <1>b, <2>1, <2>5 DEF RecoverFiles
  <2> QED
    BY <2>4, <2>5
<1>13. CASE RecoverDeletion
  BY <1>13, <1>a, <1>b DEF RecoverDeletion, HandFits, Settling
<1>14. CASE RecoverVersion
  BY <1>14, <1>a, <1>b DEF RecoverVersion, HandFits, Settling, VersionState, FileState
<1>15. CASE RecoverJournal
  BY <1>15, <1>a, <1>b DEF RecoverJournal, HandFits, Settling
<1>16. CASE StepFails \/ Crash
  BY <1>16, <1>a, <1>b DEF StepFails, Crash, HandFits, Making
<1>17. ASSUME NEW u \in Version, Damage(u) PROVE VersionFits(v)'
  BY <1>17, <1>a, <1>b DEF Damage
<1>18. CASE UNCHANGED secret
  BY <1>18, <1>a DEF secret
<1> QED
  BY <1>1, <1>2, <1>3, <1>4, <1>5, <1>6, <1>7, <1>8, <1>9, <1>10, <1>11, <1>12, <1>13, <1>14,
     <1>15, <1>16, <1>17, <1>18, SecretKept
  DEF Next, Handler, Thread, Boot, Fault

-----------------------------------------------------------------------------
(* The main thread *)

LEMMA HandStep == SecretsInv /\ [Next]_vars => HandFits'
<1> SUFFICES ASSUME SecretsInv, [Next]_vars PROVE HandFits'
  OBVIOUS
<1>a. /\ HandFits /\ \A v \in Version : VersionFits(v)
      /\ supplier \in [current : Version \cup {0}, revision : Nat]
      /\ issued \in 0..MaxVersions
      /\ versions \in [Version -> VersionState] /\ replacing \in [Version -> JournalState]
      /\ deleting \subseteq Version
      /\ temp \in [Version -> FileState] /\ final \in [Version -> FileState]
      /\ op \in Operation
  BY DEF SecretsInv, TypeOK
<1>b. Version \subseteq Nat \ {0}
  BY DEF Version
<1> USE DEF HandFits, Settling, Making
<1>1. CASE Replace
  <2>1. /\ issued' = issued + 1 /\ issued' \in Version
        /\ replacing' = [replacing EXCEPT ![issued'] = "journal_created"]
        /\ UNCHANGED <<versions, deleting, temp, final, server>> /\ server = "up"
    BY <1>1, <1>a, BoundsAssumption DEF Replace, Free, Working, Version
  <2>2. op'.at = "writing" /\ op'.version = issued'
    BY <1>1 DEF Replace, Idle
  <2>3. versions[issued'] = "absent"
    BY <1>a, <2>1 DEF VersionFits
  <2> QED
    BY <1>a, <2>1, <2>2, <2>3
<1>2. CASE WriteTemp \/ NoteTemp
  BY <1>2, <1>a DEF WriteTemp, NoteTemp, Working, Operation
<1>3. CASE Point
  BY <1>3, <1>a DEF Point, Working, Operation, Idle
<1>4. CASE Rename
  BY <1>4, <1>a DEF Rename, Working, Operation
<1>5. CASE Finish \/ Forget
  BY <1>5, <1>a DEF Finish, Forget, Working, Idle
<1>6. ASSUME NEW force \in BOOLEAN, Delete(force) PROVE HandFits'
  BY <1>6, <1>a DEF Delete, Free, Working, Idle, secret
<1>7. CASE Revoke \/ Unlink
  BY <1>7, <1>a DEF Revoke, Unlink, Working, Operation
<1>8. CASE ReadCurrent
  BY <1>8, <1>a DEF ReadCurrent, Free, Working
<1>9. CASE Read
  <2>1. /\ Held(runner.test) \in Version /\ ~Unfinished(Held(runner.test)) /\ server = "up"
    BY <1>9, RunnerHolds DEF Read
  <2>2. UNCHANGED <<supplier, issued, replacing, deleting, temp, final, server, op>>
    BY <1>9 DEF Read
  <2>3. \/ versions' = versions
        \/ versions' = [versions EXCEPT ![Held(runner.test)] =
                              IF @ = "absent" THEN @ ELSE "corrupt"]
    BY <1>9 DEF Read, Held
  <2> QED
    BY <1>a, <2>1, <2>2, <2>3 DEF Unfinished
<1>10. CASE Start \/ Recovered \/ Up
  BY <1>10, <1>a DEF Start, Recovered, Up, Idle, secret
<1>11. ASSUME NEW j \in op.todo, RecoverFiles(j) PROVE HandFits'
  <2>1. UNCHANGED <<supplier, issued, versions, replacing, deleting, server>>
        /\ server = "recovering" /\ j \in Journal
    BY <1>11, <1>a DEF RecoverFiles, Operation
  <2>2. j.version \in Version /\ (j.kind = "delete" => j.version \in deleting)
    <3>1. j = [version |-> j.version, kind |-> j.kind] /\ j.version \in Version
      BY <2>1 DEF Journal
    <3> QED
      BY <2>1, <3>1 DEF SecretsInv, JournalsAreSeen, Handled
  <2>3. op'.version = j.version /\ op'.journal = j.kind
        /\ op'.at \in {"spoiling", "settling"}
    BY <1>11, <1>a DEF RecoverFiles, Operation
  <2>4. CASE j.kind = "delete"
    BY <1>11, <1>a, <2>1, <2>2, <2>3, <2>4 DEF RecoverFiles, Operation
  <2>5. CASE j.kind = "replace"
    BY <1>11, <1>a, <2>1, <2>2, <2>3, <2>5 DEF RecoverFiles, Operation, VersionFits, FileState
  <2> QED
    BY <2>1, <2>4, <2>5 DEF Journal
<1>12. CASE RecoverDeletion \/ RecoverJournal
  BY <1>12, <1>a DEF RecoverDeletion, RecoverJournal, Operation
<1>13. CASE RecoverVersion
  BY <1>13, <1>a DEF RecoverVersion, Operation
<1>14. CASE StepFails \/ Crash
  BY <1>14 DEF StepFails, Crash, Idle
<1>15. ASSUME NEW u \in Version, Damage(u) PROVE HandFits'
  BY <1>15, <1>a DEF Damage
<1>16. CASE UNCHANGED <<secret, server, op>>
  BY <1>16, <1>a DEF secret
<1>17. \/ \E t \in Tests : CreateTest(t) \/ Pick(t)
       \/ Claim \/ Load \/ Call \/ End \/ EndFails \/ UNCHANGED vars
       => UNCHANGED <<secret, server, op>>
  BY DEF CreateTest, Pick, Claim, Load, Call, End, EndFails, vars, Goto
<1> QED
  BY <1>1, <1>2, <1>3, <1>4, <1>5, <1>6, <1>7, <1>8, <1>9, <1>10, <1>11, <1>12, <1>13, <1>14,
     <1>15, <1>16, <1>17
  DEF Next, Handler, Thread, Boot, Fault

-----------------------------------------------------------------------------
(* The recovery sees every journal *)

LEMMA JournalStep == SecretsInv /\ [Next]_vars => JournalsAreSeen'
<1> SUFFICES ASSUME SecretsInv, [Next]_vars PROVE JournalsAreSeen'
  OBVIOUS
<1>a. /\ HandFits /\ JournalsAreSeen /\ \A v \in Version : VersionFits(v)
      /\ versions \in [Version -> VersionState] /\ replacing \in [Version -> JournalState]
      /\ deleting \subseteq Version
      /\ temp \in [Version -> FileState] /\ final \in [Version -> FileState]
      /\ op \in Operation
  BY DEF SecretsInv, TypeOK
<1> USE DEF JournalsAreSeen, Handled, Unfinished
<1>1. CASE server' \in {"up", "down"}
  BY <1>1
<1>2. CASE Start
  <2>1. /\ server' = "recovering" /\ op'.todo = Journals /\ op'.at = "idle"
        /\ UNCHANGED <<versions, replacing, deleting, temp>>
    BY <1>2 DEF Start, Idle, secret
  <2>2. \A v \in Version : [version |-> v, kind |-> "delete"] \in Journals <=> v \in deleting
    BY DEF Journals
  <2>3. \A v \in Version : [version |-> v, kind |-> "replace"] \in Journals
                               <=> replacing[v] # "none"
    BY DEF Journals
  <2>4. \A v \in Version : Unfinished(v) => replacing[v] # "none"
    BY <1>a DEF VersionFits
  <2> QED
    BY <2>1, <2>2, <2>3, <2>4
<1>3. CASE Recovered
  BY <1>3, <1>a DEF Recovered, secret
<1>4. ASSUME NEW j \in op.todo, RecoverFiles(j) PROVE JournalsAreSeen'
  <2>1. /\ UNCHANGED <<versions, replacing, deleting, server>>
        /\ server = "recovering" /\ op.at = "idle" /\ j \in Journal
    BY <1>4, <1>a DEF RecoverFiles, Operation
  <2>2. /\ op'.version = j.version /\ op'.journal = j.kind
        /\ op'.at \in {"spoiling", "settling"} /\ op'.todo = op.todo \ {j}
    BY <1>4, <1>a DEF RecoverFiles, Operation
  <2>3. j = [version |-> j.version, kind |-> j.kind] /\ j.version \in Version
    BY <2>1 DEF Journal
  <2>4. \A v \in Version, kind \in {"replace", "delete"} : Handled(v, kind)' <=> Handled(v, kind)
    <3>1. \A v \in Version, kind \in {"replace", "delete"} :
             [version |-> v, kind |-> kind] = j <=> v = j.version /\ kind = j.kind
      BY <2>3
    <3> HIDE DEF Unfinished
    <3> QED
      BY <2>1, <2>2, <2>3, <3>1
  <2>5. \A v \in Version : Unfinished(v)' => Unfinished(v)
    BY <1>4, <1>a, <2>1 DEF RecoverFiles
  <2> QED
    BY <1>a, <2>1, <2>2, <2>3, <2>4, <2>5
<1>5. CASE RecoverDeletion
  <2>1. /\ UNCHANGED <<temp, server>> /\ server = "recovering"
        /\ versions' = [versions EXCEPT ![op.version] = "absent"]
        /\ deleting' = deleting \ {op.version}
        /\ op.at = "settling" /\ op.journal = "delete"
        /\ op'.at = "idle" /\ op'.todo = op.todo
    BY <1>5, <1>a DEF RecoverDeletion, Operation
  <2>2. [version |-> op.version, kind |-> "delete"] \notin op.todo
    BY <1>a, <2>1
  <2>3. \A v \in Version : Unfinished(v)' => Unfinished(v)
    BY <1>a, <2>1
  <2> QED
    BY <1>a, <2>1, <2>2, <2>3
<1>6. CASE RecoverVersion
  <2>1. /\ UNCHANGED <<temp, server, deleting>> /\ server = "recovering"
        /\ op.at \in {"settling", "spoiling"} /\ op.journal = "replace"
        /\ op'.at = "clearing" /\ op'.todo = op.todo
        /\ op.version \in Version /\ temp[op.version] = "none"
    BY <1>6, <1>a DEF RecoverVersion, Operation, HandFits, Settling
  <2>2. \A v \in Version : Unfinished(v)' => Unfinished(v) /\ v # op.version
    BY <1>6, <1>a, <2>1 DEF RecoverVersion
  <2> QED
    BY <1>a, <2>1, <2>2
<1>7. CASE RecoverJournal
  BY <1>7, <1>a DEF RecoverJournal, Operation
<1>8. ASSUME NEW u \in Version, Damage(u) PROVE JournalsAreSeen'
  BY <1>8, <1>a DEF Damage
<1>9. CASE Crash
  BY <1>9 DEF Crash
<1>10. CASE UNCHANGED vars
  BY <1>10, <1>a DEF vars, secret
<1>11. Handler \/ Thread \/ Up \/ StepFails \/ EndFails => server' = "up"
  <2>1. Thread \/ EndFails => server = "up"
    BY RunnerHolds DEF Thread, Pick, Claim, Load, Read, Call, End, EndFails
  <2> QED
    BY <2>1
    DEF Handler, Thread, Replace, WriteTemp, NoteTemp, Point, Rename, Finish, Delete, Revoke,
        Unlink, Forget, ReadCurrent, CreateTest, Pick, Claim, Load, Read, Call, End, Up,
        StepFails, EndFails, Free, Working, secret
<1> QED
  BY <1>1, <1>2, <1>3, <1>4, <1>5, <1>6, <1>7, <1>8, <1>9, <1>10, <1>11
  DEF Next, Boot, Fault

-----------------------------------------------------------------------------
(* The tests and their thread *)

LEMMA TestStep ==
    ASSUME SecretsInv, [Next]_vars, NEW t \in Tests
    PROVE  TestFits(t)'
<1>a. /\ TestFits(t) /\ HandFits /\ RunnerFits
      /\ supplier \in [current : Version \cup {0}, revision : Nat]
      /\ issued \in 0..MaxVersions
      /\ versions \in [Version -> VersionState] /\ deleting \subseteq Version
      /\ temp \in [Version -> FileState]
      /\ tests \in [Tests -> TestRow] /\ tests[t] \in TestRow
      /\ runner \in Runner /\ op \in Operation /\ faults \in Nat
  BY DEF SecretsInv, TypeOK
<1>b. Held(t) \in Version \cup {0} /\ Held(t) \in Nat /\ \A v \in Version : VersionFits(v)
  BY <1>a DEF SecretsInv, Held, TestRow, Version
<1> USE DEF TestFits, Held, Unfinished, Making
<1>1. CASE Replace
  <2>1. /\ issued' = issued + 1
        /\ UNCHANGED <<versions, deleting, temp, tests, server, runner, faults>>
    BY <1>1 DEF Replace
  <2>2. op'.at = "writing" /\ op'.version = issued'
    BY <1>1 DEF Replace, Idle
  <2> QED
    BY <1>a, <1>b, <2>1, <2>2
<1>2. CASE WriteTemp \/ NoteTemp \/ Point
  <2>1. op'.at = "idle" \/ (op'.at \in {"noting", "pointing", "renaming"} /\ op'.version = op.version)
    BY <1>2, <1>a DEF WriteTemp, NoteTemp, Point, Working, Operation, Idle
  <2>2. Held(t) # op.version \/ Held(t) = 0
    BY <1>2, <1>a DEF WriteTemp, NoteTemp, Point, Working
  <2>3. Held(t) # 0 => /\ versions'[Held(t)] = versions[Held(t)]
                       /\ temp'[Held(t)] = temp[Held(t)]
    BY <1>2, <1>a, <1>b, <2>2 DEF WriteTemp, NoteTemp, Point
  <2>4. UNCHANGED <<issued, deleting, tests, server, runner, faults>>
    BY <1>2 DEF WriteTemp, NoteTemp, Point
  <2> QED
    BY <1>a, <2>1, <2>2, <2>3, <2>4
<1>3. CASE Rename
  <2>1. /\ UNCHANGED <<issued, versions, deleting, tests, server, runner, faults>>
        /\ op'.at = "finishing" /\ op.version \in Version
        /\ temp' = [temp EXCEPT ![op.version] = "none"]
    BY <1>3, <1>a DEF Rename, Working, Operation, HandFits
  <2> QED
    BY <1>a, <1>b, <2>1
<1>4. CASE Finish
  <2>1. /\ UNCHANGED <<issued, temp, deleting, tests, server, runner, faults>>
        /\ op'.at = "idle" /\ op.version \in Version
        /\ versions[op.version] = "pending_finalize"
        /\ versions' = [versions EXCEPT ![op.version] = "ready"]
    BY <1>4, <1>a DEF Finish, Working, Idle, HandFits
  <2> QED
    BY <1>a, <1>b, <2>1
<1>5. ASSUME NEW force \in BOOLEAN, Delete(force) PROVE TestFits(t)'
  <2>1. /\ UNCHANGED <<secret, tests, server, runner, faults>>
        /\ op'.at = "revoking" /\ op'.version = supplier.current
        /\ op'.cancel = References(supplier.current, "queued")
        /\ op'.giveup = References(supplier.current, "submitting")
    BY <1>5 DEF Delete, Idle
  <2>2. tests[t] = [status |-> tests[t].status, credential |-> tests[t].credential]
    BY <1>a DEF TestRow
  <2>3. tests[t].credential = supplier.current =>
           /\ tests[t].status = "queued" => t \in op'.cancel
           /\ tests[t].status = "submitting" => t \in op'.giveup
    BY <2>1, <2>2 DEF References
  <2> QED
    BY <1>a, <2>1, <2>3 DEF secret
<1>6. CASE Revoke
  <2>1. /\ UNCHANGED <<issued, temp, server, runner, faults>>
        /\ op.at = "revoking" /\ op'.at = "unlinking" /\ op.version \in Version
        /\ tests'[t] = [tests[t] EXCEPT !.status = Revoked(t)]
        /\ deleting' = deleting \cup {op.version}
        /\ versions' = [versions EXCEPT ![op.version] = "pending_delete"]
    BY <1>6, <1>a DEF Revoke, Working, Operation, HandFits
  <2>2. /\ tests'[t].credential = tests[t].credential
        /\ tests'[t].status = Revoked(t)
    BY <1>a, <2>1 DEF TestRow
  <2>3. /\ tests[t].status \notin {"queued", "submitting"} => Revoked(t) = tests[t].status
        /\ tests[t].status = "queued" => Revoked(t) = IF t \in op.cancel THEN "revoked" ELSE "queued"
        /\ tests[t].status = "submitting" =>
               Revoked(t) = IF t \in op.giveup THEN "submission_outcome_unknown" ELSE "submitting"
    BY DEF Revoked
  <2>4. CASE Held(t) = op.version
    BY <1>a, <1>b, <2>1, <2>2, <2>3, <2>4
  <2>5. CASE Held(t) # op.version
    BY <1>a, <1>b, <2>1, <2>2, <2>3, <2>5
  <2> QED
    BY <2>4, <2>5
<1>7. CASE Unlink
  BY <1>7, <1>a DEF Unlink, Operation
<1>8. CASE Forget
  <2>1. /\ UNCHANGED <<issued, temp, tests, server, runner, faults>>
        /\ op'.at = "idle" /\ op.version \in deleting
        /\ deleting' = deleting \ {op.version}
        /\ versions' = [versions EXCEPT ![op.version] = "absent"]
    BY <1>8, <1>a DEF Forget, Working, Idle, HandFits
  <2> QED
    BY <1>a, <1>b, <2>1
<1>9. CASE ReadCurrent
  BY <1>9, <1>a, <1>b DEF ReadCurrent
<1>10. ASSUME NEW u \in Tests, CreateTest(u) PROVE TestFits(t)'
  <2>1. /\ UNCHANGED <<secret, server, op, runner, faults>> /\ op.at = "idle"
        /\ tests' = [tests EXCEPT ![u] = [status |-> "queued", credential |-> supplier.current]]
        /\ supplier.current \in Version /\ versions[supplier.current] = "ready"
    BY <1>10, <1>a DEF CreateTest, Free, Working
  <2>2. CASE t = u
    <3>1. tests'[t] = [status |-> "queued", credential |-> supplier.current]
      BY <1>a, <2>1, <2>2
    <3>2. /\ temp[supplier.current] = "none" /\ supplier.current \notin deleting
          /\ supplier.current <= issued /\ supplier.current # 0
      BY <1>a, <1>b, <2>1 DEF VersionFits, FileState, Version
    <3> QED
      BY <2>1, <3>1, <3>2 DEF secret
  <2>3. CASE t # u
    BY <1>a, <2>1, <2>3 DEF secret
  <2> QED
    BY <2>2, <2>3
<1>11. ASSUME NEW u \in Tests, Pick(u) PROVE TestFits(t)'
  <2>1. UNCHANGED <<secret, tests, server, op, faults>> /\ runner.at = "idle" /\ tests[u].status = "queued"
    BY <1>11 DEF Pick
  <2>2. runner.test = t => t = u
    <3>1. runner.test = NoTest
      BY <2>1 DEF SecretsInv, RunnerFits
    <3> QED
      BY <3>1, NoTestAssumption
  <2>3. runner'.test = u
    BY <1>11 DEF Pick
  <2> QED
    BY <1>a, <2>1, <2>2, <2>3 DEF secret
<1>12. CASE Claim
  <2>1. UNCHANGED <<secret, server, op, faults>> /\ runner.test \in Tests
    BY <1>12, <1>a DEF Claim, RunnerFits
  <2>2. CASE runner.test # t
    BY <1>12, <1>a, <2>1, <2>2 DEF Claim, secret
  <2>3. CASE runner.test = t /\ tests[t].status = "queued"
    <3>1. /\ tests'[t] = [tests[t] EXCEPT !.status = "submitting"]
          /\ runner'.test = t
      BY <1>12, <1>a, <2>1, <2>3 DEF Claim, Runner
    <3>2. tests'[t].credential = tests[t].credential /\ tests'[t].status = "submitting"
      BY <1>a, <3>1 DEF TestRow
    <3> QED
      BY <1>a, <2>1, <2>3, <3>1, <3>2 DEF secret
  <2>4. CASE runner.test = t /\ tests[t].status # "queued"
    <3>1. tests' = tests /\ tests[t].status = "revoked"
      BY <1>12, <1>a, <2>4 DEF Claim, RunnerFits
    <3> QED
      BY <1>a, <2>1, <3>1 DEF secret
  <2> QED
    BY <2>2, <2>3, <2>4
<1>13. CASE Load \/ Call
  BY <1>13, <1>a DEF Load, Call, Goto, Runner, secret
<1>14. CASE Read
  <2>1. UNCHANGED <<issued, deleting, temp, tests, server, op, faults>> /\ runner'.test = runner.test
    BY <1>14, <1>a DEF Read, Goto, Runner
  <2>2. \A v \in Version : /\ versions[v] # "pending_finalize" => versions'[v] # "pending_finalize"
                           /\ versions'[v] = "absent" => versions[v] = "absent"
    BY <1>14, <1>a DEF Read
  <2> QED
    BY <1>a, <1>b, <2>1, <2>2
<1>15. CASE End
  <2>1. UNCHANGED <<secret, server, op, faults>> /\ runner.test \in Tests
    BY <1>15, <1>a DEF End, RunnerFits
  <2>2. PICK status \in Terminal :
           tests' = [tests EXCEPT ![runner.test].status =
                        IF @ = "submitting" THEN status ELSE @]
    BY <1>15 DEF End, Terminal
  <2>3. CASE runner.test # t
    BY <1>a, <2>1, <2>2, <2>3 DEF secret
  <2>4. CASE runner.test = t
    <3>1. /\ tests'[t].credential = tests[t].credential
          /\ tests'[t].status = IF tests[t].status = "submitting" THEN status ELSE tests[t].status
      BY <1>a, <2>1, <2>2, <2>4 DEF TestRow
    <3>2. tests'[t].status \notin {"none", "queued", "submitting"}
      BY <1>15, <1>a, <2>2, <2>4, <3>1 DEF End, RunnerFits, Out, Terminal
    <3> QED
      BY <1>a, <2>1, <3>1, <3>2 DEF secret
  <2> QED
    BY <2>3, <2>4
<1>16. CASE EndFails \/ StepFails \/ Crash
  <2>1. EndFails \/ StepFails => faults' > 0
    BY <1>a DEF EndFails, StepFails
  <2>2. Crash => server' = "down"
    BY DEF Crash
  <2>3. Crash \/ StepFails => op'.at = "idle"
    BY DEF Crash, StepFails, Idle
  <2>4. UNCHANGED <<issued, versions, deleting, tests>>
    BY <1>16 DEF EndFails, StepFails, Crash, secret
  <2>5. \A v \in Version : temp[v] = "none" /\ (op.at = "writing" => v # op.version) => temp'[v] = "none"
    BY <1>16, <1>a DEF EndFails, StepFails, Crash, secret
  <2>6. EndFails => UNCHANGED <<op, server>>
    BY DEF EndFails
  <2>7. StepFails => UNCHANGED <<server, runner>>
    BY DEF StepFails
  <2> QED
    BY <1>16, <1>a, <1>b, <2>1, <2>2, <2>3, <2>4, <2>5, <2>6, <2>7
<1>17. CASE Start \/ Recovered
  BY <1>17, <1>a DEF Start, Recovered, Idle, secret
<1>18. ASSUME NEW j \in op.todo, RecoverFiles(j) PROVE TestFits(t)'
  <2>1. /\ UNCHANGED <<issued, versions, deleting, tests, server, runner, faults>>
        /\ server = "recovering" /\ op'.at \in {"spoiling", "settling"}
    BY <1>18, <1>a DEF RecoverFiles, Operation
  <2>2. \A v \in Version : temp[v] = "none" => temp'[v] = "none"
    BY <1>18, <1>a DEF RecoverFiles
  <2> QED
    BY <1>a, <1>b, <2>1, <2>2
<1>19. CASE RecoverDeletion
  <2>1. /\ UNCHANGED <<issued, temp, tests, server, runner, faults>>
        /\ op'.at = "idle" /\ op.version \in deleting
        /\ deleting' = deleting \ {op.version}
        /\ versions' = [versions EXCEPT ![op.version] = "absent"]
    BY <1>19, <1>a DEF RecoverDeletion, Operation, HandFits, Settling
  <2> QED
    BY <1>a, <1>b, <2>1
<1>20. CASE RecoverVersion
  <2>1. /\ UNCHANGED <<issued, temp, deleting, tests, server, runner, faults>>
        /\ op'.at = "clearing"
    BY <1>20, <1>a DEF RecoverVersion, Operation
  <2>2. \A v \in Version : /\ versions'[v] = "pending_finalize" => versions[v] = "pending_finalize"
                           /\ versions'[v] = "absent" => versions[v] = "absent"
    BY <1>20, <1>a DEF RecoverVersion
  <2> QED
    BY <1>a, <1>b, <2>1, <2>2
<1>21. CASE RecoverJournal
  BY <1>21, <1>a DEF RecoverJournal, Operation
<1>22. CASE Up
  <2>1. /\ UNCHANGED <<secret, op, runner, faults>> /\ op.at = "idle"
        /\ tests'[t] = [tests[t] EXCEPT !.status =
                           IF @ = "submitting" THEN "submission_outcome_unknown" ELSE @]
    BY <1>22, <1>a DEF Up, HandFits
  <2>2. /\ tests'[t].credential = tests[t].credential
        /\ tests'[t].status = IF tests[t].status = "submitting"
                              THEN "submission_outcome_unknown" ELSE tests[t].status
    BY <1>a, <2>1 DEF TestRow
  <2> QED
    BY <1>a, <2>1, <2>2 DEF secret
<1>23. ASSUME NEW u \in Version, Damage(u) PROVE TestFits(t)'
  BY <1>23, <1>a DEF Damage
<1>24. CASE UNCHANGED vars
  BY <1>24, <1>a DEF vars, secret
<1> QED
  BY <1>1, <1>2, <1>3, <1>4, <1>5, <1>6, <1>7, <1>8, <1>9, <1>10, <1>11, <1>12, <1>13, <1>14,
     <1>15, <1>16, <1>17, <1>18, <1>19, <1>20, <1>21, <1>22, <1>23, <1>24
  DEF Next, Handler, Thread, Boot, Fault

LEMMA ThreadStep == SecretsInv /\ [Next]_vars => RunnerFits' /\ OutcomeIsHonest'
<1> SUFFICES ASSUME SecretsInv, [Next]_vars PROVE RunnerFits' /\ OutcomeIsHonest'
  OBVIOUS
<1>a. /\ RunnerFits /\ OutcomeIsHonest /\ HandFits
      /\ tests \in [Tests -> TestRow] /\ calls \in [Tests -> Nat]
      /\ runner \in Runner /\ op \in Operation
  BY DEF SecretsInv, TypeOK
<1>b. \A t \in Tests : tests[t] \in TestRow
  BY <1>a
<1> USE DEF RunnerFits, OutcomeIsHonest, Out
<1>1. ASSUME NEW u \in Tests, CreateTest(u) PROVE RunnerFits' /\ OutcomeIsHonest'
  <2>1. /\ UNCHANGED <<calls, server, runner>> /\ tests[u].status = "none"
        /\ tests' = [tests EXCEPT ![u] = [status |-> "queued", credential |-> supplier.current]]
    BY <1>1 DEF CreateTest
  <2>2. runner.at # "idle" => runner.test # u
    BY <1>a, <2>1 DEF Runner, RunnerStep
  <2> QED
    BY <1>a, <2>1, <2>2 DEF Runner, RunnerStep
<1>2. ASSUME NEW u \in Tests, Pick(u) PROVE RunnerFits' /\ OutcomeIsHonest'
  BY <1>2, <1>a DEF Pick, secret
<1>3. CASE Claim
  <2>1. /\ UNCHANGED <<calls, server>> /\ runner.test \in Tests /\ server = "up"
    BY <1>3, <1>a DEF Claim, Resting
  <2>2. CASE tests[runner.test].status # "queued"
    BY <1>3, <1>a, <2>1, <2>2 DEF Claim, Resting
  <2>3. CASE tests[runner.test].status = "queued"
    <3>1. /\ tests' = [tests EXCEPT ![runner.test].status = "submitting"]
          /\ runner'.test = runner.test /\ runner'.at \in {"loading", "failing"}
      BY <1>3, <1>a, <2>3 DEF Claim, Runner
    <3> QED
      BY <1>a, <1>b, <2>1, <2>3, <3>1 DEF TestRow
  <2> QED
    BY <2>2, <2>3
<1>4. CASE Load \/ Read
  <2>1. /\ UNCHANGED <<tests, calls, server>> /\ runner'.test = runner.test /\ server = "up"
        /\ runner.at \in {"loading", "reading"}
        /\ runner'.at \in {"reading", "calling", "failing"}
    BY <1>4, <1>a DEF Load, Read, Goto, Runner, Resting
  <2> QED
    BY <1>a, <2>1
<1>5. CASE Call
  <2>1. /\ UNCHANGED <<tests, server>> /\ runner'.test = runner.test /\ server = "up"
        /\ runner.at = "calling" /\ runner'.at = "ending" /\ runner.test \in Tests
        /\ calls' = [calls EXCEPT ![runner.test] = @ + 1]
    BY <1>5, <1>a DEF Call, Goto, Runner, Resting
  <2> QED
    BY <1>a, <2>1
<1>6. CASE End
  <2>1. PICK status \in {"completed", "failed", "submission_outcome_unknown"} :
           /\ tests' = [tests EXCEPT ![runner.test].status =
                           IF @ = "submitting" THEN status ELSE @]
           /\ status = "completed" => runner.at = "ending"
    BY <1>6 DEF End
  <2>2. runner' = Resting /\ calls' = calls /\ runner.test \in Tests
        /\ runner.at \in {"ending", "failing"}
    BY <1>6, <1>a DEF End
  <2> QED
    BY <1>a, <1>b, <2>1, <2>2 DEF Resting, TestRow
<1>7. CASE EndFails \/ Crash
  BY <1>7, <1>a DEF EndFails, Crash, Resting
<1>8. CASE Revoke
  <2>1. /\ UNCHANGED <<calls, server, runner>>
        /\ tests' = [t \in Tests |-> [tests[t] EXCEPT !.status = Revoked(t)]]
    BY <1>8 DEF Revoke
  <2>2. \A t \in Tests :
           \/ Revoked(t) = tests[t].status
           \/ tests[t].status = "queued" /\ Revoked(t) = "revoked"
           \/ tests[t].status = "submitting" /\ Revoked(t) = "submission_outcome_unknown"
    BY DEF Revoked
  <2>3. \A t \in Tests : tests'[t].status = Revoked(t)
    BY <1>b, <2>1 DEF TestRow
  <2> QED
    BY <1>a, <2>1, <2>2, <2>3
<1>9. CASE Up
  <2>1. /\ UNCHANGED <<calls, runner>> /\ runner = Resting
        /\ tests' = [t \in Tests |-> [tests[t] EXCEPT !.status =
                        IF @ = "submitting" THEN "submission_outcome_unknown" ELSE @]]
    BY <1>9, <1>a DEF Up
  <2>2. \A t \in Tests : tests'[t].status = IF tests[t].status = "submitting"
                              THEN "submission_outcome_unknown" ELSE tests[t].status
    BY <1>b, <2>1 DEF TestRow
  <2> QED
    BY <1>a, <2>1, <2>2 DEF Resting
<1>10. CASE UNCHANGED <<tests, calls, runner>>
  <2>1. server' # "up" /\ server = "up" => Crash
    BY DEF Next, Handler, Thread, Boot, Fault, Replace, WriteTemp, NoteTemp, Point, Rename,
           Finish, Delete, Revoke, Unlink, Forget, ReadCurrent, CreateTest, Pick, Claim, Load,
           Read, Call, End, Start, RecoverFiles, RecoverDeletion, RecoverVersion, RecoverJournal,
           Recovered, Up, StepFails, EndFails, Damage, vars, secret
  <2> QED
    BY <1>a, <1>7, <1>10, <2>1
<1>11. \/ \E u \in Tests : CreateTest(u) \/ Pick(u)
       \/ Claim \/ Load \/ Read \/ Call \/ End \/ EndFails \/ Crash \/ Revoke \/ Up
       \/ UNCHANGED <<tests, calls, runner>>
  BY DEF Next, Handler, Thread, Boot, Fault, Replace, WriteTemp, NoteTemp, Point, Rename, Finish,
         Delete, Unlink, Forget, ReadCurrent, Start, RecoverFiles, RecoverDeletion,
         RecoverVersion, RecoverJournal, Recovered, StepFails, Damage, vars
<1> QED
  BY <1>1, <1>2, <1>3, <1>4, <1>5, <1>6, <1>7, <1>8, <1>9, <1>10, <1>11

-----------------------------------------------------------------------------
(* The invariant *)

LEMMA SecretsStart == Init => SecretsInv
<1> SUFFICES ASSUME Init PROVE SecretsInv
  OBVIOUS
<1>1. TypeOK
  BY IdleTypes, BoundsAssumption
  DEF Init, TypeOK, VersionState, JournalState, FileState, TestRow, TestStatus
<1>2. \A v \in Version : VersionFits(v)
  BY DEF Init, VersionFits, Version
<1>3. HandFits /\ JournalsAreSeen /\ RunnerFits
  BY DEF Init, HandFits, Idle, Settling, Making, JournalsAreSeen, RunnerFits, Resting
<1>4. \A t \in Tests : TestFits(t)
  BY DEF Init, TestFits, Held, Idle
<1> QED
  BY <1>1, <1>2, <1>3, <1>4 DEF SecretsInv, OutcomeIsHonest, Init

LEMMA SecretsStep == SecretsInv /\ [Next]_vars => SecretsInv'
BY TypeStep, VersionStep, HandStep, JournalStep, TestStep, ThreadStep DEF SecretsInv

\* Rows, journals, files, the main thread's hand and the runner's fit together,
\* whatever is interrupted, damaged or interleaved.
THEOREM SecretsInvariant == Spec => []SecretsInv
BY SecretsStart, SecretsStep, PTL DEF Spec

\* Every variable of the secrets, the tests and the start keeps its type.
THEOREM SecretsTypes == Spec => []TypeOK
<1>1. SecretsInv => TypeOK
  BY DEF SecretsInv
<1> QED
  BY <1>1, SecretsInvariant, PTL

\* The current secret is whole and ready, or the next start can finish it.
THEOREM SecretIsNeverLost == Spec => []CurrentIsRecoverable
<1>1. SecretsInv => CurrentIsRecoverable
  <2> SUFFICES ASSUME SecretsInv, supplier.current # 0, final[supplier.current] # "bad"
               PROVE  LET v == supplier.current
                      IN  \/ versions[v] = "ready" /\ final[v] = "whole"
                          \/ /\ versions[v] \in {"pending_finalize", "ready"}
                             /\ replacing[v] # "none" /\ "whole" \in {temp[v], final[v]}
    BY DEF CurrentIsRecoverable
  <2>1. /\ supplier.current \in Version /\ VersionFits(supplier.current)
        /\ versions[supplier.current] \in VersionState
        /\ final[supplier.current] \in FileState
    BY DEF SecretsInv, TypeOK
  <2> QED
    BY <2>1 DEF VersionFits, VersionState, FileState
<1> QED
  BY <1>1, SecretsInvariant, PTL

\* A recovery that is through has left nothing unfinished.
THEOREM StartsConverge == Spec => []RecoveryConverges
<1>1. SecretsInv => RecoveryConverges
  <2> SUFFICES ASSUME SecretsInv, server = "recovered" PROVE RecoveryConverges
    BY DEF RecoveryConverges
  <2>1. \A v \in Version : v \notin deleting /\ ~Unfinished(v) /\ VersionFits(v)
    BY DEF SecretsInv, JournalsAreSeen
  <2>2. /\ deleting \subseteq Version
        /\ \A v \in Version : versions[v] \in VersionState
    BY DEF SecretsInv, TypeOK
  <2> QED
    BY <2>1, <2>2 DEF RecoveryConverges, VersionFits, VersionState, Unfinished
<1> QED
  BY <1>1, SecretsInvariant, PTL

\* No test waits for a secret that is gone.
THEOREM TestsAreLetGo == Spec => []DeletedIsLetGo
<1>1. SecretsInv => DeletedIsLetGo
  BY DEF SecretsInv, DeletedIsLetGo, TestFits, Held, VersionFits, TypeOK, TestRow
<1> QED
  BY <1>1, SecretsInvariant, PTL

\* What the row of a test says of the provider is true.
THEOREM RowsAreHonest == Spec => []OutcomeIsHonest
<1>1. SecretsInv => OutcomeIsHonest
  BY DEF SecretsInv
<1> QED
  BY <1>1, SecretsInvariant, PTL

\* No end of a test is ever replaced.
THEOREM EndsAreFinal == Spec => EndIsFinal
<1>1. SecretsInv /\ [Next]_vars =>
         [\A t \in Tests : tests[t].status \in Terminal => tests'[t] = tests[t]]_vars
  <2> SUFFICES ASSUME SecretsInv, Next, NEW t \in Tests, tests[t].status \in Terminal
               PROVE  tests'[t] = tests[t]
    OBVIOUS
  <2>1. /\ tests \in [Tests -> TestRow] /\ tests[t] \in TestRow
        /\ tests[t].status \notin {"none", "queued", "submitting"}
    BY DEF SecretsInv, TypeOK, Terminal
  <2>2. ASSUME NEW u \in Tests, CreateTest(u) PROVE tests'[t] = tests[t]
    BY <2>1, <2>2 DEF CreateTest
  <2>3. CASE Claim
    BY <2>1, <2>3 DEF Claim
  <2>4. CASE End
    <3>1. PICK status : tests' = [tests EXCEPT ![runner.test].status =
                                     IF @ = "submitting" THEN status ELSE @]
      BY <2>4 DEF End
    <3> QED
      BY <2>1, <3>1 DEF TestRow
  <2>5. CASE Revoke
    BY <2>1, <2>5 DEF Revoke, Revoked, TestRow
  <2>6. CASE Up
    BY <2>1, <2>6 DEF Up, TestRow
  <2>7. CASE tests' = tests
    BY <2>7
  <2> QED
    BY <2>2, <2>3, <2>4, <2>5, <2>6, <2>7
    DEF Next, Handler, Thread, Boot, Fault, Replace, WriteTemp, NoteTemp, Point, Rename, Finish,
        Delete, Unlink, Forget, ReadCurrent, Pick, Load, Read, Call, Start, RecoverFiles,
        RecoverDeletion, RecoverVersion, RecoverJournal, Recovered, StepFails, EndFails, Damage,
        Crash
<1> QED
  BY <1>1, SecretsInvariant, PTL DEF Spec, EndIsFinal

-----------------------------------------------------------------------------
(* The promise of the vault *)

\* The version that is being made is the newest one.
MakingIsNewest == op.at \in Making => op.version = issued

LEMMA NewestStep == TypeOK /\ MakingIsNewest /\ [Next]_vars => MakingIsNewest'
<1> SUFFICES ASSUME TypeOK, MakingIsNewest, [Next]_vars PROVE MakingIsNewest'
  OBVIOUS
<1> USE DEF MakingIsNewest, Making, Idle
<1>0. op \in Operation
  BY DEF TypeOK
<1> USE <1>0 DEF Operation
<1>1. CASE Handler
  <2>1. CASE Replace
    BY <2>1 DEF Replace
  <2>2. CASE WriteTemp \/ NoteTemp
    BY <2>2 DEF WriteTemp, NoteTemp, Working
  <2>3. CASE Point \/ Rename \/ Finish \/ Revoke \/ Unlink \/ Forget
    BY <2>3 DEF Point, Rename, Finish, Revoke, Unlink, Forget, Working
  <2>4. ASSUME NEW force \in BOOLEAN, Delete(force) PROVE MakingIsNewest'
    BY <2>4 DEF Delete
  <2>5. ASSUME NEW t \in Tests, CreateTest(t) PROVE MakingIsNewest'
    BY <2>5 DEF CreateTest, secret
  <2>6. CASE ReadCurrent
    BY <2>6 DEF ReadCurrent
  <2> QED
    BY <1>1, <2>1, <2>2, <2>3, <2>4, <2>5, <2>6 DEF Handler
<1>2. CASE Thread
  BY <1>2 DEF Thread, Pick, Claim, Load, Read, Call, End, secret
<1>3. CASE Boot
  BY <1>3 DEF Boot, Start, RecoverFiles, RecoverDeletion, RecoverVersion, RecoverJournal,
              Recovered, Up, secret
<1>4. CASE Fault
  BY <1>4 DEF Fault, StepFails, EndFails, Damage, Crash, secret
<1>5. CASE UNCHANGED vars
  BY <1>5 DEF vars, secret
<1> QED
  BY <1>1, <1>2, <1>3, <1>4, <1>5 DEF Next

\* What becomes of each version.
Lives == [v \in Version |-> LifeOf(v)]

\* The life of the version v becomes x, and nothing else of the vault changes.
Lived(v, x) ==
    /\ v \in Version
    /\ LifeOf(v)' = x
    /\ \A u \in Version \ {v} : LifeOf(u)' = LifeOf(u)

LEMMA LivesKept ==
    ASSUME \A v \in Version : LifeOf(v)' = LifeOf(v), UNCHANGED supplier
    PROVE  UNCHANGED Vault!vaultVars
<1>1. Lives' = Lives
  BY DEF Lives
<1> QED
  BY <1>1 DEF Vault!vaultVars, Lives

LEMMA LivesMoved ==
    ASSUME NEW v, NEW x, Lived(v, x)
    PROVE  Lives' = [Lives EXCEPT ![v] = x]
BY DEF Lives, Lived

\* A step that moves neither rows nor files of a version, nor begins or ends its
\* making.
LEMMA LifeUntouched ==
    ASSUME NEW v \in Version, UNCHANGED issued,
           versions'[v] = versions[v], final'[v] = final[v], temp'[v] = temp[v],
           v \in deleting' <=> v \in deleting,
           op'.at \in Making /\ op'.version = v <=> op.at \in Making /\ op.version = v
    PROVE  LifeOf(v)' = LifeOf(v)
BY DEF LifeOf, Unborn, Making

\* What is deleted, or was given up, is gone.
LEMMA Buried ==
    ASSUME NEW v \in Version, VersionFits(v), v \in deleting, HandFits
    PROVE  LifeOf(v) = "gone"
BY DEF LifeOf, Unborn, VersionFits, HandFits, Making

\* A handler that replaces or deletes the secret.
LEMMA HandlerLives ==
    ASSUME SecretsInv, MakingIsNewest, SecretsInv', Handler
    PROVE  [Vault!VaultNext]_(Vault!vaultVars)
<1>a. /\ TypeOK /\ HandFits /\ \A v \in Version : VersionFits(v) /\ VersionFits(v)'
      /\ op \in Operation
  BY DEF SecretsInv, TypeOK
<1>b. HandFits'
  BY DEF SecretsInv
<1> USE DEF Working, Free
<1>1. CASE Replace
  <2>1. ASSUME NEW v \in Version PROVE LifeOf(v)' = LifeOf(v)
    <3>1. issued' = issued + 1 /\ issued \in Nat /\ v \in Nat
      BY <1>1, <1>a DEF Replace, TypeOK, Version
    <3>2. Unborn(v)' <=> Unborn(v)
      <4>1. op.at = "idle" /\ op'.at = "writing" /\ op'.version = issued'
        BY <1>1 DEF Replace, Idle
      <4>2. v > issued <=> v > issued + 1 \/ v = issued + 1
        BY <3>1
      <4> QED
        BY <3>1, <4>1, <4>2 DEF Unborn
    <3> QED
      BY <1>1, <3>2 DEF Replace, LifeOf
  <2> QED
    BY <1>1, <2>1, LivesKept DEF Replace
<1>2. CASE WriteTemp \/ NoteTemp
  <2>1. ASSUME NEW v \in Version PROVE LifeOf(v)' = LifeOf(v)
    <3>1. CASE v = op.version
      BY <1>2, <1>a, <3>1 DEF WriteTemp, NoteTemp, LifeOf, Unborn, Operation
    <3>2. CASE v # op.version
      BY <1>2, <1>a, <3>2, LifeUntouched DEF WriteTemp, NoteTemp, TypeOK, Operation
    <3> QED
      BY <3>1, <3>2
  <2> QED
    BY <1>2, <2>1, LivesKept DEF WriteTemp, NoteTemp
<1>3. CASE Point
  <2>1. PICK w \in Version : /\ w = op.version /\ w = issued
                             /\ versions[w] = "absent" /\ temp[w] = "whole" /\ VersionFits(w)
    BY <1>3, <1>a DEF Point, HandFits, Making, MakingIsNewest
  <2>2. LifeOf(w) = "unborn"
    BY <1>3, <2>1 DEF Point, LifeOf, Unborn
  <2>3. \A u \in Version \ {w} : LifeOf(u)' = LifeOf(u)
    BY <1>3, <1>a, <2>1, LifeUntouched DEF Point, TypeOK, Operation, Idle, Making
  <2>4. \A u \in Version : u > w => LifeOf(u) = "unborn"
    BY <2>1 DEF LifeOf, Unborn
  <2>5. CASE supplier.revision # op.expected
    <3>1. LifeOf(w)' = "gone"
      <4>1. op'.at = "idle" /\ issued' = issued /\ versions' = versions
        BY <1>3, <2>5 DEF Point, Idle
      <4> QED
        BY <2>1, <4>1 DEF LifeOf, Unborn, Version
    <3>2. Lives' = [Lives EXCEPT ![w] = "gone"]
      BY <2>1, <2>3, <3>1, LivesMoved DEF Lived
    <3>3. Vault!GiveUp(w)
      BY <1>3, <2>1, <2>2, <2>5, <3>2 DEF Point, Vault!GiveUp, Lives
    <3> QED
      BY <2>1, <3>3 DEF Vault!VaultNext
  <2>6. CASE supplier.revision = op.expected
    <3>1. LifeOf(w)' = "held"
      <4>1. /\ versions'[w] = "pending_finalize" /\ temp'[w] = "whole" /\ final'[w] = "none"
            /\ w \notin deleting'
        BY <1>3, <1>a, <2>1, <2>6 DEF Point, TypeOK, VersionFits
      <4>2. ~Unborn(w)'
        <5>1. op'.at = "renaming" /\ issued' = issued
          BY <1>3, <1>a, <2>6 DEF Point, Operation
        <5> QED
          BY <2>1, <5>1 DEF Unborn, Version
      <4> QED
        BY <4>1, <4>2 DEF LifeOf
    <3>2. Lives' = [Lives EXCEPT ![w] = "held"]
      BY <2>1, <2>3, <3>1, LivesMoved DEF Lived
    <3>3. Vault!Put(w)
      BY <1>3, <2>1, <2>2, <2>4, <2>6, <3>2 DEF Point, Vault!Put, Lives
    <3> QED
      BY <2>1, <3>3 DEF Vault!VaultNext
  <2> QED
    BY <2>5, <2>6
<1>4. CASE Rename
  <2>1. /\ op.version \in Version /\ versions[op.version] = "pending_finalize"
        /\ temp[op.version] = "whole"
    BY <1>4, <1>a DEF Rename, HandFits
  <2>2. ASSUME NEW v \in Version PROVE LifeOf(v)' = LifeOf(v)
    <3>1. CASE v = op.version
      <4>1. final[v] = "none" /\ final'[v] = "whole" /\ v \notin deleting
        BY <1>4, <1>a, <2>1, <3>1 DEF Rename, VersionFits, TypeOK
      <4>2. Unborn(v)' <=> Unborn(v)
        BY <1>4, <1>a DEF Rename, Unborn, Operation
      <4> QED
        BY <1>4, <2>1, <3>1, <4>1, <4>2 DEF Rename, LifeOf
    <3>2. CASE v # op.version
      BY <1>4, <1>a, <3>2, LifeUntouched DEF Rename, TypeOK, Operation, Making
    <3> QED
      BY <3>1, <3>2
  <2> QED
    BY <1>4, <2>2, LivesKept DEF Rename
<1>5. CASE Finish
  <2>1. ASSUME NEW v \in Version PROVE LifeOf(v)' = LifeOf(v)
    <3>1. CASE v = op.version
      <4>1. /\ versions[v] = "pending_finalize" /\ versions'[v] = "ready"
            /\ Unborn(v)' <=> Unborn(v)
        BY <1>5, <1>a, <3>1 DEF Finish, HandFits, Unborn, Idle, TypeOK
      <4> QED
        BY <1>5, <4>1 DEF Finish, LifeOf
    <3>2. CASE v # op.version
      BY <1>5, <1>a, <3>2, LifeUntouched DEF Finish, TypeOK, Idle, Making
    <3> QED
      BY <3>1, <3>2
  <2> QED
    BY <1>5, <2>1, LivesKept DEF Finish
<1>6. CASE Revoke
  <2>1. PICK w \in Version : /\ w = op.version /\ w = supplier.current /\ w # 0
                             /\ versions[w] # "absent" /\ w \in deleting'
    BY <1>6, <1>a DEF Revoke, HandFits, Version, VersionFits
  <2>2. LifeOf(w)' = "gone"
    <3>1. ~Unborn(w)'
      BY <1>6, <1>a, <2>1 DEF Revoke, Unborn, VersionFits, Operation
    <3> QED
      BY <2>1, <3>1 DEF LifeOf
  <2>3. \A u \in Version \ {w} : LifeOf(u)' = LifeOf(u)
    BY <1>6, <1>a, <2>1, LifeUntouched DEF Revoke, TypeOK, Operation, Making
  <2>4. Lives' = [Lives EXCEPT ![w] = "gone"]
    BY <2>1, <2>2, <2>3, LivesMoved DEF Lived
  <2>5. Vault!Delete
    BY <1>6, <2>1, <2>4 DEF Revoke, Vault!Delete, Lives
  <2> QED
    BY <2>5 DEF Vault!VaultNext
<1>7. CASE Unlink \/ Forget
  <2>1. op.version \in Version /\ op.version \in deleting
    BY <1>7, <1>a DEF Unlink, Forget, HandFits
  <2>2. ASSUME NEW v \in Version PROVE LifeOf(v)' = LifeOf(v)
    <3>1. CASE v = op.version
      <4>1. LifeOf(v) = "gone" /\ ~Unborn(v)
        BY <1>a, <2>1, <3>1, Buried DEF LifeOf
      <4>2. ~Unborn(v)'
        BY <1>7, <1>a, <4>1 DEF Unlink, Forget, Unborn, Operation, Idle
      <4>3. v \in deleting' \/ versions'[v] = "absent"
        BY <1>7, <1>a, <2>1, <3>1 DEF Unlink, Forget, TypeOK
      <4> QED
        BY <4>1, <4>2, <4>3 DEF LifeOf
    <3>2. CASE v # op.version
      BY <1>7, <1>a, <3>2, LifeUntouched DEF Unlink, Forget, TypeOK, Operation, Idle, Making
    <3> QED
      BY <3>1, <3>2
  <2> QED
    BY <1>7, <2>2, LivesKept DEF Unlink, Forget
<1>8. CASE ReadCurrent
  <2>1. ASSUME NEW v \in Version PROVE LifeOf(v)' = LifeOf(v)
    <3>1. CASE v = supplier.current
      <4>1. /\ versions[v] = "ready" /\ versions'[v] = "corrupt" /\ v \notin deleting
            /\ VersionFits(v) /\ final[v] # "whole"
        BY <1>8, <1>a, <3>1 DEF ReadCurrent, TypeOK, VersionFits
      <4>2. final[v] \in FileState
        BY <1>a DEF TypeOK
      <4>3. final[v] = "bad"
        BY <4>1, <4>2 DEF VersionFits, FileState
      <4>4. Unborn(v)' <=> Unborn(v)
        BY <1>8 DEF ReadCurrent, Unborn
      <4> QED
        BY <1>8, <4>1, <4>3, <4>4 DEF ReadCurrent, LifeOf
    <3>2. CASE v # supplier.current
      BY <1>8, <1>a, <3>2, LifeUntouched DEF ReadCurrent, TypeOK
    <3> QED
      BY <3>1, <3>2
  <2> QED
    BY <1>8, <2>1, LivesKept DEF ReadCurrent
<1>9. ASSUME NEW force \in BOOLEAN, Delete(force)
      PROVE  [Vault!VaultNext]_(Vault!vaultVars)
  <2>1. UNCHANGED secret /\ op.at \notin Making /\ op'.at \notin Making
    BY <1>9 DEF Delete, Idle, Making
  <2> QED
    BY <2>1, LifeUntouched, LivesKept DEF secret
<1>10. ASSUME NEW t \in Tests, CreateTest(t)
       PROVE  [Vault!VaultNext]_(Vault!vaultVars)
  <2>1. UNCHANGED <<secret, op>>
    BY <1>10 DEF CreateTest
  <2> QED
    BY <2>1, LifeUntouched, LivesKept DEF secret
<1> QED
  BY <1>1, <1>2, <1>3, <1>4, <1>5, <1>6, <1>7, <1>8, <1>9, <1>10 DEF Handler

\* The thread, a recovery and a fault.
LEMMA OtherLives ==
    ASSUME SecretsInv, SecretsInv', Thread \/ Boot \/ Fault \/ UNCHANGED vars
    PROVE  [Vault!VaultNext]_(Vault!vaultVars)
<1> DEFINE Kept == [Vault!VaultNext]_(Vault!vaultVars)
<1> SUFFICES Kept
  OBVIOUS
<1>a. /\ TypeOK /\ HandFits /\ JournalsAreSeen
      /\ \A v \in Version : VersionFits(v) /\ VersionFits(v)'
      /\ op \in Operation
  BY DEF SecretsInv, TypeOK
<1>1. CASE \/ \E t \in Tests : Pick(t)
           \/ Claim \/ Load \/ Call \/ End \/ Recovered \/ Up \/ EndFails \/ UNCHANGED vars
  <2>1. UNCHANGED <<secret, op>>
    BY <1>1, SecretKept DEF Pick, Claim, Load, Call, End, Recovered, Up, EndFails, vars
  <2> QED
    BY <2>1, LifeUntouched, LivesKept DEF secret
<1>2. CASE Read
  <2>1. PICK v \in Version : v = tests[runner.test].credential
    BY <1>2, RunnerHolds DEF Read, Held
  <2>2. \A u \in Version \ {v} : LifeOf(u)' = LifeOf(u)
    BY <1>2, <1>a, <2>1, LifeUntouched DEF Read, TypeOK
  <2>3. LifeOf(v)' = LifeOf(v)
    <3>1. CASE versions'[v] = versions[v]
      BY <1>2, <3>1, LifeUntouched DEF Read
    <3>2. CASE versions'[v] # versions[v]
      <4>1. versions'[v] = "corrupt" /\ versions[v] # "absent" /\ VersionFits(v)'
        BY <1>2, <1>a, <2>1, <3>2 DEF Read, TypeOK
      <4>2. final[v] = "bad" \/ v \in deleting
        BY <1>2, <4>1 DEF Read, VersionFits
      <4>3. Unborn(v)' <=> Unborn(v)
        BY <1>2 DEF Read, Unborn
      <4> QED
        BY <1>2, <4>1, <4>2, <4>3 DEF Read, LifeOf
    <3> QED
      BY <3>1, <3>2
  <2> QED
    BY <1>2, <2>2, <2>3, LivesKept DEF Read
<1>3. CASE Start
  <2>1. UNCHANGED secret /\ op.at \notin Making /\ op'.at \notin Making
    BY <1>3, <1>a DEF Start, HandFits, Idle, Making
  <2> QED
    BY <2>1, LifeUntouched, LivesKept DEF secret
<1>4. ASSUME NEW j \in op.todo, RecoverFiles(j) PROVE Kept
  <2>1. PICK v \in Version : v = j.version
    BY <1>a DEF Operation, Journal
  <2>2. op.at = "idle" /\ op'.at \notin Making
    BY <1>4, <1>a DEF RecoverFiles, Operation, Making
  <2>3. \A u \in Version \ {v} : LifeOf(u)' = LifeOf(u)
    BY <1>4, <1>a, <2>1, <2>2, LifeUntouched DEF RecoverFiles, TypeOK, Making
  <2>4. Unborn(v)' <=> Unborn(v)
    BY <1>4, <2>2 DEF RecoverFiles, Unborn, Making
  <2>5. UNCHANGED <<versions, deleting, issued, supplier>>
    BY <1>4 DEF RecoverFiles
  <2>6. CASE j.kind = "delete" \/ versions[v] = "absent"
    <3>1. v \in deleting \/ versions[v] = "absent"
      <4>1. ASSUME j.kind = "delete" PROVE v \in deleting
        <5>1. j = [version |-> v, kind |-> "delete"]
          BY <1>a, <2>1, <4>1 DEF Operation, Journal
        <5> QED
          BY <1>4, <1>a, <5>1 DEF RecoverFiles, JournalsAreSeen, Handled
      <4> QED
        BY <2>6, <4>1
    <3>2. LifeOf(v)' = LifeOf(v)
      BY <2>4, <2>5, <3>1 DEF LifeOf
    <3> QED
      BY <2>3, <2>5, <3>2, LivesKept
  <2>7. CASE j.kind # "delete" /\ versions[v] # "absent"
    <3>1. VersionFits(v) /\ VersionFits(v)' /\ final[v] \in FileState /\ temp[v] \in FileState
      BY <1>a DEF TypeOK
    <3>2. LifeOf(v)' = LifeOf(v)
      <4>1. CASE final[v] # "whole" /\ temp[v] = "whole"
        <5>1. final'[v] = "whole" /\ final[v] = "none"
          BY <1>4, <1>a, <2>1, <2>7, <3>1, <4>1 DEF RecoverFiles, TypeOK, VersionFits
        <5> QED
          BY <2>4, <2>5, <4>1, <5>1 DEF LifeOf
      <4>2. CASE ~(final[v] # "whole" /\ temp[v] = "whole")
        <5>1. final'[v] = final[v] /\ temp'[v] = temp[v]
          BY <1>4, <1>a, <2>1, <2>7, <4>2 DEF RecoverFiles, TypeOK
        <5> QED
          BY <2>4, <2>5, <5>1 DEF LifeOf
      <4> QED
        BY <4>1, <4>2
    <3> QED
      BY <2>3, <2>5, <3>2, LivesKept
  <2> QED
    BY <2>6, <2>7
<1>5. CASE RecoverDeletion \/ RecoverVersion \/ RecoverJournal
  <2>1. PICK v \in Version : v = op.version
    BY <1>5, <1>a DEF RecoverDeletion, RecoverVersion, RecoverJournal, HandFits
  <2>2. /\ op.at \in Settling /\ op'.at \notin Making
        /\ UNCHANGED <<issued, supplier, temp, final>>
    BY <1>5, <1>a DEF RecoverDeletion, RecoverVersion, RecoverJournal, Operation, Making, Settling
  <2>3. \A u \in Version \ {v} : LifeOf(u)' = LifeOf(u)
    BY <1>5, <1>a, <2>1, <2>2, LifeUntouched
    DEF RecoverDeletion, RecoverVersion, RecoverJournal, TypeOK, Making, Settling
  <2>4. Unborn(v)' <=> Unborn(v)
    BY <2>2 DEF Unborn, Making, Settling
  <2>5. LifeOf(v)' = LifeOf(v)
    <3>1. CASE RecoverDeletion
      <4>1. v \in deleting /\ versions'[v] = "absent"
        BY <1>a, <2>1, <3>1 DEF RecoverDeletion, HandFits, Settling, TypeOK
      <4> QED
        BY <1>a, <2>4, <4>1 DEF LifeOf
    <3>2. CASE RecoverVersion
      <4>1. /\ deleting' = deleting
            /\ versions[v] = "absent" <=> versions'[v] = "absent"
            /\ versions[v] # "absent" =>
                   versions'[v] = IF op.at = "settling" THEN "ready" ELSE "corrupt"
        BY <1>a, <2>1, <3>2 DEF RecoverVersion, TypeOK
      <4>2. /\ temp[v] = "none" /\ VersionFits(v) /\ final[v] \in FileState
            /\ op.at = "settling" /\ versions[v] # "absent" => final[v] # "none"
            /\ op.at = "spoiling" => final[v] # "whole"
        BY <1>a, <2>1, <3>2 DEF RecoverVersion, HandFits, Settling, TypeOK
      <4>3. versions[v] \in VersionState
        BY <1>a DEF TypeOK
      <4>4. CASE versions[v] = "absent" \/ v \in deleting
        BY <2>4, <4>1, <4>4 DEF LifeOf
      <4>5. CASE versions[v] # "absent" /\ v \notin deleting
        <5>1. final[v] = "bad" \/ (final[v] = "whole" /\ versions[v] # "corrupt"
                                   /\ op.at = "settling")
          BY <3>2, <4>2, <4>3, <4>5 DEF VersionFits, FileState, VersionState, RecoverVersion
        <5> QED
          BY <2>2, <2>4, <4>1, <4>5, <5>1 DEF LifeOf
      <4> QED
        BY <4>4, <4>5
    <3>3. CASE RecoverJournal
      BY <2>1, <2>2, <3>3, LifeUntouched DEF RecoverJournal, Making, Settling
    <3> QED
      BY <1>5, <3>1, <3>2, <3>3
  <2> QED
    BY <2>2, <2>3, <2>5, LivesKept
<1>6. CASE StepFails \/ Crash
  <2>1. /\ op'.at = "idle" /\ UNCHANGED <<supplier, issued, versions, deleting, final>>
        /\ op.at \notin {"writing"} => UNCHANGED temp
    BY <1>6 DEF StepFails, Crash, Idle
  <2>2. CASE op.at \in Making
    <3>1. PICK w \in Version : w = op.version /\ versions[w] = "absent" /\ w <= issued
      BY <1>a, <2>2 DEF HandFits, Making
    <3>2. LifeOf(w) = "unborn"
      BY <2>2, <3>1 DEF LifeOf, Unborn, Making
    <3>3. LifeOf(w)' = "gone"
      <4>1. ~Unborn(w)'
        BY <1>a, <2>1, <3>1 DEF Unborn, Version, TypeOK
      <4> QED
        BY <2>1, <3>1, <4>1 DEF LifeOf
    <3>4. \A u \in Version \ {w} : LifeOf(u)' = LifeOf(u)
      <4>1. \A u \in Version \ {w} : temp'[u] = temp[u]
        BY <1>6, <1>a, <3>1 DEF StepFails, Crash, TypeOK
      <4> QED
        BY <2>1, <3>1, <4>1, LifeUntouched DEF Making
    <3>5. Lives' = [Lives EXCEPT ![w] = "gone"]
      BY <3>1, <3>3, <3>4, LivesMoved DEF Lived
    <3>6. Vault!GiveUp(w)
      BY <2>1, <3>1, <3>2, <3>5 DEF Vault!GiveUp, Lives
    <3> QED
      BY <3>6 DEF Vault!VaultNext
  <2>3. CASE op.at \notin Making
    <3>1. UNCHANGED temp /\ op'.at \notin Making
      BY <2>1, <2>3 DEF Making
    <3> QED
      BY <2>1, <2>3, <3>1, LifeUntouched, LivesKept
  <2> QED
    BY <2>2, <2>3
<1>7. ASSUME NEW v \in Version, Damage(v) PROVE Kept
  <2>1. /\ final[v] = "whole" /\ final'[v] = "bad" /\ VersionFits(v)
        /\ UNCHANGED <<supplier, issued, versions, deleting, temp, op>>
    BY <1>7, <1>a DEF Damage, TypeOK
  <2>2. \A u \in Version \ {v} : LifeOf(u)' = LifeOf(u)
    BY <1>7, <1>a, <2>1, LifeUntouched DEF Damage, TypeOK
  <2>3. Unborn(v)' <=> Unborn(v)
    BY <2>1 DEF Unborn
  <2>4. versions[v] # "corrupt" /\ versions[v] # "absent" /\ ~Unborn(v)
    BY <1>a, <2>1 DEF VersionFits, HandFits, Making, Unborn
  <2>5. CASE v \in deleting
    <3>1. LifeOf(v)' = LifeOf(v)
      BY <2>1, <2>3, <2>4, <2>5 DEF LifeOf
    <3> QED
      BY <2>1, <2>2, <3>1, LivesKept
  <2>6. CASE v \notin deleting
    <3>1. LifeOf(v) = "held" /\ LifeOf(v)' = "spoiled"
      BY <2>1, <2>3, <2>4, <2>6 DEF LifeOf
    <3>2. Lives' = [Lives EXCEPT ![v] = "spoiled"]
      BY <2>2, <3>1, LivesMoved DEF Lived
    <3>3. Vault!Spoil(v)
      BY <2>1, <3>1, <3>2 DEF Vault!Spoil, Lives
    <3> QED
      BY <3>3 DEF Vault!VaultNext
  <2> QED
    BY <2>5, <2>6
<1> HIDE DEF Kept
<1> QED
  BY <1>1, <1>2, <1>3, <1>4, <1>5, <1>6, <1>7 DEF Thread, Boot, Fault

\* The rows, files and journals of the secret keep the promise of the vault.
THEOREM VaultRefinement == Spec => KeepsVault
<1>1. Init => MakingIsNewest /\ Vault!VaultInit
  <2>1. ASSUME Init PROVE MakingIsNewest
    BY <2>1 DEF Init, MakingIsNewest, Making, Idle
  <2>2. ASSUME Init, NEW v \in Version PROVE LifeOf(v) = "unborn"
    BY <2>2 DEF Init, LifeOf, Unborn, Version
  <2>3. ASSUME Init PROVE supplier.current = 0
    BY <2>3 DEF Init
  <2> QED
    BY <2>1, <2>2, <2>3 DEF Vault!VaultInit
<1>2. SecretsInv /\ MakingIsNewest /\ [Next]_vars => MakingIsNewest'
  BY NewestStep DEF SecretsInv
<1>3. SecretsInv /\ MakingIsNewest /\ SecretsInv' /\ [Next]_vars =>
          [Vault!VaultNext]_(Vault!vaultVars)
  BY HandlerLives, OtherLives DEF Next
<1> QED
  BY <1>1, <1>2, <1>3, SecretsInvariant, PTL DEF Spec, KeepsVault, Vault!VaultSpec

=============================================================================
