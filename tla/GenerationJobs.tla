--------------------------- MODULE GenerationJobs ---------------------------
(***************************************************************************)
(* Durable image and video work: the tables generation_jobs,               *)
(* generation_submission_attempts, generation_results and assets, the      *)
(* request handlers that write them, the generation poller and the start   *)
(* of the server.                                                          *)
(*                                                                         *)
(* The server is one event loop.  A handler or a poller cycle runs without *)
(* an await, so nothing else runs in between; but each of them is a series *)
(* of SQLite commits with calls to a provider in between, and the process  *)
(* may die after any of them.  Hence one action per commit or external     *)
(* call, chained by the program counter `at', and a Crash that forgets all *)
(* that is not in a table.                                                 *)
(*                                                                         *)
(* Abstracted: the order (created_at) in which a loop takes its rows, the  *)
(* contents of requests, results and evidence, the rate limiter (it may    *)
(* leave out any job of a cycle), and the credential's own files           *)
(* (CredentialStore).  A rerun is one more job.                            *)
(***************************************************************************)
EXTENDS Naturals, FiniteSets

CONSTANTS
    LegacyJobs,   \* video jobs made while supplier execution is off
    VideoJobs,    \* video jobs with an execution snapshot
    ImageJobs,    \* image jobs with an execution snapshot
    Modes,        \* values the m6_supplier_execution_enabled setting may take
    MaxCrashes,   \* bound: how often the process dies
    NoJob

ASSUME KindsAssumption ==
    /\ LegacyJobs \cap VideoJobs = {}
    /\ LegacyJobs \cap ImageJobs = {}
    /\ VideoJobs \cap ImageJobs = {}
    /\ NoJob \notin LegacyJobs \cup VideoJobs \cup ImageJobs
ASSUME ModesAssumption == Modes \subseteq BOOLEAN
ASSUME CrashAssumption == MaxCrashes \in Nat

Jobs == LegacyJobs \cup VideoJobs \cup ImageJobs

VARIABLES
    \* the process
    at,          \* where the event loop is: what the next commit or call will be
    cur,         \* the job the running handler works on
    todo,        \* jobs the running loop has still to take
    pollable,    \* jobs picked for polling when the cycle began
    enabled,     \* m6_supplier_execution_enabled of this run of the server
    poller,      \* "running", or "dead" once an exception ended its task
    crashes,
    \* the tables
    status,      \* generation_jobs.internal_status, "absent" when there is no row
    jobId,       \* does generation_jobs.provider_job_id hold the provider's id?
    snapshot,    \* does the row have a snapshot_hash?
    attempt,     \* generation_submission_attempts.state, "none" when there is no row
    attemptId,   \* does the attempt hold the provider's id?
    evidence,    \* which operation's answer the attempt's evidence object is
    results,     \* number of generation_results rows of the job
    assets,      \* number of assets rows of the job
    bound,       \* is the job's frozen credential the supplier's current one?
    credential,  \* does the supplier have a current, ready credential?
    \* the provider
    submits,     \* submission calls made for the job
    task         \* the provider's own record of the job

procVars == <<at, cur, todo, pollable, enabled, poller, crashes>>
jobVars  == <<status, jobId, snapshot, bound>>
attVars  == <<attempt, attemptId, evidence>>
outVars  == <<results, assets>>
provVars == <<submits, task>>
vars == <<procVars, jobVars, attVars, outVars, provVars, credential>>

JobStatus == {"absent", "draft", "queued", "submitting", "submitted", "polling",
              "completed", "failed", "cancelled"}
AttemptState == {"none", "prepared", "submitting", "accepted", "committed",
                 "unknown_outcome", "failed"}
Terminal == {"completed", "failed", "cancelled"}
Tracked == {"submitted", "polling"}

\* Steps of the process; those of a start, of a poller cycle, and of a handler.
BootSteps  == {"down", "aborted", "backfill", "recover", "images", "bootImageCompleted"}
CycleSteps == {"cycleRecover", "cycleOrphans", "cycleGate", "cycleSubmit", "prepared",
               "marked", "calling", "returned", "rejected", "unknown", "failing",
               "accepted", "cyclePoll", "polled"}
HandlerSteps == {"drafted", "imageQueued", "imageCalling", "imageReturned",
                 "imageUnknown", "imageFailing", "imageAccepted", "imageCommitted",
                 "imageCompleted"}
Steps == BootSteps \cup CycleSteps \cup HandlerSteps \cup {"idle"}

TypeOK ==
    /\ at \in Steps
    /\ cur \in Jobs \cup {NoJob}
    /\ todo \subseteq Jobs
    /\ pollable \subseteq Jobs
    /\ enabled \in BOOLEAN
    /\ poller \in {"running", "dead"}
    /\ crashes \in 0..MaxCrashes
    /\ status \in [Jobs -> JobStatus]
    /\ jobId \in [Jobs -> BOOLEAN]
    /\ snapshot \in [Jobs -> BOOLEAN]
    /\ attempt \in [Jobs -> AttemptState]
    /\ attemptId \in [Jobs -> BOOLEAN]
    /\ evidence \in [Jobs -> {"none", "video", "image"}]
    /\ results \in [Jobs -> Nat]
    /\ assets \in [Jobs -> Nat]
    /\ bound \in [Jobs -> BOOLEAN]
    /\ credential \in BOOLEAN
    /\ submits \in [Jobs -> Nat]
    /\ task \in [Jobs -> {"none", "running", "done", "failed"}]

Init ==
    /\ at = "down" /\ cur = NoJob /\ todo = {} /\ pollable = {}
    /\ enabled \in Modes /\ poller = "running" /\ crashes = 0
    /\ status = [j \in Jobs |-> "absent"]
    /\ jobId = [j \in Jobs |-> FALSE]
    /\ snapshot = [j \in Jobs |-> FALSE]
    /\ attempt = [j \in Jobs |-> "none"]
    /\ attemptId = [j \in Jobs |-> FALSE]
    /\ evidence = [j \in Jobs |-> "none"]
    /\ results = [j \in Jobs |-> 0]
    /\ assets = [j \in Jobs |-> 0]
    /\ bound = [j \in Jobs |-> FALSE]
    /\ credential = TRUE
    /\ submits = [j \in Jobs |-> 0]
    /\ task = [j \in Jobs |-> "none"]

-----------------------------------------------------------------------------
(* Helpers: the store's operations on one job *)

\* A snapshot job is left alone while supplier execution is off.
Eligible(j) == snapshot[j] => enabled

SetStatus(j, s) == status' = [status EXCEPT ![j] = s]
SetAttempt(j, s) == attempt' = [attempt EXCEPT ![j] = s]

\* record_submission_attempt: the id and the evidence default to '', so a
\* state recorded without them erases the ones that were there.
RecordAttempt(j, s, id, ev) ==
    /\ SetAttempt(j, s)
    /\ attemptId' = [attemptId EXCEPT ![j] = id]
    /\ evidence' = [evidence EXCEPT ![j] = ev]

\* commit_accepted_submission, when it does not raise.
CanCommit(j) ==
    /\ attempt[j] = "accepted" /\ attemptId[j]
    /\ status[j] \in {"submitting", "submitted"}

\* Mutant: the job's row does not get the id.
CommitWithoutId(j) ==
    /\ CanCommit(j)
    /\ SetStatus(j, "submitted") /\ SetAttempt(j, "committed")
    /\ UNCHANGED <<jobId, snapshot, bound, attemptId, evidence>>

CommitAccepted(j) ==
    /\ CanCommit(j)
    /\ SetStatus(j, "submitted")
    /\ jobId' = [jobId EXCEPT ![j] = @ \/ status[j] = "submitting"]
    /\ SetAttempt(j, "committed")
    /\ UNCHANGED <<snapshot, bound, attemptId, evidence>>

\* transition_generation_job to a status other than submitted.
Transition(j, s) == SetStatus(j, s) /\ UNCHANGED <<jobId, snapshot, bound, attVars>>

Goto(s) == at' = s /\ UNCHANGED <<cur, todo, pollable, enabled, poller, crashes>>
Return(s) == at' = s /\ cur' = NoJob
             /\ UNCHANGED <<todo, pollable, enabled, poller, crashes>>
\* The event loop is free and takes up a request about job j.
Handle(j, s) == at = "idle" /\ at' = s /\ cur' = j
                /\ UNCHANGED <<todo, pollable, enabled, poller, crashes>>

-----------------------------------------------------------------------------
(* Start of the server *)

\* The active legacy rows LegacyAgnesBackfill.run selects.
BackfillRows == {j \in LegacyJobs : /\ status[j] \in {"queued", "submitting"} \cup Tracked
                                    /\ ~snapshot[j]}

Start(mode) ==
    /\ at \in {"down", "aborted"}
    /\ at' = IF mode THEN "backfill" ELSE "recover"
    /\ todo' = IF mode THEN BackfillRows ELSE {}
    /\ cur' = NoJob /\ pollable' = {} /\ enabled' = mode /\ poller' = "running"
    /\ UNCHANGED <<crashes, jobVars, attVars, outVars, provVars, credential>>

\* LegacyAgnesBackfill: a row without a provider id is ended, one with an id
\* gets a snapshot of the legacy_agnes_v1 supplier and its current credential.
BackfillJob(j) ==
    /\ at = "backfill" /\ j \in todo
    /\ IF jobId[j]
       THEN /\ snapshot' = [snapshot EXCEPT ![j] = TRUE]
            /\ bound' = [bound EXCEPT ![j] = TRUE]
            /\ UNCHANGED status
       ELSE /\ SetStatus(j, IF status[j] = "queued" THEN "cancelled" ELSE "failed")
            /\ UNCHANGED <<snapshot, bound>>
    /\ todo' = todo \ {j}
    /\ UNCHANGED <<at, cur, pollable, enabled, poller, crashes, jobId, attVars,
                   outVars, provVars, credential>>

BackfillDone ==
    /\ at = "backfill" /\ todo = {}
    /\ Goto("recover")
    /\ UNCHANGED <<jobVars, attVars, outVars, provVars, credential>>

\* recover_submission_attempts, at a start and at the head of every cycle.
RecoverAccepted(j) ==
    /\ at \in {"recover", "cycleRecover"}
    /\ CommitAccepted(j)
    /\ UNCHANGED <<procVars, outVars, provVars, credential>>

\* It raises on an accepted attempt whose job it cannot commit: a start fails,
\* and in a cycle the exception ends the poller's task.
RecoverRaises(j) ==
    /\ at \in {"recover", "cycleRecover"}
    /\ attempt[j] = "accepted" /\ ~CanCommit(j)
    /\ IF at = "recover" THEN at' = "aborted" /\ UNCHANGED poller
                         ELSE at' = "idle" /\ poller' = "dead"
    /\ UNCHANGED <<cur, todo, pollable, enabled, crashes,
                   jobVars, attVars, outVars, provVars, credential>>

\* Mutant: a start of a server without supplier execution recovers nothing.
RecoverIfEnabled ==
    /\ at \in {"recover", "cycleRecover"}
    /\ enabled => \A j \in Jobs : attempt[j] # "accepted"
    /\ Goto(CASE at = "cycleRecover" -> "cycleOrphans"
              [] at = "recover" /\ enabled -> "images"
              [] OTHER -> "idle")
    /\ UNCHANGED <<jobVars, attVars, outVars, provVars, credential>>

RecoverDone ==
    /\ at \in {"recover", "cycleRecover"}
    /\ \A j \in Jobs : attempt[j] # "accepted"
    /\ Goto(CASE at = "cycleRecover" -> "cycleOrphans"
              [] at = "recover" /\ enabled -> "images"
              [] OTHER -> "idle")
    /\ UNCHANGED <<jobVars, attVars, outVars, provVars, credential>>

\* recover_image_jobs: image jobs whose accepted answer was committed but
\* which have no result yet.
ImageBacklog == {j \in ImageJobs : /\ status[j] = "submitted"
                                   /\ attempt[j] = "committed"
                                   /\ results[j] = 0}

\* Mutant: the status without the result's row.
CompleteStatusOnly(j) ==
    /\ status[j] \in Tracked
    /\ SetStatus(j, "completed")
    /\ UNCHANGED <<jobId, snapshot, bound, attVars, outVars>>

\* complete_generation_job_with_result: the result and the status in one commit.
CompleteWithResult(j) ==
    /\ status[j] \in Tracked
    /\ SetStatus(j, "completed")
    /\ results' = [results EXCEPT ![j] = @ + 1]
    /\ UNCHANGED <<jobId, snapshot, bound, attVars, assets>>

\* The tail of _finalize_image: an asset unless the job already has one.
EnsureAsset(j) ==
    /\ assets' = [assets EXCEPT ![j] = IF @ = 0 THEN 1 ELSE @]
    /\ UNCHANGED <<jobVars, attVars, results>>

BootImage(j) ==
    /\ at = "images" /\ j \in ImageBacklog /\ evidence[j] = "image"
    /\ CompleteWithResult(j)
    /\ at' = "bootImageCompleted" /\ cur' = j
    /\ UNCHANGED <<todo, pollable, enabled, poller, crashes, provVars, credential>>

BootImageAsset ==
    /\ at = "bootImageCompleted"
    /\ EnsureAsset(cur)
    /\ Return("images")
    /\ UNCHANGED <<provVars, credential>>

\* The evidence of a video submission names no object_id: the start fails.
BootImageRaises(j) ==
    /\ at = "images" /\ j \in ImageBacklog /\ evidence[j] # "image"
    /\ Goto("aborted")
    /\ UNCHANGED <<jobVars, attVars, outVars, provVars, credential>>

BootDone ==
    /\ at = "images" /\ ImageBacklog = {}
    /\ Goto("idle")
    /\ UNCHANGED <<jobVars, attVars, outVars, provVars, credential>>

-----------------------------------------------------------------------------
(* Requests *)

\* queue_video_job with supplier execution off: the row is inserted as a
\* draft and queued by a second commit; a replay finds the draft and queues it.
LegacyDraft(j) ==
    /\ j \in LegacyJobs /\ ~enabled /\ status[j] = "absent"
    /\ Handle(j, "drafted")
    /\ Transition(j, "draft")
    /\ UNCHANGED <<outVars, provVars, credential>>

LegacyReplay(j) ==
    /\ j \in LegacyJobs /\ ~enabled /\ status[j] = "draft"
    /\ Handle(j, "drafted")
    /\ UNCHANGED <<jobVars, attVars, outVars, provVars, credential>>

LegacyQueue ==
    /\ at = "drafted"
    /\ Transition(cur, "queued")
    /\ Return("idle")
    /\ UNCHANGED <<outVars, provVars, credential>>

\* enqueue_generation_job_with_snapshot: snapshot, job, attempt and
\* idempotency record in one transaction.
InsertWithSnapshot(j) ==
    /\ enabled /\ credential /\ status[j] = "absent"
    /\ SetStatus(j, "queued")
    /\ snapshot' = [snapshot EXCEPT ![j] = TRUE]
    /\ bound' = [bound EXCEPT ![j] = TRUE]
    /\ SetAttempt(j, "prepared")
    /\ UNCHANGED <<jobId, attemptId, evidence, outVars, provVars, credential>>

EnqueueVideo(j) ==
    /\ j \in VideoJobs /\ at = "idle"
    /\ InsertWithSnapshot(j)
    /\ UNCHANGED procVars

\* Mutant: the request ends with the row, and leaves the rest to the poller.
EnqueueImageOnly(j) ==
    /\ j \in ImageJobs /\ at = "idle"
    /\ InsertWithSnapshot(j)
    /\ UNCHANGED procVars

EnqueueImage(j) ==
    /\ j \in ImageJobs
    /\ Handle(j, "imageQueued")
    /\ InsertWithSnapshot(j)

\* The same image request again, with the same key.  A job with an asset, or
\* one whose attempt has left "prepared", is answered without any write, and so
\* is a request that now resolves to another credential.
ReplayImage(j) ==
    /\ j \in ImageJobs /\ enabled /\ credential /\ bound[j]
    /\ status[j] # "absent" /\ assets[j] = 0 /\ attempt[j] = "prepared"
    /\ Handle(j, "imageQueued")
    /\ UNCHANGED <<jobVars, attVars, outVars, provVars, credential>>

\* Mutant: the claim does not look at the rows it claims.
ClaimBlindly ==
    /\ at = "imageQueued"
    /\ SetStatus(cur, "submitting") /\ SetAttempt(cur, "submitting")
    /\ Goto("imageCalling")
    /\ UNCHANGED <<jobId, snapshot, bound, attemptId, evidence, outVars, provVars, credential>>

\* claim_generation_submission: both rows or neither.
ClaimImage ==
    /\ at = "imageQueued"
    /\ IF status[cur] = "queued" /\ attempt[cur] = "prepared"
       THEN /\ SetStatus(cur, "submitting")
            /\ SetAttempt(cur, "submitting")
            /\ Goto("imageCalling")
       ELSE Return("idle") /\ UNCHANGED <<status, attempt>>
    /\ UNCHANGED <<jobId, snapshot, bound, attemptId, evidence, outVars, provVars, credential>>

\* imageRequest.  An answer without content leaves the handler at once, the
\* job as it was claimed; an exception may be raised before or after the call.
CallImage ==
    /\ at = "imageCalling"
    /\ \/ /\ submits' = [submits EXCEPT ![cur] = @ + 1]
          /\ \/ Goto("imageReturned") \/ Return("idle")
       \/ /\ \E called \in {0, 1} : submits' = [submits EXCEPT ![cur] = @ + called]
          /\ Goto("imageUnknown")
    /\ UNCHANGED <<task, jobVars, attVars, outVars, credential>>

\* Mutant: the acceptance is recorded without the answer's object.
AcceptWithoutEvidence ==
    /\ at = "imageReturned"
    /\ RecordAttempt(cur, "accepted", TRUE, "none")
    /\ Goto("imageAccepted")
    /\ UNCHANGED <<jobVars, outVars, provVars, credential>>

ImageAccepted ==
    /\ at = "imageReturned"
    /\ RecordAttempt(cur, "accepted", TRUE, "image")
    /\ Goto("imageAccepted")
    /\ UNCHANGED <<jobVars, outVars, provVars, credential>>

ImageCommitted ==
    /\ at = "imageAccepted"
    /\ CommitAccepted(cur)
    /\ Goto("imageCommitted")
    /\ UNCHANGED <<outVars, provVars, credential>>

ImageCompleted ==
    /\ at = "imageCommitted"
    /\ CompleteWithResult(cur)
    /\ Goto("imageCompleted")
    /\ UNCHANGED <<provVars, credential>>

ImageAsset ==
    /\ at = "imageCompleted"
    /\ EnsureAsset(cur)
    /\ Return("idle")
    /\ UNCHANGED <<provVars, credential>>

ImageUnknown ==
    /\ at = "imageUnknown"
    /\ RecordAttempt(cur, "unknown_outcome", FALSE, "none")
    /\ Goto("imageFailing")
    /\ UNCHANGED <<jobVars, outVars, provVars, credential>>

ImageFails ==
    /\ at = "imageFailing"
    /\ Transition(cur, "failed")
    /\ Return("idle")
    /\ UNCHANGED <<outVars, provVars, credential>>

\* Mutant: an ended job is refreshed too.
RefreshAny(j) ==
    /\ status[j] \notin {"absent", "draft", "queued", "submitting"} /\ Eligible(j)
    /\ Transition(j, "failed") /\ UNCHANGED <<outVars, provVars, credential>>

\* refresh_job: one poll, perhaps one fetch, at most one commit.  A provider
\* error, an expired result or an unknown status fails the job.
RefreshJob(j) ==
    /\ status[j] \in Tracked /\ Eligible(j)
    /\ \/ task[j] = "running" /\ UNCHANGED <<jobVars, attVars, outVars>>
       \/ task[j] = "running" /\ Transition(j, "polling") /\ UNCHANGED outVars
       \/ Transition(j, "failed") /\ UNCHANGED outVars
       \/ task[j] = "done" /\ CompleteWithResult(j)
    /\ UNCHANGED <<provVars, credential>>

\* The refresh endpoint; every other status is answered without a write.
Refresh(j) == at = "idle" /\ RefreshJob(j) /\ UNCHANGED procVars

\* The jobs of a supplier: legacy_agnes_v1, or the one of every other job.
Suppliers == {LegacyJobs, VideoJobs \cup ImageJobs}

\* Forced deletion of a supplier's current credential: the jobs frozen to it are
\* ended in one transaction, their attempts are not touched.
Referencing(S) == {j \in S : bound[j] /\ status[j] \notin Terminal}

DeleteCredential(S) ==
    /\ at = "idle"
    /\ S = LegacyJobs \/ credential
    /\ credential' = (credential /\ S = LegacyJobs)
    /\ status' = [j \in Jobs |-> IF j \notin Referencing(S) THEN status[j]
                                 ELSE IF status[j] \in {"draft", "queued"}
                                      THEN "cancelled" ELSE "failed"]
    /\ bound' = [j \in Jobs |-> bound[j] /\ j \notin S]
    /\ UNCHANGED <<procVars, jobId, snapshot, attVars, outVars, provVars>>

\* A new current credential; older jobs keep the version they were frozen to.
ReplaceCredential(S) ==
    /\ at = "idle"
    /\ credential' = (credential \/ S # LegacyJobs)
    /\ bound' = [j \in Jobs |-> bound[j] /\ j \notin S]
    /\ UNCHANGED <<procVars, status, jobId, snapshot, attVars, outVars, provVars>>

-----------------------------------------------------------------------------
(* The poller's cycle: run_cycle *)

CycleStart ==
    /\ at = "idle" /\ poller = "running"
    /\ Goto("cycleRecover")
    /\ UNCHANGED <<jobVars, attVars, outVars, provVars, credential>>

\* Mutant: only submissions without a snapshot count as orphaned.
OrphansLegacy == {j \in Jobs : status[j] = "submitting" /\ ~snapshot[j] /\ ~jobId[j]}

\* _mark_orphaned_submitting
Orphans == {j \in Jobs : status[j] = "submitting" /\ Eligible(j) /\ ~jobId[j]}

\* Mutant: an interrupted submission is tried again.
RetryOrphan(j) ==
    /\ at = "cycleOrphans" /\ j \in Orphans
    /\ SetStatus(j, "queued") /\ SetAttempt(j, "prepared")
    /\ UNCHANGED <<procVars, jobId, snapshot, bound, attemptId, evidence, outVars, provVars,
                   credential>>

MarkOrphan(j) ==
    /\ at = "cycleOrphans" /\ j \in Orphans
    /\ IF attempt[j] = "accepted" THEN CommitAccepted(j) ELSE Transition(j, "failed")
    /\ UNCHANGED <<procVars, outVars, provVars, credential>>

\* _due_jobs_by_status and _rate_limited_jobs: any part of the tracked jobs.
PickPollable(S) ==
    /\ at = "cycleOrphans" /\ Orphans = {}
    /\ S \subseteq {j \in Jobs : status[j] \in Tracked /\ Eligible(j)}
    /\ at' = "cycleGate" /\ pollable' = S
    /\ UNCHANGED <<cur, todo, enabled, poller, crashes,
                   jobVars, attVars, outVars, provVars, credential>>

\* A queued job whose snapshot cannot be loaded any more.
CancelUnavailable(j) ==
    /\ at = "cycleGate" /\ status[j] = "queued" /\ snapshot[j] /\ enabled
    /\ Transition(j, "cancelled")
    /\ UNCHANGED <<procVars, outVars, provVars, credential>>

\* The queued jobs the limiter lets through, whatever their job_type.
PickQueued(S) ==
    /\ at = "cycleGate"
    /\ S \subseteq {j \in Jobs : status[j] = "queued" /\ Eligible(j)}
    /\ at' = "cycleSubmit" /\ todo' = S
    /\ UNCHANGED <<cur, pollable, enabled, poller, crashes,
                   jobVars, attVars, outVars, provVars, credential>>

\* submit_queued_job.  A queued job's attempt is missing or prepared; with any
\* other (recovery has taken the accepted ones) the job is left as it is.
SubmitPrepare(j) ==
    /\ at = "cycleSubmit" /\ j \in todo
    /\ todo' = todo \ {j}
    /\ IF attempt[j] \in {"none", "prepared"}
       THEN SetAttempt(j, "prepared") /\ at' = "prepared" /\ cur' = j
       ELSE UNCHANGED <<attempt, at, cur>>
    /\ UNCHANGED <<pollable, enabled, poller, crashes, jobVars, attemptId, evidence,
                   outVars, provVars, credential>>

SubmitMark ==
    /\ at = "prepared"
    /\ Transition(cur, "submitting")
    /\ Goto("marked")
    /\ UNCHANGED <<outVars, provVars, credential>>

\* Mutant: the attempt is not recorded before the call.
CallUnrecorded ==
    /\ at = "marked" /\ Goto("calling")
    /\ UNCHANGED <<jobVars, attVars, outVars, provVars, credential>>

SubmitRecord ==
    /\ at = "marked"
    /\ RecordAttempt(cur, "submitting", FALSE, "none")
    /\ Goto("calling")
    /\ UNCHANGED <<jobVars, outVars, provVars, credential>>

\* create_video_job or videoSubmit.  An error may come before the call, from
\* the provider, or after the provider has taken the job.
SubmitCall ==
    /\ at = "calling"
    /\ \/ /\ submits' = [submits EXCEPT ![cur] = @ + 1]
          /\ task' = [task EXCEPT ![cur] = "running"]
          /\ \E next \in {"returned", "rejected", "unknown"} : Goto(next)
       \/ /\ \E called \in {0, 1} : submits' = [submits EXCEPT ![cur] = @ + called]
          /\ \E next \in {"rejected", "unknown"} : Goto(next)
          /\ UNCHANGED task
    /\ UNCHANGED <<jobVars, attVars, outVars, credential>>

SubmitAccepted ==
    /\ at = "returned"
    /\ RecordAttempt(cur, "accepted", TRUE, "video")
    /\ Goto("accepted")
    /\ UNCHANGED <<jobVars, outVars, provVars, credential>>

SubmitCommit ==
    /\ at = "accepted"
    /\ CommitAccepted(cur)
    /\ Return("cycleSubmit")
    /\ UNCHANGED <<outVars, provVars, credential>>

\* The attempt is recorded first, then the job: ProviderError and an
\* unreachable input are failures, anything else an unknown outcome.
SubmitError ==
    /\ at \in {"rejected", "unknown"}
    /\ RecordAttempt(cur, IF at = "rejected" THEN "failed" ELSE "unknown_outcome", FALSE,
                     "none")
    /\ Goto("failing")
    /\ UNCHANGED <<jobVars, outVars, provVars, credential>>

SubmitFails ==
    /\ at = "failing"
    /\ Transition(cur, "failed")
    /\ Return("cycleSubmit")
    /\ UNCHANGED <<outVars, provVars, credential>>

SubmitsDone ==
    /\ at = "cycleSubmit" /\ todo = {}
    /\ at' = "cyclePoll" /\ todo' = pollable /\ pollable' = {}
    /\ UNCHANGED <<cur, enabled, poller, crashes,
                   jobVars, attVars, outVars, provVars, credential>>

PollJob(j) ==
    /\ at = "cyclePoll" /\ j \in todo
    /\ RefreshJob(j)
    /\ at' = "polled" /\ cur' = j /\ todo' = todo \ {j}
    /\ UNCHANGED <<pollable, enabled, poller, crashes>>

\* A job still with the provider is due again at once.
PollAgain ==
    /\ at = "polled"
    /\ IF status[cur] \in Tracked THEN Transition(cur, "polling")
                                  ELSE UNCHANGED <<jobVars, attVars>>
    /\ Return("cyclePoll")
    /\ UNCHANGED <<outVars, provVars, credential>>

CycleDone ==
    /\ at = "cyclePoll" /\ todo = {}
    /\ Goto("idle")
    /\ UNCHANGED <<jobVars, attVars, outVars, provVars, credential>>

-----------------------------------------------------------------------------
(* The environment *)

\* The provider finishes a task.
Finish(j) ==
    /\ task[j] = "running"
    /\ \E end \in {"done", "failed"} : task' = [task EXCEPT ![j] = end]
    /\ UNCHANGED <<procVars, jobVars, attVars, outVars, submits, credential>>

\* The process ends: between any two commits, or between requests when it is
\* stopped.  The tables stay.
Crash ==
    /\ at \notin {"down", "aborted"} /\ crashes < MaxCrashes
    /\ crashes' = crashes + 1
    /\ at' = "down" /\ cur' = NoJob /\ todo' = {} /\ pollable' = {}
    /\ UNCHANGED <<enabled, poller, jobVars, attVars, outVars, provVars, credential>>

-----------------------------------------------------------------------------

Boot ==
    \/ \E mode \in Modes : Start(mode)
    \/ BackfillDone \/ RecoverDone \/ BootImageAsset \/ BootDone
    \/ \E j \in Jobs : \/ BackfillJob(j) \/ RecoverAccepted(j) \/ RecoverRaises(j)
                       \/ BootImage(j) \/ BootImageRaises(j)

Request ==
    \/ \E S \in Suppliers : DeleteCredential(S) \/ ReplaceCredential(S)
    \/ \E j \in Jobs : \/ LegacyDraft(j) \/ LegacyReplay(j) \/ EnqueueVideo(j)
                       \/ EnqueueImage(j) \/ ReplayImage(j) \/ Refresh(j)

Handler ==
    \/ LegacyQueue \/ ClaimImage \/ CallImage \/ ImageAccepted \/ ImageCommitted
    \/ ImageCompleted \/ ImageAsset \/ ImageUnknown \/ ImageFails

Cycle ==
    \/ CycleStart
    \/ \E j \in Jobs : \/ MarkOrphan(j) \/ CancelUnavailable(j)
                       \/ SubmitPrepare(j) \/ PollJob(j)
    \/ \E S \in SUBSET Jobs : PickPollable(S) \/ PickQueued(S)
    \/ SubmitMark \/ SubmitRecord \/ SubmitCall \/ SubmitAccepted \/ SubmitCommit
    \/ SubmitError \/ SubmitFails \/ SubmitsDone \/ PollAgain \/ CycleDone

Next == Boot \/ Request \/ Handler \/ Cycle \/ Crash \/ \E j \in Jobs : Finish(j)

Spec == Init /\ [][Next]_vars

(***************************************************************************)
(* Fairness.  What the process has begun it goes on with; a server that is *)
(* down is started again; the poller's timer gets its turn on the event    *)
(* loop however many requests there are (the loop is first in, first out); *)
(* the rolling minute of the limiter does not leave a job out for ever;    *)
(* and the provider ends every task.  No fairness for requests or crashes. *)
(***************************************************************************)
Fairness ==
    /\ WF_vars(Boot)
    /\ WF_vars(Handler)
    /\ WF_vars(Cycle /\ at # "idle")
    /\ SF_vars(CycleStart)
    /\ \A j \in Jobs :
         /\ WF_vars(Finish(j))
         /\ SF_vars(\E S \in SUBSET Jobs : j \in S /\ PickPollable(S))
         /\ SF_vars(\E S \in SUBSET Jobs : j \in S /\ PickQueued(S))

FairSpec == Spec /\ Fairness

-----------------------------------------------------------------------------
(* Properties *)

\* However requests, the poller, crashes and restarts interleave, a job is
\* submitted to a provider at most once: the two submission paths (the image
\* handler and submit_queued_job) never both reach their call for one job, and
\* no recovery leads back to a call.
AtMostOneSubmit == \A j \in Jobs : submits[j] <= 1

\* A legacy job whose process died between the provider's acceptance and its
\* commit, and which the backfill of a later start has failed by its row, where
\* the provider's id is not yet.
LostByBackfill(j) ==
    /\ j \in LegacyJobs /\ ~snapshot[j] /\ ~jobId[j] /\ crashes > 0
    /\ attempt[j] = "accepted" /\ status[j] = "failed"

\* What recover_submission_attempts relies on: an attempt is left as accepted
\* only by a death before the commit, so that no handler or cycle meets one but
\* the one that has just recorded it; it holds the provider's id; and its job is
\* still in a state that commit_accepted_submission takes.  The one exception is
\* a legacy job the backfill has failed by then.
AcceptedIsRecoverable ==
    \A j \in Jobs : attempt[j] = "accepted" =>
        /\ attemptId[j]
        /\ \/ at \in {"accepted", "imageAccepted"} /\ cur = j
           \/ at \in {"down", "aborted", "backfill", "recover"} /\ crashes > 0
        /\ CanCommit(j) \/ LostByBackfill(j)

\* A start fails for two reasons only, and never after a clean first run: the
\* backfill has failed a job whose acceptance was on record, or the poller has
\* submitted an image, left queued by one death, as a video, and a second death
\* kept it from ending that.
FailedStartIsExplained ==
    at = "aborted" =>
        \/ \E j \in Jobs : LostByBackfill(j)
        \/ enabled /\ crashes > 1 /\ \E j \in ImageBacklog : evidence[j] = "video"

\* A completed image has its asset, unless the step that makes it is still to come
\* or a death was before: recover_image_jobs does not look for completed jobs.
\* Neither the poller nor a refresh gets to complete an image without one.
CompletedImageHasAsset ==
    \A j \in ImageJobs : status[j] = "completed" =>
        \/ assets[j] = 1
        \/ at \in {"imageCompleted", "bootImageCompleted"} /\ cur = j
        \/ crashes > 0

\* Polling asks about a submission that was really made: a job that is tracked
\* or completed has the provider's id, its attempt is committed, it was
\* submitted exactly once, and a video is known to the provider.
TrackedIsSubmitted ==
    \A j \in Jobs : status[j] \in Tracked \cup {"completed"} =>
        /\ jobId[j] /\ attemptId[j] /\ attempt[j] = "committed"
        /\ submits[j] = 1
        /\ evidence[j] = "video" => task[j] # "none"

\* A job is completed exactly when it has its one result, whichever of the
\* poller, the refresh endpoint, the image handler and the start completed it;
\* an asset is made once, for a completed image only.
CompletedHasOneResult ==
    \A j \in Jobs :
        /\ results[j] = IF status[j] = "completed" THEN 1 ELSE 0
        /\ assets[j] <= results[j]
        /\ assets[j] = 1 => evidence[j] = "image"

\* A provider is called for a job only after both rows durably say so
\* ("submitting" is persisted before the network call), and never for a
\* snapshot job while supplier execution is off.
SubmitOnlyWhenClaimed ==
    [][\A j \in Jobs : submits'[j] # submits[j] =>
        status[j] = "submitting" /\ attempt[j] = "submitting" /\ Eligible(j)]_vars

\* GENERATION_JOB_TRANSITIONS, and the two ways a row is inserted.
AllowedStatus ==
    {<<"absent", "draft">>, <<"absent", "queued">>, <<"draft", "queued">>,
     <<"queued", "submitting">>, <<"queued", "cancelled">>,
     <<"submitting", "submitted">>, <<"submitting", "failed">>}
    \cup {<<s, t>> : s \in Tracked, t \in {"polling", "completed", "failed"}}

\* Every writer of internal_status keeps to the transition table, those too
\* that go round transition_generation_job: the claim, the commit of an accepted
\* submission, the completion and the forced deletion of a credential.  So an
\* ended job stays as it ended.
StatusFollowsTable ==
    [][\A j \in Jobs : status'[j] # status[j] =>
        <<status[j], status'[j]>> \in AllowedStatus]_vars

\* An id the provider gave is never forgotten once recorded: recording an
\* attempt's state without an id would erase it.
ProviderIdIsKept ==
    [][\A j \in Jobs : /\ jobId[j] => jobId'[j]
                       /\ attemptId[j] => attemptId'[j]]_vars

\* Whatever a restart finds, the server starts.
ServerStarts == at # "aborted"

\* No job waits for ever: a queued job is submitted, ended or revoked.
QueuedIsTaken == \A j \in Jobs : status[j] = "queued" ~> status[j] # "queued"

\* A claimed submission is resolved, also when the process died during the
\* call or the handler left it.
SubmittingIsResolved ==
    \A j \in Jobs : status[j] = "submitting" ~> status[j] # "submitting"

\* A tracked job ends once the provider has ended it.
TrackedEnds == \A j \in Jobs : status[j] \in Tracked ~> status[j] \in Terminal

\* So every job moves on: from the queue, from an interrupted submission and from
\* tracking, whatever handler, cycle or start it was left by.
JobsMoveOn == QueuedIsTaken /\ SubmittingIsResolved /\ TrackedEnds

\* A loss is for good: no later start, with supplier execution on or off, and
\* nothing else undoes it.
LossIsPermanent == [][\A j \in Jobs : LostByBackfill(j) => LostByBackfill(j)']_vars

-----------------------------------------------------------------------------
(* The promise these tables and steps keep *)

PhaseOf(j) ==
    IF status[j] = "completed" THEN "completed"
    ELSE IF status[j] \in Terminal THEN "ended"
    ELSE IF attempt[j] \in {"accepted", "committed"} THEN "tracked"
    ELSE IF submits[j] > 0 THEN "called"
    ELSE "new"

Promise == INSTANCE SubmissionPromise
               WITH phase <- [j \in Jobs |-> PhaseOf(j)], calls <- submits

\* The subsystem implements the promise.
KeepsPromise == Promise!PromiseSpec

=============================================================================
