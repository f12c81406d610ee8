# ai-drama: a TLA+ model

ai-drama turns chapters of a novel into scripts, storyboards, shot prompts, images
and videos. A FastAPI server keeps everything in SQLite and in a directory of
content-addressed objects, and asks external suppliers for text, images and videos.
What makes it hard is not the data but the order of things: a call that costs money
sits between two commits, the process can die at any of them, a poller and request
handlers work on the same rows, and a browser follows a thread of the server through a
connection that breaks.

All paths below are relative to the repository.

## 1. Inventory

| Part | State it keeps | Operations | Talks to |
|---|---|---|---|
| Jobs and attempts: `ai_drama_web/store.py`, `services/generation_execution.py`, `services/generation_jobs.py` | `generation_jobs`, `generation_submission_attempts`, `generation_results` | queue, submit, accept, commit, poll, complete, recover | suppliers through `suppliers/execution.py` or `providers/` |
| Poller: `services/generation_poller.py` | an asyncio task, the rate limiter | one cycle: recover, orphans, pick, submit, poll | jobs |
| Images: `services/m6_generation.py` | `assets`, the same job tables | generate, replay, claim, finalise, recover at start | jobs, limiter, credentials |
| Legacy backfill: `services/legacy_agnes_backfill.py` | `snapshot_hash` of old rows | once per start | jobs |
| Script sessions: `services/script_generation_stream.py`, `services/script_workflow.py` | `script_generation_runs`, `script_generation_events`, `supplier_text_runs` | start, claim, stream, finalise, fail, rescue, recover | runtime services, worker |
| Event stream: `routers/scripts.py`; page: `web/src/features/script/` | the generator's cursor; the reducer's state | list, check; open, reduce, reconcile | sessions |
| Runtime: `ai_drama_runtime/` | `runs`, `revisions`, approvals, validations, object files | prepare, validate, publish, approve, export | skills, validators |
| Credentials: `suppliers/credentials.py` | secret files, `credential_versions`, a journal | replace, delete, recover, read | jobs, model tests |
| Idempotency and snapshots: `suppliers/idempotency.py`, `suppliers/snapshots.py` | `supplier_idempotency_records`, `execution_snapshots` | enqueue or replay | jobs, text runs |
| Rate limiter: `suppliers/rate_limits.py` | a deque of times per bucket | acquire, release | poller, images, model tests |
| Model tests: `suppliers/model_tests.py` | `supplier_model_test_runs` | queue, claim, settle, mark interrupted | credentials, limiter |
| Catalog: `suppliers/model_catalog.py`, `resolution.py`, `builtin_adapters.py`, `routers/suppliers.py`, ... | versions, configurations, models, bindings | optimistic replacement, binding, resolution | snapshots |
| Worker: `suppliers/worker.py`, `worker/src/` | a child process per call | invoke, stream | suppliers |
| Store opening: the constructors of both stores, `shot_prompt_migration.py` | the schema itself, `schema_migrations` | create, rebuild, widen, move | every process and thread |
| Assets and requirements: `services/assets.py`, `services/asset_requirements.py` | `assets`, `asset_bindings`, `asset_requirement_sets` | upload, adopt, reject, analyse | shot prompts, videos |
| Shot prompts: `services/shot_prompts.py`, `services/chapter_status.py` | `shot_prompt_set` revisions, readiness records | generate, edit, validate, mark ready | assets, videos |
| Operations: `operations/`, `tools/` | backups, inventories | back up, restore, collect | objects |

How they run. One uvicorn event loop serves requests and runs the poller. Handlers and
poller cycles contain no `await` between their commits, so they do not interleave with
each other, but each is a *series* of SQLite commits with external calls in between: a
crash can fall anywhere, and what a later handler, cycle or start finds are the
rows. Real parallelism exists in two places: `asyncio.to_thread` in the script runner and
in the model-test runner, and between the server and other processes, the `ai-drama`
command line and the tools under `tools/`.

A start goes: credential recovery, adapters and legacy backfill (supplier execution on),
recovery of accepted submissions, recovery of images, poller; then model tests; then
recovery of script sessions and their runner (`ai_drama_web/app.py:58-138`).

What makes each part correct:

* jobs: a provider is asked at most once per job, also after a crash of unknown outcome; an
  accepted submission is never lost; the status obeys the transition table; one result;
* images: as above, and a completed image has an asset;
* script sessions: at most one call; an end that agrees with the chain of revisions; a log that
  only grows and tells the truth; every session ends;
* page: each event once and in order through any number of reconnections; the true end shown;
* credentials: after a crash at any step there is one usable current version or a visible corruption,
  and no secret file outlives its deletion;
* idempotency: one key, one entity; a different request under the same key is refused;
* limiter: never more than the limit in a minute, no leaked or stolen reservation;
* model tests: one call per test, a late answer does not overwrite a revocation;
* revisions: an approval status that is what the log of decisions says; an approval that was
  earned when it was given; sources that were approved; exports on record that are there;
* assets and prompts: readiness that was earned, and videos backed by assets still usable;
* catalog: one enabled model per name and capability, no reference to a model that is gone, no lost update;
* objects: what a row names is there, whole, as long as the row is;
* store opening: nobody works on an old table, no migration loses rows.

`PROJECT.json` lists every component with its status, and every hazard at its line.

## 2. Plan

| Modules | Checked by | Proved in |
|---|---|---|
| `GenerationJobs` with its abstract specification `SubmissionPromise` | JobsMixed, JobsLive, JobsImageStart | `GenerationJobsProofs` |
| `ScriptGeneration` with its abstract specification `SessionPromise`, and `ScriptView`, which composes the page with it | ScriptServer, ScriptWatch | `ScriptProofs` |
| `RevisionChain` | Chapter | `RevisionChainProofs` |
| `ShotAssets` | ShotAssets | `ShotAssetsProofs` |
| `SupplierSecrets` (composes credentials and model tests) with its abstract specification `SecretVault` | Secrets | `SupplierSecretsProofs` |
| `ModelCatalog` | Catalog | `ModelCatalogProofs` |
| `ObjectStore` | ObjectStore, ObjectTorn | `ObjectStoreProofs` |
| `StoreOpening` | StoreOpening | `StoreOpeningProofs` |

Left, in this order: the rolling minute of the limiter with its two threads; hashes of requests
under an idempotency key; the start of the server as one composition of the recoveries that are now
apart; unmounting and remounting of `ScriptTab`; the frames of the worker as functions.

Modules that are proved about use no RECURSIVE operator. `MCGenerationJobs`, `MCShotAssets` and `MCModelCatalog`
add only what TLC needs, symmetry where it is sound.

## 3. Modules

### GenerationJobs

The tables `generation_jobs` (`status`, `jobId`, `snapshot`, `bound`),
`generation_submission_attempts` (`attempt`, `attemptId`, `evidence`), `generation_results`
(`results`) and `assets`; the process (`at`, `cur`, `todo`, `pollable`, `enabled`, `poller`);
and the provider's own view (`submits`, `task`). One action is one commit or one
external call; `at` chains them in the order of the code. Three kinds of jobs differ
in their path:

| Code | Actions |
|---|---|
| `LegacyAgnesBackfill.run` | `BackfillJob`, `BackfillDone` |
| `recover_submission_attempts` (start and cycle) | `RecoverAccepted`, `RecoverRaises`, `RecoverDone` |
| `recover_image_jobs`, `_finalize_image` | `BootImage`, `BootImageAsset`, `BootImageRaises`, `BootDone` |
| `queue_video_job`, supplier execution off | `LegacyDraft`, `LegacyReplay`, `LegacyQueue` |
| `enqueue_video`, `rerun_video` | `EnqueueVideo` |
| `generate_image` | `EnqueueImage`, `ReplayImage`, `ClaimImage`, `CallImage`, `ImageAccepted`, `ImageCommitted`, `ImageCompleted`, `ImageAsset`, `ImageUnknown`, `ImageFails` |
| the refresh endpoint | `Refresh` |
| forced deletion, replacement of a credential | `DeleteCredential`, `ReplaceCredential` |
| `run_cycle` | `CycleStart`, `MarkOrphan`, `PickPollable`, `CancelUnavailable`, `PickQueued`, `SubmitsDone`, `PollJob`, `PollAgain`, `CycleDone` |
| `submit_queued_job` | `SubmitPrepare`, `SubmitMark`, `SubmitRecord`, `SubmitCall`, `SubmitAccepted`, `SubmitCommit`, `SubmitError`, `SubmitFails` |
| the process and the provider | `Start`, `Crash`, `Finish` |

Abstracted: the order of rows within a loop is any order; the limiter may leave out any
job of a cycle; an operation raises before the call, after it, or after the provider has
taken the job. There are two suppliers, the legacy one and one for everything else. The legacy
secret is taken to be there when the backfill needs it (if it is not, the start fails:
`legacy_agnes_backfill.py:130`).

### SubmissionPromise

What the above promises of a job without tables or crashes: `Call` at most once, then `Track`,
then `Complete`, or `End` at any time before. `GenerationJobs` implements it by
`PhaseOf`: completed and other terminal statuses first, then an accepted or committed
attempt is "tracked", then a call that was made is "called".

### ScriptGeneration

`script_generation_runs.status`, the types of the events in their order, the status of the
supplier run and of the runtime run, and the number of revisions, with the runner's program counter
`at`. `Goto` and `Finish` chain its steps in the order of `run_cycle`, `_complete` and `_fail`; the
thread interleaves with `PrepareInputs`/`Enqueue` of requests. `Raise` is an error inside the
`try`; `RunnerDies` one outside it. `frames` counts the frames of the stream, as
`frame["sequence"]` does, and `heading` is the state of `_DisplayableScriptText`: text before
the first Markdown heading makes no event. The supplier streaming flags are on at
every start.

### SessionPromise

What the server promises of a session without rows, threads or deaths: one request, words in a log that
only grows, at most one result and only while no last word was said, a last word that is the truth about the result, one
end. `ScriptGeneration` implements it with `PhaseOf` for the status; the log, the calls and the revisions are the
tables' own. The last word may be said again, as a recovery and a rescue do, but never another one (`Conclude`); a
restart closes several sessions in one commit (`Close`). `ScriptView` keeps it too.

### ScriptView

Extends it with the generator of `routers/scripts.py` (`ListEvents`, `CheckStatus`), the
connection (`wire`, `ConnectionLost`, `CrashConnection`) and the page: `Open`, `Connect`,
`Receive`, `OnError`, `ReplyLands`. `Reduce` and `Reconcile` are `reduceScriptStreamEvent`
and `reconcileScriptRun`. The page has one GET in flight at a time. That `ScriptTab`
unmounts when a revision appears, and remounts from `sessionStorage`, is not modelled, beyond that a
page may open with an old answer.

### RevisionChain

The revisions of one chapter, script and storyboard, with their runs, dependencies, validation
results and outputs (`revisions`, one record each), the log of decisions (`decisions`), the
export records (`exports`) and what is at each destination (`files`). The web server and command line
processes (`Actors`) work on one database; `op[a]` is what a process is in the middle of.

| Code | Actions |
|---|---|
| `insert_validated_script_revision`, by the streamed session | `PublishScript` |
| `_prepare_script_request`, `_finalize_prepared_script` | `PrepareScript`, `ScriptAnswered` |
| `run_storyboard` and its endpoint | `GenerateBoard`, `BoardAnswered`, `GenerationFails`, `Link`, `Bundle`, `BundleFails`, `Attest`, `RunValidator`, `Settle` |
| editing a script or a storyboard, validating a storyboard again | `EditScript`, `EditBoard`, `ValidateBoard` |
| materialising a bundle, confirming the migration of a legacy storyboard | `Materialize`, `MigrateBoard` |
| `approve_revision`: the gates, then the transaction | `ApproveCheck`, `ApproveCommit` |
| `reject_revision` | `Reject` |
| a formal or a diagnostic export: write, replace the directory, commit | `ExportBundle`, `ReplaceDirectory`, `CommitExport`, `CommitFails` |
| `export_approved`; an execution export, which is refused and recorded | `ExportSingle`, `BlockExecution` |
| the death of a process | `Crash` |

Texts are abstracted to what validators tell apart: `flawed` content, a source that is
missing, a source that is no longer the current approved script. `raced` is history: another
process was validating the revision when its gates were read, or has recorded something
about it since.

### ShotAssets

The way from an approved storyboard to a queued video, for one shot: `assets`, the current adoption
for each need (`current`), `sets`, `prompts` with their readiness, `videos`. Handlers run to their end; the model
call, the links and the validators of a prompt set, and the two commits of a rejection, are steps of their own,
between which a command line process may change the storyboard and the server may die.

| Code | Actions |
|---|---|
| approval, rejection, staleness of the storyboard | `ApproveBoard`, `RejectBoard`, `SourceChanges` |
| upload and generation, adoption, marking, rejection | `CreateAsset`, `BindAsset`, `MarkUsable`, `RejectAsset` then `ClearBindings` |
| `AssetRequirementAnalyzer.analyze` | `Analyze` |
| `run_shot_prompt` | `GeneratePrompts`, `PromptsAnswered`, `PromptsFail`, `LinkPrompts` |
| editing and regenerating a prompt; validators; `mark_ready` | `EditPrompts`, `RegenerateShot`, `ValidatePrompts`, `MarkReady` |
| `queue_video_job`, up to the row that `GenerationJobs` starts from | `QueueVideo` |

`ChapterStatus` is the status function of `chapter_status.py`, as an operator on the tables.

### SupplierSecrets

The credential of one supplier: `versions`, its two kinds of journal (`replacing`, `deleting`), the files
(`temp`, `final`), the pointer (`supplier`); and the model tests that use it, whose thread has a connection of its own.

| Code | Actions |
|---|---|
| `replace`, boundary by boundary | `Replace`, `WriteTemp`, `NoteTemp`, `Point`, `Rename`, `Finish` |
| `delete`, which reads the references before its transaction | `Delete`, `Revoke`, `Unlink`, `Forget` |
| `read` in a handler, which marks a version corrupt | `ReadCurrent` |
| `create_model_test` | `CreateTest` |
| `ModelTestRunner` in its thread | `Pick`, `Claim`, `Load`, `Read`, `Call`, `End` |
| `recover` and the rest of the start | `Start`, `RecoverFiles`, `RecoverDeletion`, `RecoverVersion`, `RecoverJournal`, `Recovered`, `Up` |
| an I/O error, a damaged file, a death | `StepFails`, `EndFails`, `Damage`, `Crash` |

### SecretVault

What the store promises of every version it was given, older ones included, for jobs and tests are frozen to them: a
version that was put stays usable until it is deleted as the current one or its file is damaged by hand, what was given up
or deleted does not come back, and the pointer is at the newest version put, or at none.
`SupplierSecrets` implements it by `LifeOf`, which reads the life of a version off its row, its journals and its two files. A
version is put by the transaction that points at it, although its file has no name of its own yet; a version whose files are gone
without a deletion would be "lost", to which the vault has no step.

### ModelCatalog

One supplier's models with their revisions, the manifests of its code, bindings of projects, idempotency keys of
creations, and snapshots. A handler is one transaction. What is not atomic is a person: `page` is a
model as somebody's page shows it, edited (`OpenPage`, then `EditLater`) when anything may have happened
since. `EditNow` is an edit from a fresh page; both are `Revise`, `SetEnabled` or `Remove`. `SaveCode`,
`RestoreBuiltIn` and `Install` rewrite the catalog through `Sync`; `UpdateSupplier` switches the supplier on
and off; `Bind`, `Enqueue` and `TestModel` refer to its models.

### ObjectStore

Files named by their hash (`file`, and how often each was `made`, for its modification time), committed references (`rows`),
the data root, and the tools. A writer makes the file, fills it and commits the row: `WriteObject`, `CreateFile`,
`FillFile`, `CommitRow` or `CommitFails`; `DeleteRow` removes a reference. `BackupDatabase`,
`CopyFile`, `FinishBackup` are a backup, `Sweep`, `Unlink`, `FinishSweep` a collection, `Restore` a
restore into a new root. A tool starts when no writer is at work, and no writer begins while
one runs (`Quiet`, `tool = NoTool`): no lock enforces it, but `docs/operations/m6-backup-restore.md:7`
asks the operator to "Stop the application and every process that can mutate the database, object store,
or supplier credentials." What a death of either leaves behind is kept.

### StoreOpening

What every opener does to the schema, statement by statement: `Open`, `Refuse` or `Apply` (the rebuilt
tables), `Begin`, `Create`, `Created`, `Reviews` (the script of CREATE IF NOT EXISTS), `CheckColumns` and `Alter`
(columns added one by one), `CheckGates` and the migrations that move a table aside: `BeginWrite`, `Mark`, `Move`,
`Rename`, `Recreate`, `Copy`, `Drop`, `MarkMoved`. `executescript` commits what is open and then commits each
statement by itself, which is why those are separate actions. Two openers block each other only while one holds SQLite's
write lock (`writer`); a wait that is too long is `LockTimesOut`. A table stands for all those treated like it.

## 4. Runs

| Run | Shows | Bounds, and why they are enough |
|---|---|---|
| JobsMixed | safety of jobs, what a start may find, and the refinement | a legacy video and an image, two crashes, the flag of supplier execution changing between starts. Jobs interact only through the loop they share and through a forced deletion; two crashes are the least that bring an image submitted as a video back to image recovery; any number of jobs and crashes: the proofs |
| JobsLive | every job moves on | a supplier video and an image beside the poller, one crash: a second one leads to the state JobsImageStart reports |
| JobsImageStart | violated, see below | one image, two crashes |
| ScriptServer | all properties of sessions, and the refinement | two sessions, two frames before the last, one crash, one error. Two frames are the least with which the number of a failed frame exceeds that of its event |
| ScriptWatch | all properties of the page | one session, two frames, a crash, an error, a lost connection, each anywhere |
| Chapter | revisions, decisions and exports | the server generates, the server and a command line process decide and export, one directory; three revisions and deaths together (a script, a storyboard, and an edit, a second storyboard or a death), three decisions (two approvals and a rejection), one export on record when another begins, one death |
| ShotAssets | readiness, adoptions and videos | two assets for one need, one storyboard (that can be rejected and approved again), two requirement sets, two prompt sets, one video, one death: a set or prompt and its successor are what staleness needs |
| Secrets | secrets, journals and tests, and the refinement | two versions (a current one and its replacement), two tests, one fault and two deaths: one among the steps of a handler, one among those of the recovery |
| Catalog | names, references and edits | two models of the code and one of a user, two names, one project, one key, three revisions of the catalog: a page is read, something changes, the edit comes |
| ObjectStore | objects and backups | two contents and two writers, each file made twice, two backups, a restore, one death |
| ObjectTorn | violated, see below | one content, one writer, one death |
| StoreOpening | the schema and the moved rows | the server, its thread and a tool, four openings, one death; an empty, a phase-two and a pre-cutover database |

The runs other than those of the jobs have `CHECK_DEADLOCK FALSE`: when the bounds are used up, or every session has
ended, nothing more happens. The jobs' runs never stop, for a credential may always be replaced.

`LateReplies = FALSE` in ScriptWatch: only `ViewEnds` needs it (see below); the two safety properties are theorems for
either value. Chapter was also run once with both processes generating (10.7 million states, no error); it is
kept with one for its length.

### What the passing runs say that is less than one might expect

* `AcceptedIsRecoverable` has an exception, a legacy job that the backfill has failed by its row (`LostByBackfill`): the
  provider has it, and no later start takes it up (`LossIsPermanent`). `FailedStartIsExplained` names the two states
  in which a start fails for good: such a loss, and an image with a video's evidence; the second takes two deaths.
* `CompletedImageHasAsset`: after a death between the two commits, or one that left the image to the poller, an image is
  completed without its asset.
* `ReferencesResolve`: a referenced object may be short, but before any death only while the writer who made its file fills it.
* `ApprovalIsEarned`: the gates of an approval are read before its transaction. A command line process can approve a
  storyboard while the server has recorded the integrity result only, or one that failed or went stale
  between gates and commit; `raced` marks these approvals. One that is not marked is of a revision without failed
  results and with a fresh source. Required results may be missing even then, but only after a death among the
  validators, for one result of any kind opens the third gate. What always holds is that an approved storyboard has its bundle.
* `RowsComeBack`, `RefusedAfterDeath`: a death, or two openings at once, in a migration that moves a table can
  leave its rows aside under a mark that says the migration is done; a death in the first creation leaves a
  database that every later opening refuses. Nothing else does.
* `AdoptedIsUsable`: a death between the two commits of a rejection leaves a rejected asset adopted; the
  analysis does not take it as ready, which is why `VideoIsBacked` holds all the same.
* `CurrentIsRecoverable` allows for files that are damaged by hand, and for nothing else.

### What the violated runs show

* **JobsImageStart**: the server dies between the insertion of an image job and its claim. The poller takes every
  queued job and calls `videoSubmit` with the image's snapshot; once that is accepted and committed and the
  server starts again, image recovery finds evidence without `object_id`, and the start fails with a KeyError.
* **ObjectTorn**: `write_bytes_object` makes the file under its full hash before its bytes are in it. After a death in
  between, the next writer of that content takes the file for the object, and a committed row names bytes that do not
  hash to their name.

### Other disagreements met while modelling

These have no run of their own.

* The backfill looks at `generation_jobs.provider_job_id`, which is still empty after a death between acceptance and commit,
  and fails a job that the provider has; `recover_submission_attempts` then raises, at every start.
* A death between the commit of an image's result and its asset leaves a completed image without asset:
  `recover_image_jobs` selects `submitted` jobs only (`ai_drama_web/services/m6_generation.py:458`).
* A stream whose text was held back until a heading, or that sent `started` only, fails without a terminal event:
  `_fail` numbers its event by the frame, the store refuses the number, and the refusal is swallowed
  (`ai_drama_web/services/script_generation_stream.py:273`).
* `onerror` sends a GET, EventSource reconnects and delivers `failed`; the GET, answered earlier, then sets the page back to
  running with its source closed.
* `docs/superpowers/specs/2026-06-28-storyboard-canonical-shot-prompt-foundation-design.md:1293` orders "draft ->
  validation_passed -> pending_review -> approved" and `:1311` says "`validation_failed` revisions cannot be approved". Since
  `ai_drama_runtime/services.py:1632` records the integrity of the bundle as a required result before the other validators
  run, another process can approve a storyboard that has not been through them, and that then fails them.
* `docs/superpowers/specs/2026-07-12-provider-model-management-design.md:265` says that restoring the built-in code "only
  moves `current_version_id`": it also brings the models back as the manifest declares them, enabled. `:352` says
  that old credential versions are deleted when nothing refers to them any more: nothing deletes them.

## 5. Fairness

`GenerationJobs`: what the process has begun goes on (weak fairness of the start, of
handlers and of a cycle: they hold the event loop and only a crash stops them). A server that
is down is started again (launchd, `ops/launchd`). The poller's timer gets its turn however many
requests there are: strong fairness of `CycleStart`, because a handler in between disables
it, and because asyncio's ready queue is first in, first out. The limiter lets each job through again and
again (strong fairness per job of `PickPollable` and `PickQueued`): a modelling assumption
about a rolling minute, not a fact of the code when polls use up a bucket (see the hazards). The
provider ends what it runs. Requests and crashes have none.

`ScriptGeneration`: the runner's thread and the recovery go on. A stream ends since the
worker is killed at its deadline, for which the bound on frames stands. `ScriptView` adds weak
fairness for the page's and the router's steps. Neither assumes that an error does not
kill the runner: `SessionEnds` says "ends, or the task is dead".

## 6. Proofs

Each proof module proves its theorems for every value of the constants, from the named assumptions in the module it is
about (sets that do not overlap, bounds that are numbers). In each, the properties are not inductive by themselves;
what is added is the content of the proof. A theorem without a property in brackets is not checked by a run: the types, the
inductive invariants, and `IdsKept` (an id of the provider is not forgotten), `LossStays`, `RunnerIsNeverRefused`,
`SweptIsSaved`, `WatchingIsHarmless`.

| Module | Theorems (property) |
|---|---|
| `GenerationJobsProofs` | `Invariant`; `TypeCorrect`, `AtMostOnce` (`AtMostOneSubmit`), `TrackedWasSubmitted` (`TrackedIsSubmitted`), `OneResult` (`CompletedHasOneResult`); action properties `ClaimedBeforeCall` (`SubmitOnlyWhenClaimed`), `TableKept` (`StatusFollowsTable`), `IdsKept`; `RecoveryInvariant`; `AcceptanceSurvives` (`AcceptedIsRecoverable`), `FailedStarts` (`FailedStartIsExplained`), `ImagesHaveAssets` (`CompletedImageHasAsset`); action property `LossStays`; `Refinement` (`KeepsPromise`) |
| `ScriptProofs` | `ScriptInvariant`; `ScriptSubmittedOnce` (`SubmittedOnce`), `ScriptEndsTruly` (`EndAgreesWithChain`), `ScriptLogIsTrue` (`LogAgreesWithChain`), `RunnerIsNeverRefused`; `SessionRefinement` (`KeepsPromise`); `ViewInvariant`; `ShownOnce` (`ShownIsLogPrefix`), `TruthIsShown` (`ViewIsTruthful`); `WatchingIsHarmless` |
| `RevisionChainProofs` | `ChainInvariant`; `ChainTypes`, `StatusIsTheLogs` (`StatusAgreesWithLog`), `SourcesWereApproved` (`SourceWasApproved`), `ExportsAreTrue` (`RecordIsTrue`); action property `ApprovalsAreEarned` (`ApprovalIsEarned`) |
| `ShotAssetsProofs` | `ShotInvariant`; `ShotTypes`, `ReadinessIsEarned` (`ReadyWasEarned`), `AdoptionsAreUsable` (`AdoptedIsUsable`); action property `VideosAreBacked` (`VideoIsBacked`) |
| `SupplierSecretsProofs` | `SecretsInvariant`; `SecretIsNeverLost` (`CurrentIsRecoverable`), `StartsConverge` (`RecoveryConverges`), `TestsAreLetGo` (`DeletedIsLetGo`), `RowsAreHonest` (`OutcomeIsHonest`); action property `EndsAreFinal` (`EndIsFinal`); `VaultRefinement` (`KeepsVault`) |
| `ModelCatalogProofs` | `CatalogInvariant`; `NamesStayUnique` (`NamesAreUnique`), `ReferencesStay` (`ReferencesHold`); action property `NoUpdateIsLost` (`NoLostUpdate`) |
| `ObjectStoreProofs` | `StoreInvariant`; `StoreTypeCorrect`, `NoDanglingReference` (`ReferencesResolve`), `SweptIsSaved`; action property `WholeFilesAreKept` (`WholeIsKept`) |
| `StoreOpeningProofs` | `OpeningInvariant`; `CurrentTables` (`WorksOnCurrent`), `RefusedOnlyAfterDeath` (`RefusedAfterDeath`), `RowsReturn` (`RowsComeBack`); action property `NoRowLost` (`RowsAreKept`) |

The arguments.

* **Jobs** (`JobInv`). That a job is called at most once depends on where the process is. A call is only reachable
  from steps at which the current job has not been called yet; a job that is queued, or whose attempt is still
  `prepared`, has not been called; a job in the state `submitting` without a process working on it is never led back to a
  call, for recovery only commits or fails it; what `todo` and `pollable` hold when their loops run is in the status
  those loops expect. `PromiseStep` and `OnePhase` say which step of the promise one changed job is.
* **What a start may find** (`RecoveryInv`). An acceptance waits for its commit at one step of the process only, so a death there is
  the one way to leave it behind, and no handler or cycle runs again before the recovery has met it. The rest counts deaths: an
  image is queued, tracked, or in the hands of the poller, outside its handler, only after one; the poller's evidence on it
  survives to a start only through a second. `LossStep` adds that nothing but a start runs after a loss, and that none of a start's
  steps takes such a job. The poller itself never dies of a recovery that raises (`poller = "running"`), for what a cycle's recovery meets it can commit.
* **Scripts** (`ScriptInv`). What the rows of a session say of each other holds at every moment (`SessionFits`); what the
  step of the runner has made of the rows of its session holds while it is there (`RunnerFits`). The recovery needs
  only the first, for no runner is at work then. Where the code has a compare-and-set that would raise, the model has a guard, so a
  step that is refused would look like one that never comes; `RunnerIsNeverRefused` shows that none is (`NeverRefused`): the
  guards hide no error. For the promise, each commit is one move of it or none (`PromiseStep`), given that where
  the runner hears the supplier, the supplier was asked (`AskedFits`). The page takes no step of the server (`WatchingIsHarmless`), so it inherits
  the promise. The page (`ViewInv`) rests on two facts about the server, proved as lemmas:
  a log only grows, and an end is final.
* **Revisions** (`ChainInv`). Tables agree because of what each process has in hand between two commits (`InHand`): the
  revision it works on exists, the source it carries was approved when it was looked up and stays in the
  log, and a directory moved into place is its own until the export is on record (`OwnDirectories`). What approvals
  have seen (`EarnInv`) needs who validates: as long as nobody has died, a revision has no result, or every required one, or
  a process is recording them (`RowFits`), with the missing ones on its list (`TodoFits`); so any result at the
  gates means all of them, unless another process has the revision in hand, and what the gates saw stays so until the
  commit or the approval is marked as raced (`GateFits`). `EarnKept` says when a step of one process keeps all three.
* **Assets** (`ShotInv`). A storyboard that is or was current has an approval on record (`BoardsFit`); while a prompt set is linked
  and validated it is the last one and not ready (`PromptsFit`).
* **Secrets** (`SecretsInv`). Per version, its row, journals and two files fit (`VersionFits`); per step, what the main thread has
  in hand (`HandFits`); during recovery, every journal is in the list or handled (`JournalsAreSeen`); per test and for
  the thread, the call agrees with the row (`TestFits`, `RunnerFits`). For the vault, every step changes the life of one version or of none; which
  one is what `HandFits` knows, and that the version being made is the newest (`MakingIsNewest`) makes it the one put.
* **Catalog** (`CatalogInv`). A page is as old as its catalog revision, and right while that is current (`PageIsDated`); models of the
  code are never archived (`OnlyOverlaysArchived`).
* **Objects** (`StoreInv`). The file is there from the moment a writer found or made it (`WritersHold`), tools run alone
  (`ToolAlone`), a sweep's plan names garbage only (`SweepIsOfGarbage`) that a backup has (`CollectedIsSaved`), and a
  backup is consistent (`BackupsConsistent`). Until somebody dies a short file has its maker at it, so that no backup, taken when nobody
  writes, holds one that a restore could bring back (`TornFits`).
* **Opening** (`OpeningInv`). Nothing makes a table old, so what a creation has passed stays current (`CreatingInv`); two openers are
  never in the script of one table (`ScriptInv`); who is cut off neither by a death nor by another opener is alone
  (`AloneInv`), and so ends what it began.

Only model-checked: the liveness properties `JobsMoveOn`, `SessionEnds` and `ViewEnds`, for the prover has no rule for
fairness and ENABLED. The properties of the violated runs are not theorems; `FailedStarts` and `NoDanglingReference` say how far
each goes. No module needs a recursive definition.

## 7. Not modelled

* The rate limiter: a list of times in memory. `GenerationJobs` leaves open which jobs it lets through.
* The compiler of adapters and the worker process: they run a child process and have no state of their own; sandboxing,
  deadlines and the parsing of server-sent events are not modelled.
* Skills, parsers, canonical forms, renderers: transformations of text, whose outcome is `flawed` or not in the models.
* Projects, chapters, profiles: single-row writes without states.
* Settings, request schemas and guards, supplier options and media: validation, no behaviour over time.
* Web pages other than the page that watches a script; verification tools; vendored skill packages.

Modelled in part, with the part that is missing: idempotency without the hashes of requests; the catalog without the creation and
configuration of suppliers; the page without `ScriptTab`'s unmounting and remounting; the start of the server as the recovery
of each module, in the order of the code, but not as one composition; the runtime without acceptance runs and
comparison; the backfill with its secret and supplier there.

Hazards that no property covers: `ai_drama_web/services/legacy_agnes_backfill.py:130` (a missing legacy secret fails
the start), `ai_drama_web/services/m6_generation.py:401` (a retried request has a new hash),
`ai_drama_web/suppliers/rate_limits.py:43` (a release may pop another's reservation),
`ai_drama_web/services/generation_poller.py:75` (polls before submissions can starve them), and
`ai_drama_runtime/store.py:734` (revision numbers in two statements, which a uniqueness constraint turns into an error).
