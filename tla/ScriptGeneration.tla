-------------------------- MODULE ScriptGeneration --------------------------
(***************************************************************************)
(* Streamed script generation: the tables script_generation_runs,          *)
(* script_generation_events, supplier_text_runs, runs and revisions, the   *)
(* request that starts a session, the runner that streams it, and the      *)
(* recovery at the start of the server.                                    *)
(*                                                                         *)
(* The runner is a thread of its own (asyncio.to_thread) with its own      *)
(* connection, so its commits interleave with those of the requests.  One  *)
(* action is one commit; the process may die between any two.              *)
(*                                                                         *)
(* Abstracted: texts, evidence and usage; the order (created_at) in which  *)
(* sessions are claimed; which validator rejects a script.                 *)
(***************************************************************************)
EXTENDS Naturals, Sequences, SequencesExt

CONSTANTS
    Sessions,     \* one per Idempotency-Key
    MaxFrames,    \* bound: frames of a stream before its last one
    MaxCrashes,   \* bound: how often the process dies
    MaxErrors,    \* bound: how often a step of the runner raises
    NoSession

ASSUME SessionsAssumption == NoSession \notin Sessions
ASSUME BoundsAssumption == MaxFrames \in Nat /\ MaxCrashes \in Nat /\ MaxErrors \in Nat

VARIABLES
    \* the tables
    status,     \* script_generation_runs.status, "absent" when there is no row
    events,     \* event_type of script_generation_events, in order of sequence
    textRun,    \* supplier_text_runs.status, "none" when there is no row
    runtime,    \* runs.status of the session's runtime run
    revisions,  \* number of revisions of that run
    \* the process
    server,     \* "down", "recovering" or "up"
    starting,   \* the session whose start request is between its two commits
    at,         \* what the runner will do next
    cur,        \* the session it has claimed
    frames,     \* frames of the stream so far: the sequence of the next one
    heading,    \* has a Markdown heading made the text displayable?
    failSeq,    \* the sequence _fail was called with
    crashes, errors,
    \* the provider
    calls       \* requests made to the supplier for the session

tables == <<status, events, textRun, runtime, revisions>>
stream == <<cur, frames, heading, failSeq>>
vars == <<tables, server, starting, at, stream, crashes, errors, calls>>

Ended == {"completed", "failed", "unknown_outcome"}
Active == {"submitting", "streaming", "finalizing"}
Status == {"absent", "prepared"} \cup Active \cup Ended
Rejected == {"PARSE_FAILED", "VALIDATION_FAILED"}

\* The steps inside run_cycle's try, and those of its except clause.
TrySteps == {"claimed", "stream", "completing", "finalizing", "validating", "settling",
             "parsing", "checking", "rejected", "rejectedStatus", "publish",
             "publishStatus", "failing", "failText", "failStatus"}
ExceptSteps == {"except", "rescue", "rescueStatus", "exceptFailing", "exceptText",
                "exceptStatus"}

Init ==
    /\ status = [s \in Sessions |-> "absent"]
    /\ events = [s \in Sessions |-> <<>>]
    /\ textRun = [s \in Sessions |-> "none"]
    /\ runtime = [s \in Sessions |-> "none"]
    /\ revisions = [s \in Sessions |-> 0]
    /\ server = "down" /\ starting = NoSession
    /\ at = "idle" /\ cur = NoSession /\ frames = 0 /\ heading = FALSE /\ failSeq = 0
    /\ crashes = 0 /\ errors = 0
    /\ calls = [s \in Sessions |-> 0]

-----------------------------------------------------------------------------
(* The store *)

Has(s, type) == Contains(events[s], type)

\* append_script_generation_event: only the next sequence can be added.
AppendEvent(s, type) == events' = [events EXCEPT ![s] = Append(@, type)]
                        /\ UNCHANGED <<status, textRun, runtime, revisions>>

\* transition_script_generation_run, when the row is in an expected status.
Transition(s, expected, to) == status[s] \in expected
                               /\ status' = [status EXCEPT ![s] = to]
                               /\ UNCHANGED <<events, textRun, runtime, revisions>>

\* complete_supplier_text_run and fail_supplier_text_run change a prepared row only.
SettleText(s, to) ==
    /\ textRun' = [textRun EXCEPT ![s] = IF @ = "prepared" THEN to ELSE @]
    /\ UNCHANGED <<status, events, runtime, revisions>>

SetRuntime(s, to) == runtime' = [runtime EXCEPT ![s] = to]
                     /\ UNCHANGED <<status, events, textRun, revisions>>

Outside == <<server, starting, crashes, errors, calls>>
\* The runner goes on with its session, or has finished it.
Goto(step) == at' = step /\ UNCHANGED <<stream, Outside>>
Finish == at' = "idle" /\ cur' = NoSession /\ frames' = 0 /\ heading' = FALSE /\ failSeq' = 0
          /\ UNCHANGED Outside

-----------------------------------------------------------------------------
(* start_script_generation: the runtime run is committed by                 *)
(* prepare_script_inputs, the session and its supplier run by               *)
(* enqueue_script_generation_with_snapshot.  A key that has a session is    *)
(* answered with it.                                                        *)

PrepareInputs(s) ==
    /\ server = "up" /\ starting = NoSession /\ status[s] = "absent"
    /\ SetRuntime(s, "RUNNING")
    /\ starting' = s
    /\ UNCHANGED <<server, at, stream, crashes, errors, calls>>

Enqueue ==
    /\ starting # NoSession
    /\ status' = [status EXCEPT ![starting] = "prepared"]
    /\ textRun' = [textRun EXCEPT ![starting] = "prepared"]
    /\ starting' = NoSession
    /\ UNCHANGED <<events, runtime, revisions, server, at, stream, crashes, errors, calls>>

\* No binding, no ready credential, a conflicting key: the request fails.
StartFails ==
    /\ starting # NoSession
    /\ starting' = NoSession
    /\ UNCHANGED <<tables, server, at, stream, crashes, errors, calls>>

-----------------------------------------------------------------------------
(* ScriptGenerationRunner.run_cycle *)

\* claim_script_generation_run: compare and set.
Claim(s) ==
    /\ server = "up" /\ at = "idle" /\ status[s] = "prepared"
    /\ Transition(s, {"prepared"}, "submitting")
    /\ at' = "claimed" /\ cur' = s
    /\ UNCHANGED <<frames, heading, failSeq, Outside>>

\* _prepared_execution and the first step of gateway.invoke_stream.
Submit ==
    /\ at = "claimed" /\ runtime[cur] = "RUNNING"
    /\ calls' = [calls EXCEPT ![cur] = @ + 1]
    /\ at' = "stream"
    /\ UNCHANGED <<tables, stream, server, starting, crashes, errors>>

\* One more frame that does not end the stream.
NextFrame == /\ at = "stream" /\ frames < MaxFrames /\ frames' = frames + 1
             /\ UNCHANGED <<at, cur, failSeq, Outside>>

StartedFrame == /\ NextFrame /\ UNCHANGED heading
                /\ Transition(cur, {"submitting"}, "streaming")

\* Text is an event once a heading has come; what came before it is held back.
TextFrame ==
    /\ NextFrame
    /\ \/ heading' = TRUE /\ AppendEvent(cur, "text_delta")
       \/ ~heading /\ UNCHANGED <<heading, tables>>

UsageFrame == NextFrame /\ UNCHANGED heading /\ AppendEvent(cur, "usage")

FailedFrame ==
    /\ at = "stream"
    /\ at' = "failing" /\ failSeq' = frames
    /\ UNCHANGED <<tables, cur, frames, heading, Outside>>

CompletedFrame == at = "stream" /\ Goto("completing") /\ UNCHANGED tables

-----------------------------------------------------------------------------
(* _complete *)

ToFinalizing == at = "completing" /\ Transition(cur, {"submitting", "streaming"}, "finalizing")
                /\ Goto("finalizing")
StageFinalizing == at = "finalizing" /\ AppendEvent(cur, "stage") /\ Goto("validating")
StageValidating == at = "validating" /\ AppendEvent(cur, "stage") /\ Goto("settling")
CompleteText == at = "settling" /\ SettleText(cur, "completed") /\ Goto("parsing")

\* finalize_prepared_script: the candidate is parsed, then validated, and only
\* then enters the chain of revisions, together with the run's success.
Parse ==
    /\ at = "parsing"
    /\ \/ SetRuntime(cur, "PARSE_FAILED") /\ Goto("rejected")
       \/ SetRuntime(cur, "VALIDATING") /\ Goto("checking")

Validate ==
    /\ at = "checking"
    /\ \/ SetRuntime(cur, "VALIDATION_FAILED") /\ Goto("rejected")
       \/ /\ runtime' = [runtime EXCEPT ![cur] = "SUCCEEDED"]
          /\ revisions' = [revisions EXCEPT ![cur] = @ + 1]
          /\ Goto("publish")
          /\ UNCHANGED <<status, events, textRun>>

RejectedEvent == at = "rejected" /\ AppendEvent(cur, "failed") /\ Goto("rejectedStatus")
RejectedStatus == at = "rejectedStatus" /\ Transition(cur, {"finalizing"}, "failed") /\ Finish
PublishEvent == at = "publish" /\ AppendEvent(cur, "revision_completed") /\ Goto("publishStatus")
PublishStatus == at = "publishStatus" /\ Transition(cur, {"finalizing"}, "completed") /\ Finish

-----------------------------------------------------------------------------
(* _fail, called from the try and from the except clause *)

FailEvent ==
    /\ at \in {"failing", "exceptFailing"}
    /\ IF status[cur] \in Ended THEN Finish /\ UNCHANGED tables
       ELSE /\ Goto(IF at = "failing" THEN "failText" ELSE "exceptText")
            \* max(sequence, last_sequence + 1): a later one than the next is
            \* refused, and the refusal is swallowed.
            /\ IF failSeq <= Len(events[cur]) + 1 THEN AppendEvent(cur, "failed")
                                                  ELSE UNCHANGED tables

\* Any other error of that append is swallowed too.
FailEventLost ==
    /\ at \in {"failing", "exceptFailing"} /\ errors < MaxErrors /\ status[cur] \notin Ended
    /\ at' = IF at = "failing" THEN "failText" ELSE "exceptText"
    /\ errors' = errors + 1
    /\ UNCHANGED <<tables, stream, server, starting, crashes, calls>>

FailText == /\ at \in {"failText", "exceptText"}
            /\ SettleText(cur, "failed")
            /\ Goto(IF at = "failText" THEN "failStatus" ELSE "exceptStatus")

\* Mutant: _fail expects a streaming session.
FailStatusStrict == at \in {"failStatus", "exceptStatus"}
                    /\ Transition(cur, {"streaming"}, "failed") /\ Finish

FailStatus == at \in {"failStatus", "exceptStatus"}
              /\ Transition(cur, {status[cur]}, "failed") /\ Finish

-----------------------------------------------------------------------------
(* Errors *)

\* A worker, store or validator error inside the try; nothing is committed.
Raise ==
    /\ at \in TrySteps /\ errors < MaxErrors
    /\ at' = "except" /\ failSeq' = 0 /\ errors' = errors + 1
    /\ UNCHANGED <<tables, cur, frames, heading, server, starting, crashes, calls>>

\* Mutant: nothing is rescued.
ExceptFails == at = "except" /\ Goto("exceptFailing") /\ UNCHANGED tables

\* The except clause: a published revision is rescued, anything else failed.
Except ==
    /\ at = "except"
    /\ Goto(IF status[cur] = "finalizing" /\ runtime[cur] = "SUCCEEDED"
            THEN "rescue" ELSE "exceptFailing")
    /\ UNCHANGED tables

RescueEvent ==
    /\ at = "rescue" /\ Goto("rescueStatus")
    /\ IF Has(cur, "revision_completed") THEN UNCHANGED tables
                                         ELSE AppendEvent(cur, "revision_completed")

RescueStatus == at = "rescueStatus" /\ Transition(cur, {"finalizing"}, "completed") /\ Finish

\* An error outside the try ends the runner's task until the next start.
RunnerDies ==
    /\ server = "up" /\ at \in {"idle"} \cup ExceptSteps /\ errors < MaxErrors
    /\ at' = "dead" /\ errors' = errors + 1
    /\ UNCHANGED <<tables, stream, server, starting, crashes, calls>>

-----------------------------------------------------------------------------
(* Crash, start and recover_script_generation_runs *)

Crash ==
    /\ server # "down" /\ crashes < MaxCrashes
    /\ server' = "down" /\ starting' = NoSession /\ at' = "idle"
    /\ cur' = NoSession /\ frames' = 0 /\ heading' = FALSE /\ failSeq' = 0
    /\ crashes' = crashes + 1
    /\ UNCHANGED <<tables, errors, calls>>

Boot == server = "down" /\ server' = "recovering"
        /\ UNCHANGED <<tables, starting, at, stream, crashes, errors, calls>>

\* Mutant: a candidate that was being validated counts as published.
OutcomeHasty(s) == IF runtime[s] \in {"VALIDATING", "SUCCEEDED"} THEN "revision_completed"
                   ELSE IF runtime[s] \in Rejected THEN "failed" ELSE "none"

\* The terminal event a finalizing session is due by its runtime run.
Outcome(s) == IF runtime[s] = "SUCCEEDED" /\ revisions[s] > 0 THEN "revision_completed"
              ELSE IF runtime[s] \in Rejected THEN "failed" ELSE "none"
Decided == {s \in Sessions : status[s] = "finalizing" /\ Outcome(s) # "none"}
Unresolved == {s \in Sessions : status[s] \in Active}

Recovering == server = "recovering"
              /\ UNCHANGED <<starting, at, stream, crashes, errors, calls>>

RecoverEvent(s) ==
    /\ Recovering /\ s \in Decided /\ ~Has(s, Outcome(s))
    /\ AppendEvent(s, Outcome(s))
    /\ UNCHANGED server

RecoverStatus(s) ==
    /\ Recovering /\ s \in Decided /\ Has(s, Outcome(s))
    /\ Transition(s, {"finalizing"},
                  IF Outcome(s) = "failed" THEN "failed" ELSE "completed")
    /\ UNCHANGED server

UnknownEvent(s) ==
    /\ Recovering /\ Decided = {} /\ s \in Unresolved /\ ~Has(s, "failed")
    /\ AppendEvent(s, "failed")
    /\ UNCHANGED server

\* Mutant: an interrupted session is started again.
RecoverRetry ==
    /\ Recovering /\ Decided = {}
    /\ status' = [s \in Sessions |-> IF s \in Unresolved THEN "prepared" ELSE status[s]]
    /\ server' = "up"
    /\ UNCHANGED <<events, textRun, runtime, revisions>>

\* Mutant: whatever is not completed counts as interrupted.
RecoverUnfinished ==
    /\ Recovering /\ Decided = {} /\ \A s \in Unresolved : Has(s, "failed")
    /\ status' = [s \in Sessions |-> IF s \in Unresolved \/ status[s] = "failed"
                                     THEN "unknown_outcome" ELSE status[s]]
    /\ server' = "up"
    /\ UNCHANGED <<events, textRun, runtime, revisions>>

RecoverDone ==
    /\ Recovering /\ Decided = {} /\ \A s \in Unresolved : Has(s, "failed")
    /\ status' = [s \in Sessions |-> IF s \in Unresolved THEN "unknown_outcome" ELSE status[s]]
    /\ server' = "up"
    /\ UNCHANGED <<events, textRun, runtime, revisions>>

-----------------------------------------------------------------------------

Start == Enqueue \/ StartFails \/ \E s \in Sessions : PrepareInputs(s)

Runner ==
    \/ \E s \in Sessions : Claim(s)
    \/ Submit \/ StartedFrame \/ TextFrame \/ UsageFrame \/ FailedFrame \/ CompletedFrame
    \/ ToFinalizing \/ StageFinalizing \/ StageValidating \/ CompleteText \/ Parse
    \/ Validate \/ RejectedEvent \/ RejectedStatus \/ PublishEvent \/ PublishStatus
    \/ FailEvent \/ FailText \/ FailStatus \/ Except \/ RescueEvent \/ RescueStatus

Recovery == Boot \/ RecoverDone
            \/ \E s \in Sessions : RecoverEvent(s) \/ RecoverStatus(s) \/ UnknownEvent(s)

\* What a live process does, and the only other thing that can happen to it.
Alive == Start \/ Runner \/ FailEventLost \/ Raise \/ RunnerDies \/ Recovery

Next == Alive \/ Crash

Spec == Init /\ [][Next]_vars

\* The runner's thread goes on while the server lives, and a stream ends: the
\* worker is killed at its deadline, which the bound on frames stands for.  A
\* server that is down is started again.  Nothing promises an error or a crash.
Fairness == WF_vars(Runner) /\ WF_vars(Recovery)

FairSpec == Spec /\ Fairness

-----------------------------------------------------------------------------
(* Properties *)

\* "Runs one already-durable script stream without ever resubmitting it": the
\* supplier is called at most once for a session, whatever raises or crashes.
SubmittedOnce == \A s \in Sessions : calls[s] <= 1

\* An ended session is completed exactly when its revision entered the chain, and
\* then with the supplier run settled: no published script is reported as lost or
\* failed, none is published twice, none is reported without being there.
EndAgreesWithChain ==
    \A s \in Sessions :
        /\ revisions[s] <= 1
        /\ status[s] \in Ended => (status[s] = "completed" <=> revisions[s] = 1)
        /\ status[s] = "completed" => /\ Has(s, "revision_completed")
                                      /\ textRun[s] = "completed"
                                      /\ runtime[s] = "SUCCEEDED"

\* What the log tells a subscriber is what happened: it never announces both a
\* failure and a revision, and a revision only when there is one.
LogAgreesWithChain ==
    \A s \in Sessions :
        /\ Has(s, "revision_completed") => revisions[s] = 1
        /\ Has(s, "failed") => revisions[s] = 0

\* A session that was started ends, unless an error has killed the runner's task.
SessionEnds ==
    \A s \in Sessions :
        status[s] \in {"prepared"} \cup Active ~> status[s] \in Ended \/ at = "dead"

-----------------------------------------------------------------------------
(* The promise these tables, the runner and the recovery keep *)

\* A claimed session is open until its row has an end.
PhaseIn(st) == IF st \in {"absent", "prepared"} THEN "new"
               ELSE IF st \in Active THEN "open" ELSE st
PhaseOf(s) == PhaseIn(status[s])

Promise == INSTANCE SessionPromise
               WITH phase <- [s \in Sessions |-> PhaseOf(s)],
                    log <- events, asked <- calls, made <- revisions

\* A session keeps the promise: its log grows, speaks the truth last and does not
\* take it back, and no recovery, rescue or late failure changes an end.
KeepsPromise == Promise!PromiseSpec

=============================================================================
