------------------------ MODULE GenerationJobsProofs ------------------------
(***************************************************************************)
(* Proofs about GenerationJobs, for any number of jobs of each kind, any   *)
(* settings and any number of crashes.                                     *)
(***************************************************************************)
EXTENDS GenerationJobs, TLAPS

(***************************************************************************)
(* The inductive invariant.  A submission is not guarded by a count but by *)
(* the place of the process: it is made from the steps "calling" and       *)
(* "imageCalling" only.  So the invariant says where the job being worked  *)
(* on stands at each step, and that whatever leads to a call has not been  *)
(* submitted: a job that is not yet claimed, the job being claimed, and    *)
(* the jobs the loop will still take.  From the call on it follows the     *)
(* acceptance through the attempt to the job, the result and the asset.    *)
(***************************************************************************)
Unclaimed == {"absent", "draft", "queued"}

SubmitLoop == {"cycleSubmit", "prepared", "marked", "calling", "returned",
               "rejected", "unknown", "failing", "accepted"}

\* The steps between the claim of the handler's job and the commit of its answer.
ClaimedSteps == {"marked", "calling", "returned", "rejected", "unknown", "failing",
                 "accepted", "imageCalling", "imageReturned", "imageUnknown",
                 "imageFailing", "imageAccepted"}

\* The handler's job is a job, and where it stands on the way to the call.
CurInv ==
    /\ at \in (SubmitLoop \ {"cycleSubmit"}) \cup HandlerSteps
              \cup {"polled", "bootImageCompleted"} => cur \in Jobs
    /\ at = "drafted" => status[cur] = "draft"
    /\ at = "prepared" => status[cur] = "queued"
    /\ at \in ClaimedSteps => status[cur] = "submitting"
    /\ at \in {"prepared", "marked"} => attempt[cur] = "prepared"
    /\ at \in {"calling", "imageCalling"} => attempt[cur] = "submitting"
    /\ at \in {"imageQueued", "prepared", "marked", "calling", "imageCalling"}
          => Eligible(cur)

\* The jobs the submission loop will still take are queued, and those the
\* backfill will still take are as it selected them.
TodoInv ==
    /\ at \in SubmitLoop =>
          \A j \in todo : status[j] = "queued" /\ Eligible(j)
                          /\ (at # "cycleSubmit" => j # cur)
    /\ at = "backfill" => todo \subseteq BackfillRows

\* Nothing has been submitted that may still be.
FreshInv ==
    /\ \A j \in Jobs : status[j] \in Unclaimed => submits[j] = 0
    /\ at \in {"marked", "calling", "imageCalling"} => submits[cur] = 0

SubmitInv == TypeOK /\ CurInv /\ TodoInv /\ FreshInv /\ AtMostOneSubmit

\* The answer to the call, until the attempt holds it.
AnswerInv ==
    /\ at \in {"returned", "rejected", "unknown", "imageReturned", "imageUnknown"}
          => attempt[cur] = "submitting"
    /\ at \in {"returned", "imageReturned"} => submits[cur] = 1
    /\ at = "returned" => task[cur] # "none"
    /\ at \in {"imageAccepted", "imageCommitted", "imageCompleted", "bootImageCompleted"}
          => evidence[cur] = "image"
    /\ at \in {"imageCompleted", "bootImageCompleted"} => status[cur] = "completed"

\* An attempt has an id exactly when it was accepted, and then the job was
\* submitted; the id is in the job's row only after that.
AttemptInv ==
    \A j \in Jobs :
        /\ attemptId[j] <=> attempt[j] \in {"accepted", "committed"}
        /\ attemptId[j] => submits[j] = 1 /\ (evidence[j] = "video" => task[j] # "none")
        /\ status[j] \in Unclaimed => attempt[j] \in {"none", "prepared"}
        /\ bound[j] => status[j] \notin {"absent", "draft"}

JobInv == SubmitInv /\ AnswerInv /\ AttemptInv /\ TrackedIsSubmitted
          /\ CompletedHasOneResult

\* Every step keeps the types.
LEMMA TypeStep == ASSUME TypeOK, [Next]_vars PROVE TypeOK'
<1> USE CrashAssumption, ModesAssumption
        DEF TypeOK, JobStatus, AttemptState, Steps, BootSteps, CycleSteps, HandlerSteps
<1>1. ASSUME BackfillDone PROVE TypeOK'
  BY <1>1 DEF BackfillDone, Goto, jobVars, attVars, outVars, provVars
<1>2. ASSUME RecoverDone PROVE TypeOK'
  BY <1>2 DEF RecoverDone, Goto, jobVars, attVars, outVars, provVars
<1>3. ASSUME BootImageAsset PROVE TypeOK'
  BY <1>3 DEF BootImageAsset, Return, EnsureAsset, provVars, jobVars, attVars
<1>4. ASSUME BootDone PROVE TypeOK'
  BY <1>4 DEF BootDone, Goto, jobVars, attVars, outVars, provVars
<1>5. ASSUME NEW S \in Suppliers, DeleteCredential(S) PROVE TypeOK'
  BY <1>5 DEF DeleteCredential, procVars, attVars, outVars, provVars
<1>6. ASSUME NEW S \in Suppliers, ReplaceCredential(S) PROVE TypeOK'
  BY <1>6 DEF ReplaceCredential, procVars, attVars, outVars, provVars
<1>7. ASSUME LegacyQueue PROVE TypeOK'
  BY <1>7 DEF LegacyQueue, Return, Transition, outVars, provVars, SetStatus,
              attVars
<1>8. ASSUME ClaimImage PROVE TypeOK'
  BY <1>8 DEF ClaimImage, Goto, Return, SetStatus, SetAttempt, outVars,
              provVars
<1>9. ASSUME CallImage PROVE TypeOK'
  BY <1>9 DEF CallImage, Goto, Return, jobVars, attVars, outVars
<1>10. ASSUME ImageAccepted PROVE TypeOK'
  BY <1>10 DEF ImageAccepted, Goto, RecordAttempt, jobVars, outVars, provVars,
               SetAttempt
<1>11. ASSUME ImageCommitted PROVE TypeOK'
  BY <1>11 DEF ImageCommitted, Goto, CommitAccepted, outVars, provVars,
               SetStatus, SetAttempt, CanCommit
<1>12. ASSUME ImageCompleted PROVE TypeOK'
  <2>1. results' \in [Jobs -> Nat]
    <3>1. results' = [results EXCEPT ![cur] = @ + 1]
      BY <1>12 DEF ImageCompleted, CompleteWithResult
    <3>2. CASE cur \in Jobs
      BY <3>1, <3>2
    <3>3. CASE cur \notin Jobs
      BY <3>1, <3>3
    <3> QED
      BY <3>2, <3>3
  <2> QED
    BY <1>12, <2>1 DEF ImageCompleted, Goto, CompleteWithResult, provVars,
                       SetStatus, attVars
<1>13. ASSUME ImageAsset PROVE TypeOK'
  BY <1>13 DEF ImageAsset, Return, EnsureAsset, provVars, jobVars, attVars
<1>14. ASSUME ImageUnknown PROVE TypeOK'
  BY <1>14 DEF ImageUnknown, Goto, RecordAttempt, jobVars, outVars, provVars,
               SetAttempt
<1>15. ASSUME ImageFails PROVE TypeOK'
  BY <1>15 DEF ImageFails, Return, Transition, outVars, provVars, SetStatus,
               attVars
<1>16. ASSUME CycleStart PROVE TypeOK'
  BY <1>16 DEF CycleStart, Goto, jobVars, attVars, outVars, provVars
<1>17. ASSUME SubmitMark PROVE TypeOK'
  BY <1>17 DEF SubmitMark, Goto, Transition, outVars, provVars, SetStatus,
               attVars
<1>18. ASSUME SubmitRecord PROVE TypeOK'
  BY <1>18 DEF SubmitRecord, Goto, RecordAttempt, jobVars, outVars, provVars,
               SetAttempt
<1>19. ASSUME SubmitCall PROVE TypeOK'
  BY <1>19 DEF SubmitCall, Goto, jobVars, attVars, outVars
<1>20. ASSUME SubmitAccepted PROVE TypeOK'
  BY <1>20 DEF SubmitAccepted, Goto, RecordAttempt, jobVars, outVars,
               provVars, SetAttempt
<1>21. ASSUME SubmitCommit PROVE TypeOK'
  BY <1>21 DEF SubmitCommit, Return, CommitAccepted, outVars, provVars,
               SetStatus, SetAttempt, CanCommit
<1>22. ASSUME SubmitError PROVE TypeOK'
  BY <1>22 DEF SubmitError, Goto, RecordAttempt, jobVars, outVars, provVars,
               SetAttempt
<1>23. ASSUME SubmitFails PROVE TypeOK'
  BY <1>23 DEF SubmitFails, Return, Transition, outVars, provVars, SetStatus,
               attVars
<1>24. ASSUME SubmitsDone PROVE TypeOK'
  BY <1>24 DEF SubmitsDone, jobVars, attVars, outVars, provVars
<1>25. ASSUME PollAgain PROVE TypeOK'
  BY <1>25 DEF PollAgain, Return, Transition, jobVars, attVars, outVars,
               provVars, SetStatus
<1>26. ASSUME CycleDone PROVE TypeOK'
  BY <1>26 DEF CycleDone, Goto, jobVars, attVars, outVars, provVars
<1>27. ASSUME Crash PROVE TypeOK'
  BY <1>27 DEF Crash, jobVars, attVars, outVars, provVars
<1>28. ASSUME NEW j \in Jobs, BackfillJob(j) PROVE TypeOK'
  BY <1>28 DEF BackfillJob, SetStatus, attVars, outVars, provVars
<1>29. ASSUME NEW j \in Jobs, RecoverAccepted(j) PROVE TypeOK'
  BY <1>29 DEF RecoverAccepted, CommitAccepted, procVars, outVars, provVars,
               SetStatus, SetAttempt, CanCommit
<1>30. ASSUME NEW j \in Jobs, RecoverRaises(j) PROVE TypeOK'
  BY <1>30 DEF RecoverRaises, CanCommit, jobVars, attVars, outVars, provVars
<1>31. ASSUME NEW j \in Jobs, BootImage(j) PROVE TypeOK'
  BY <1>31 DEF BootImage, CompleteWithResult, provVars, SetStatus, attVars
<1>32. ASSUME NEW j \in Jobs, BootImageRaises(j) PROVE TypeOK'
  BY <1>32 DEF BootImageRaises, Goto, jobVars, attVars, outVars, provVars
<1>33. ASSUME NEW j \in Jobs, LegacyDraft(j) PROVE TypeOK'
  BY <1>33 DEF LegacyDraft, Handle, Transition, outVars, provVars, SetStatus,
               attVars
<1>34. ASSUME NEW j \in Jobs, LegacyReplay(j) PROVE TypeOK'
  BY <1>34 DEF LegacyReplay, Handle, jobVars, attVars, outVars, provVars
<1>35. ASSUME NEW j \in Jobs, EnqueueVideo(j) PROVE TypeOK'
  BY <1>35 DEF EnqueueVideo, InsertWithSnapshot, procVars, SetStatus,
               SetAttempt, outVars, provVars
<1>36. ASSUME NEW j \in Jobs, EnqueueImage(j) PROVE TypeOK'
  BY <1>36 DEF EnqueueImage, Handle, InsertWithSnapshot, SetStatus,
               SetAttempt, outVars, provVars
<1>37. ASSUME NEW j \in Jobs, ReplayImage(j) PROVE TypeOK'
  BY <1>37 DEF ReplayImage, Handle, jobVars, attVars, outVars, provVars
<1>38. ASSUME NEW j \in Jobs, Refresh(j) PROVE TypeOK'
  BY <1>38 DEF Refresh, RefreshJob, procVars, Transition, CompleteWithResult,
               jobVars, attVars, outVars, provVars, SetStatus
<1>39. ASSUME NEW j \in Jobs, MarkOrphan(j) PROVE TypeOK'
  BY <1>39 DEF MarkOrphan, CommitAccepted, Transition, procVars, outVars,
               provVars, SetStatus, attVars, SetAttempt, CanCommit
<1>40. ASSUME NEW j \in Jobs, CancelUnavailable(j) PROVE TypeOK'
  BY <1>40 DEF CancelUnavailable, Transition, procVars, outVars, provVars,
               SetStatus, attVars
<1>41. ASSUME NEW j \in Jobs, SubmitPrepare(j) PROVE TypeOK'
  BY <1>41 DEF SubmitPrepare, SetAttempt, jobVars, outVars, provVars
<1>42. ASSUME NEW j \in Jobs, PollJob(j) PROVE TypeOK'
  BY <1>42 DEF PollJob, RefreshJob, Transition, CompleteWithResult, jobVars,
               attVars, outVars, provVars, SetStatus
<1>43. ASSUME NEW j \in Jobs, Finish(j) PROVE TypeOK'
  BY <1>43 DEF Finish, procVars, jobVars, attVars, outVars
<1>44. ASSUME NEW S \in SUBSET Jobs, PickPollable(S) PROVE TypeOK'
  BY <1>44 DEF PickPollable, jobVars, attVars, outVars, provVars
<1>45. ASSUME NEW S \in SUBSET Jobs, PickQueued(S) PROVE TypeOK'
  BY <1>45 DEF PickQueued, jobVars, attVars, outVars, provVars
<1>46. ASSUME NEW mode \in Modes, Start(mode) PROVE TypeOK'
  BY <1>46 DEF Start, BackfillRows, Jobs, jobVars, attVars, outVars, provVars
<1>47. CASE UNCHANGED vars
  BY <1>47 DEF vars, procVars, jobVars, attVars, outVars, provVars
<1> QED
  BY <1>1, <1>2, <1>3, <1>4, <1>5, <1>6, <1>7, <1>8, <1>9, <1>10, <1>11, <1>12, <1>13,
     <1>14, <1>15, <1>16, <1>17, <1>18, <1>19, <1>20, <1>21, <1>22, <1>23, <1>24,
     <1>25, <1>26, <1>27, <1>28, <1>29, <1>30, <1>31, <1>32, <1>33, <1>34, <1>35,
     <1>36, <1>37, <1>38, <1>39, <1>40, <1>41, <1>42, <1>43, <1>44, <1>45, <1>46, <1>47
  DEF Next, Boot, Request, Handler, Cycle

\* Every step keeps the half of the invariant that leads up to a call.
LEMMA SubmitStep == ASSUME SubmitInv, [Next]_vars PROVE SubmitInv'
<1> TypeOK'
  BY TypeStep DEF SubmitInv
<1> USE DEF SubmitInv, TypeOK, CurInv, TodoInv, BackfillRows, FreshInv,
            AtMostOneSubmit, Eligible, Unclaimed, SubmitLoop, ClaimedSteps,
            HandlerSteps
<1>1. ASSUME BackfillDone
      PROVE  CurInv' /\ TodoInv' /\ FreshInv' /\ AtMostOneSubmit'
  BY <1>1 DEF BackfillDone, Goto, jobVars, attVars, outVars, provVars
<1>2. ASSUME RecoverDone
      PROVE  CurInv' /\ TodoInv' /\ FreshInv' /\ AtMostOneSubmit'
  BY <1>2 DEF RecoverDone, Goto, jobVars, attVars, outVars, provVars
<1>3. ASSUME BootImageAsset
      PROVE  CurInv' /\ TodoInv' /\ FreshInv' /\ AtMostOneSubmit'
  BY <1>3 DEF BootImageAsset, Return, EnsureAsset, provVars, jobVars, attVars
<1>4. ASSUME BootDone
      PROVE  CurInv' /\ TodoInv' /\ FreshInv' /\ AtMostOneSubmit'
  BY <1>4 DEF BootDone, Goto, jobVars, attVars, outVars, provVars
<1>5. ASSUME NEW S \in Suppliers, DeleteCredential(S)
      PROVE  CurInv' /\ TodoInv' /\ FreshInv' /\ AtMostOneSubmit'
  <2>1. at = "idle" /\ at' = at /\ submits' = submits
    BY <1>5 DEF DeleteCredential, procVars, provVars
  <2>2. \A j \in Jobs : status'[j] \in Unclaimed => status'[j] = status[j]
    BY <1>5 DEF DeleteCredential
  <2> QED
    BY <2>1, <2>2
<1>6. ASSUME NEW S \in Suppliers, ReplaceCredential(S)
      PROVE  CurInv' /\ TodoInv' /\ FreshInv' /\ AtMostOneSubmit'
  BY <1>6 DEF ReplaceCredential, procVars, attVars, outVars, provVars
<1>7. ASSUME LegacyQueue
      PROVE  CurInv' /\ TodoInv' /\ FreshInv' /\ AtMostOneSubmit'
  BY <1>7 DEF LegacyQueue, Return, Transition, outVars, provVars, SetStatus,
              attVars
<1>8. ASSUME ClaimImage
      PROVE  CurInv' /\ TodoInv' /\ FreshInv' /\ AtMostOneSubmit'
  BY <1>8 DEF ClaimImage, Goto, Return, SetStatus, SetAttempt, outVars,
              provVars
<1>9. ASSUME CallImage
      PROVE  CurInv' /\ TodoInv' /\ FreshInv' /\ AtMostOneSubmit'
  BY <1>9 DEF CallImage, Goto, Return, jobVars, attVars, outVars
<1>10. ASSUME ImageAccepted
      PROVE  CurInv' /\ TodoInv' /\ FreshInv' /\ AtMostOneSubmit'
  BY <1>10 DEF ImageAccepted, Goto, RecordAttempt, jobVars, outVars, provVars,
               SetAttempt
<1>11. ASSUME ImageCommitted
      PROVE  CurInv' /\ TodoInv' /\ FreshInv' /\ AtMostOneSubmit'
  BY <1>11 DEF ImageCommitted, Goto, CommitAccepted, outVars, provVars,
               SetStatus, SetAttempt, CanCommit
<1>12. ASSUME ImageCompleted
      PROVE  CurInv' /\ TodoInv' /\ FreshInv' /\ AtMostOneSubmit'
  BY <1>12 DEF ImageCompleted, Goto, CompleteWithResult, provVars, SetStatus,
               attVars
<1>13. ASSUME ImageAsset
      PROVE  CurInv' /\ TodoInv' /\ FreshInv' /\ AtMostOneSubmit'
  BY <1>13 DEF ImageAsset, Return, EnsureAsset, provVars, jobVars, attVars
<1>14. ASSUME ImageUnknown
      PROVE  CurInv' /\ TodoInv' /\ FreshInv' /\ AtMostOneSubmit'
  BY <1>14 DEF ImageUnknown, Goto, RecordAttempt, jobVars, outVars, provVars,
               SetAttempt
<1>15. ASSUME ImageFails
      PROVE  CurInv' /\ TodoInv' /\ FreshInv' /\ AtMostOneSubmit'
  BY <1>15 DEF ImageFails, Return, Transition, outVars, provVars, SetStatus,
               attVars
<1>16. ASSUME CycleStart
      PROVE  CurInv' /\ TodoInv' /\ FreshInv' /\ AtMostOneSubmit'
  BY <1>16 DEF CycleStart, Goto, jobVars, attVars, outVars, provVars
<1>17. ASSUME SubmitMark
      PROVE  CurInv' /\ TodoInv' /\ FreshInv' /\ AtMostOneSubmit'
  BY <1>17 DEF SubmitMark, Goto, Transition, outVars, provVars, SetStatus,
               attVars
<1>18. ASSUME SubmitRecord
      PROVE  CurInv' /\ TodoInv' /\ FreshInv' /\ AtMostOneSubmit'
  BY <1>18 DEF SubmitRecord, Goto, RecordAttempt, jobVars, outVars, provVars,
               SetAttempt
<1>19. ASSUME SubmitCall
      PROVE  CurInv' /\ TodoInv' /\ FreshInv' /\ AtMostOneSubmit'
  BY <1>19 DEF SubmitCall, Goto, jobVars, attVars, outVars
<1>20. ASSUME SubmitAccepted
      PROVE  CurInv' /\ TodoInv' /\ FreshInv' /\ AtMostOneSubmit'
  BY <1>20 DEF SubmitAccepted, Goto, RecordAttempt, jobVars, outVars,
               provVars, SetAttempt
<1>21. ASSUME SubmitCommit
      PROVE  CurInv' /\ TodoInv' /\ FreshInv' /\ AtMostOneSubmit'
  BY <1>21 DEF SubmitCommit, Return, CommitAccepted, outVars, provVars,
               SetStatus, SetAttempt, CanCommit
<1>22. ASSUME SubmitError
      PROVE  CurInv' /\ TodoInv' /\ FreshInv' /\ AtMostOneSubmit'
  BY <1>22 DEF SubmitError, Goto, RecordAttempt, jobVars, outVars, provVars,
               SetAttempt
<1>23. ASSUME SubmitFails
      PROVE  CurInv' /\ TodoInv' /\ FreshInv' /\ AtMostOneSubmit'
  BY <1>23 DEF SubmitFails, Return, Transition, outVars, provVars, SetStatus,
               attVars
<1>24. ASSUME SubmitsDone
      PROVE  CurInv' /\ TodoInv' /\ FreshInv' /\ AtMostOneSubmit'
  BY <1>24 DEF SubmitsDone, jobVars, attVars, outVars, provVars
<1>25. ASSUME PollAgain
      PROVE  CurInv' /\ TodoInv' /\ FreshInv' /\ AtMostOneSubmit'
  BY <1>25 DEF PollAgain, Return, Transition, jobVars, attVars, outVars,
               provVars, SetStatus
<1>26. ASSUME CycleDone
      PROVE  CurInv' /\ TodoInv' /\ FreshInv' /\ AtMostOneSubmit'
  BY <1>26 DEF CycleDone, Goto, jobVars, attVars, outVars, provVars
<1>27. ASSUME Crash
      PROVE  CurInv' /\ TodoInv' /\ FreshInv' /\ AtMostOneSubmit'
  BY <1>27 DEF Crash, jobVars, attVars, outVars, provVars
<1>28. ASSUME NEW j \in Jobs, BackfillJob(j)
      PROVE  CurInv' /\ TodoInv' /\ FreshInv' /\ AtMostOneSubmit'
  BY <1>28 DEF BackfillJob, SetStatus, attVars, outVars, provVars
<1>29. ASSUME NEW j \in Jobs, RecoverAccepted(j)
      PROVE  CurInv' /\ TodoInv' /\ FreshInv' /\ AtMostOneSubmit'
  BY <1>29 DEF RecoverAccepted, CommitAccepted, procVars, outVars, provVars,
               SetStatus, SetAttempt, CanCommit
<1>30. ASSUME NEW j \in Jobs, RecoverRaises(j)
      PROVE  CurInv' /\ TodoInv' /\ FreshInv' /\ AtMostOneSubmit'
  BY <1>30 DEF RecoverRaises, CanCommit, jobVars, attVars, outVars, provVars
<1>31. ASSUME NEW j \in Jobs, BootImage(j)
      PROVE  CurInv' /\ TodoInv' /\ FreshInv' /\ AtMostOneSubmit'
  BY <1>31 DEF BootImage, CompleteWithResult, provVars, SetStatus, attVars
<1>32. ASSUME NEW j \in Jobs, BootImageRaises(j)
      PROVE  CurInv' /\ TodoInv' /\ FreshInv' /\ AtMostOneSubmit'
  BY <1>32 DEF BootImageRaises, Goto, jobVars, attVars, outVars, provVars
<1>33. ASSUME NEW j \in Jobs, LegacyDraft(j)
      PROVE  CurInv' /\ TodoInv' /\ FreshInv' /\ AtMostOneSubmit'
  BY <1>33 DEF LegacyDraft, Handle, Transition, outVars, provVars, SetStatus,
               attVars
<1>34. ASSUME NEW j \in Jobs, LegacyReplay(j)
      PROVE  CurInv' /\ TodoInv' /\ FreshInv' /\ AtMostOneSubmit'
  BY <1>34 DEF LegacyReplay, Handle, jobVars, attVars, outVars, provVars
<1>35. ASSUME NEW j \in Jobs, EnqueueVideo(j)
      PROVE  CurInv' /\ TodoInv' /\ FreshInv' /\ AtMostOneSubmit'
  BY <1>35 DEF EnqueueVideo, InsertWithSnapshot, procVars, SetStatus,
               SetAttempt, outVars, provVars
<1>36. ASSUME NEW j \in Jobs, EnqueueImage(j)
      PROVE  CurInv' /\ TodoInv' /\ FreshInv' /\ AtMostOneSubmit'
  BY <1>36 DEF EnqueueImage, Handle, InsertWithSnapshot, SetStatus,
               SetAttempt, outVars, provVars
<1>37. ASSUME NEW j \in Jobs, ReplayImage(j)
      PROVE  CurInv' /\ TodoInv' /\ FreshInv' /\ AtMostOneSubmit'
  BY <1>37 DEF ReplayImage, Handle, jobVars, attVars, outVars, provVars
<1>38. ASSUME NEW j \in Jobs, Refresh(j)
      PROVE  CurInv' /\ TodoInv' /\ FreshInv' /\ AtMostOneSubmit'
  BY <1>38 DEF Refresh, RefreshJob, procVars, Transition, CompleteWithResult,
               jobVars, attVars, outVars, provVars, SetStatus
<1>39. ASSUME NEW j \in Jobs, MarkOrphan(j)
      PROVE  CurInv' /\ TodoInv' /\ FreshInv' /\ AtMostOneSubmit'
  BY <1>39 DEF MarkOrphan, CommitAccepted, Transition, Orphans, procVars,
               outVars, provVars, SetStatus, attVars, SetAttempt, CanCommit
<1>40. ASSUME NEW j \in Jobs, CancelUnavailable(j)
      PROVE  CurInv' /\ TodoInv' /\ FreshInv' /\ AtMostOneSubmit'
  BY <1>40 DEF CancelUnavailable, Transition, procVars, outVars, provVars,
               SetStatus, attVars
<1>41. ASSUME NEW j \in Jobs, SubmitPrepare(j)
      PROVE  CurInv' /\ TodoInv' /\ FreshInv' /\ AtMostOneSubmit'
  BY <1>41 DEF SubmitPrepare, SetAttempt, jobVars, outVars, provVars
<1>42. ASSUME NEW j \in Jobs, PollJob(j)
      PROVE  CurInv' /\ TodoInv' /\ FreshInv' /\ AtMostOneSubmit'
  BY <1>42 DEF PollJob, RefreshJob, Transition, CompleteWithResult, jobVars,
               attVars, outVars, provVars, SetStatus
<1>43. ASSUME NEW j \in Jobs, Finish(j)
      PROVE  CurInv' /\ TodoInv' /\ FreshInv' /\ AtMostOneSubmit'
  BY <1>43 DEF Finish, procVars, jobVars, attVars, outVars
<1>44. ASSUME NEW S \in SUBSET Jobs, PickPollable(S)
      PROVE  CurInv' /\ TodoInv' /\ FreshInv' /\ AtMostOneSubmit'
  BY <1>44 DEF PickPollable, Orphans, jobVars, attVars, outVars, provVars
<1>45. ASSUME NEW S \in SUBSET Jobs, PickQueued(S)
      PROVE  CurInv' /\ TodoInv' /\ FreshInv' /\ AtMostOneSubmit'
  BY <1>45 DEF PickQueued, jobVars, attVars, outVars, provVars
<1>46. ASSUME NEW mode \in Modes, Start(mode)
      PROVE  CurInv' /\ TodoInv' /\ FreshInv' /\ AtMostOneSubmit'
  BY <1>46 DEF Start, Jobs, jobVars, attVars, outVars, provVars
<1>47. CASE UNCHANGED vars
  BY <1>47 DEF vars, procVars, jobVars, attVars, outVars, provVars
<1> QED
  BY <1>1, <1>2, <1>3, <1>4, <1>5, <1>6, <1>7, <1>8, <1>9, <1>10, <1>11,
     <1>12, <1>13, <1>14, <1>15, <1>16, <1>17, <1>18, <1>19, <1>20, <1>21,
     <1>22, <1>23, <1>24, <1>25, <1>26, <1>27, <1>28, <1>29, <1>30, <1>31,
     <1>32, <1>33, <1>34, <1>35, <1>36, <1>37, <1>38, <1>39, <1>40, <1>41,
     <1>42, <1>43, <1>44, <1>45, <1>46, <1>47 DEF Next, Boot, Request, Handler, Cycle

\* Every step keeps the half that follows the answer to the call.
LEMMA JobStep == ASSUME JobInv, [Next]_vars PROVE JobInv'
<1> SubmitInv'
  BY SubmitStep DEF JobInv
<1> USE DEF JobInv, SubmitInv, TypeOK, CurInv, TodoInv, FreshInv, AnswerInv,
            AttemptInv, TrackedIsSubmitted, CompletedHasOneResult, Unclaimed,
            Tracked, SubmitLoop, ClaimedSteps, HandlerSteps
<1>1. ASSUME BackfillDone
      PROVE  AnswerInv' /\ AttemptInv' /\ TrackedIsSubmitted' /\ CompletedHasOneResult'
  BY <1>1 DEF BackfillDone, Goto, jobVars, attVars, outVars, provVars
<1>2. ASSUME RecoverDone
      PROVE  AnswerInv' /\ AttemptInv' /\ TrackedIsSubmitted' /\ CompletedHasOneResult'
  BY <1>2 DEF RecoverDone, Goto, jobVars, attVars, outVars, provVars
<1>3. ASSUME BootImageAsset
      PROVE  AnswerInv' /\ AttemptInv' /\ TrackedIsSubmitted' /\ CompletedHasOneResult'
  BY <1>3 DEF BootImageAsset, Return, EnsureAsset, provVars, jobVars, attVars
<1>4. ASSUME BootDone
      PROVE  AnswerInv' /\ AttemptInv' /\ TrackedIsSubmitted' /\ CompletedHasOneResult'
  BY <1>4 DEF BootDone, Goto, jobVars, attVars, outVars, provVars
<1>5. ASSUME NEW S \in Suppliers, DeleteCredential(S)
      PROVE  AnswerInv' /\ AttemptInv' /\ TrackedIsSubmitted' /\ CompletedHasOneResult'
  BY <1>5 DEF DeleteCredential, Referencing, procVars, attVars, outVars,
              provVars, Terminal
<1>6. ASSUME NEW S \in Suppliers, ReplaceCredential(S)
      PROVE  AnswerInv' /\ AttemptInv' /\ TrackedIsSubmitted' /\ CompletedHasOneResult'
  BY <1>6 DEF ReplaceCredential, procVars, attVars, outVars, provVars
<1>7. ASSUME LegacyQueue
      PROVE  AnswerInv' /\ AttemptInv' /\ TrackedIsSubmitted' /\ CompletedHasOneResult'
  BY <1>7 DEF LegacyQueue, Return, Transition, outVars, provVars, SetStatus,
              attVars
<1>8. ASSUME ClaimImage
      PROVE  AnswerInv' /\ AttemptInv' /\ TrackedIsSubmitted' /\ CompletedHasOneResult'
  BY <1>8 DEF ClaimImage, Goto, Return, SetStatus, SetAttempt, outVars,
              provVars
<1>9. ASSUME CallImage
      PROVE  AnswerInv' /\ AttemptInv' /\ TrackedIsSubmitted' /\ CompletedHasOneResult'
  BY <1>9 DEF CallImage, Goto, Return, jobVars, attVars, outVars
<1>10. ASSUME ImageAccepted
      PROVE  AnswerInv' /\ AttemptInv' /\ TrackedIsSubmitted' /\ CompletedHasOneResult'
  BY <1>10 DEF ImageAccepted, Goto, RecordAttempt, jobVars, outVars, provVars,
               SetAttempt
<1>11. ASSUME ImageCommitted
      PROVE  AnswerInv' /\ AttemptInv' /\ TrackedIsSubmitted' /\ CompletedHasOneResult'
  BY <1>11 DEF ImageCommitted, Goto, CommitAccepted, outVars, provVars,
               SetStatus, SetAttempt, CanCommit
<1>12. ASSUME ImageCompleted
      PROVE  AnswerInv' /\ AttemptInv' /\ TrackedIsSubmitted' /\ CompletedHasOneResult'
  BY <1>12 DEF ImageCompleted, Goto, CompleteWithResult, provVars, SetStatus,
               attVars
<1>13. ASSUME ImageAsset
      PROVE  AnswerInv' /\ AttemptInv' /\ TrackedIsSubmitted' /\ CompletedHasOneResult'
  BY <1>13 DEF ImageAsset, Return, EnsureAsset, provVars, jobVars, attVars
<1>14. ASSUME ImageUnknown
      PROVE  AnswerInv' /\ AttemptInv' /\ TrackedIsSubmitted' /\ CompletedHasOneResult'
  BY <1>14 DEF ImageUnknown, Goto, RecordAttempt, jobVars, outVars, provVars,
               SetAttempt
<1>15. ASSUME ImageFails
      PROVE  AnswerInv' /\ AttemptInv' /\ TrackedIsSubmitted' /\ CompletedHasOneResult'
  BY <1>15 DEF ImageFails, Return, Transition, outVars, provVars, SetStatus,
               attVars
<1>16. ASSUME CycleStart
      PROVE  AnswerInv' /\ AttemptInv' /\ TrackedIsSubmitted' /\ CompletedHasOneResult'
  BY <1>16 DEF CycleStart, Goto, jobVars, attVars, outVars, provVars
<1>17. ASSUME SubmitMark
      PROVE  AnswerInv' /\ AttemptInv' /\ TrackedIsSubmitted' /\ CompletedHasOneResult'
  BY <1>17 DEF SubmitMark, Goto, Transition, outVars, provVars, SetStatus,
               attVars
<1>18. ASSUME SubmitRecord
      PROVE  AnswerInv' /\ AttemptInv' /\ TrackedIsSubmitted' /\ CompletedHasOneResult'
  BY <1>18 DEF SubmitRecord, Goto, RecordAttempt, jobVars, outVars, provVars,
               SetAttempt
<1>19. ASSUME SubmitCall
      PROVE  AnswerInv' /\ AttemptInv' /\ TrackedIsSubmitted' /\ CompletedHasOneResult'
  BY <1>19 DEF SubmitCall, Goto, jobVars, attVars, outVars
<1>20. ASSUME SubmitAccepted
      PROVE  AnswerInv' /\ AttemptInv' /\ TrackedIsSubmitted' /\ CompletedHasOneResult'
  BY <1>20 DEF SubmitAccepted, Goto, RecordAttempt, jobVars, outVars,
               provVars, SetAttempt
<1>21. ASSUME SubmitCommit
      PROVE  AnswerInv' /\ AttemptInv' /\ TrackedIsSubmitted' /\ CompletedHasOneResult'
  BY <1>21 DEF SubmitCommit, Return, CommitAccepted, outVars, provVars,
               SetStatus, SetAttempt, CanCommit
<1>22. ASSUME SubmitError
      PROVE  AnswerInv' /\ AttemptInv' /\ TrackedIsSubmitted' /\ CompletedHasOneResult'
  BY <1>22 DEF SubmitError, Goto, RecordAttempt, jobVars, outVars, provVars,
               SetAttempt
<1>23. ASSUME SubmitFails
      PROVE  AnswerInv' /\ AttemptInv' /\ TrackedIsSubmitted' /\ CompletedHasOneResult'
  BY <1>23 DEF SubmitFails, Return, Transition, outVars, provVars, SetStatus,
               attVars
<1>24. ASSUME SubmitsDone
      PROVE  AnswerInv' /\ AttemptInv' /\ TrackedIsSubmitted' /\ CompletedHasOneResult'
  BY <1>24 DEF SubmitsDone, jobVars, attVars, outVars, provVars
<1>25. ASSUME PollAgain
      PROVE  AnswerInv' /\ AttemptInv' /\ TrackedIsSubmitted' /\ CompletedHasOneResult'
  BY <1>25 DEF PollAgain, Return, Transition, jobVars, attVars, outVars,
               provVars, SetStatus
<1>26. ASSUME CycleDone
      PROVE  AnswerInv' /\ AttemptInv' /\ TrackedIsSubmitted' /\ CompletedHasOneResult'
  BY <1>26 DEF CycleDone, Goto, jobVars, attVars, outVars, provVars
<1>27. ASSUME Crash
      PROVE  AnswerInv' /\ AttemptInv' /\ TrackedIsSubmitted' /\ CompletedHasOneResult'
  BY <1>27 DEF Crash, jobVars, attVars, outVars, provVars
<1>28. ASSUME NEW j \in Jobs, BackfillJob(j)
      PROVE  AnswerInv' /\ AttemptInv' /\ TrackedIsSubmitted' /\ CompletedHasOneResult'
  <2>1. at = "backfill" /\ at' = at /\ UNCHANGED <<attVars, outVars, provVars, jobId>>
    BY <1>28 DEF BackfillJob
  <2>2. \A k \in Jobs : status'[k] # status[k] =>
            /\ status[k] \in {"queued", "submitting"} /\ status'[k] \in {"cancelled", "failed"}
    BY <1>28 DEF BackfillJob, SetStatus, BackfillRows
  <2>3. \A k \in Jobs : bound'[k] => bound[k] \/ status[k] \notin {"absent", "draft"}
    BY <1>28 DEF BackfillJob, BackfillRows
  <2>4. AttemptInv'
    BY <2>1, <2>2, <2>3 DEF attVars, outVars, provVars
  <2>5. AnswerInv' /\ TrackedIsSubmitted' /\ CompletedHasOneResult'
    BY <2>1, <2>2 DEF attVars, outVars, provVars
  <2> QED
    BY <2>4, <2>5
<1>29. ASSUME NEW j \in Jobs, RecoverAccepted(j)
      PROVE  AnswerInv' /\ AttemptInv' /\ TrackedIsSubmitted' /\ CompletedHasOneResult'
  BY <1>29 DEF RecoverAccepted, CommitAccepted, procVars, outVars, provVars,
               SetStatus, SetAttempt, CanCommit
<1>30. ASSUME NEW j \in Jobs, RecoverRaises(j)
      PROVE  AnswerInv' /\ AttemptInv' /\ TrackedIsSubmitted' /\ CompletedHasOneResult'
  BY <1>30 DEF RecoverRaises, CanCommit, jobVars, attVars, outVars, provVars
<1>31. ASSUME NEW j \in Jobs, BootImage(j)
      PROVE  AnswerInv' /\ AttemptInv' /\ TrackedIsSubmitted' /\ CompletedHasOneResult'
  BY <1>31 DEF BootImage, CompleteWithResult, provVars, SetStatus, attVars
<1>32. ASSUME NEW j \in Jobs, BootImageRaises(j)
      PROVE  AnswerInv' /\ AttemptInv' /\ TrackedIsSubmitted' /\ CompletedHasOneResult'
  BY <1>32 DEF BootImageRaises, Goto, jobVars, attVars, outVars, provVars
<1>33. ASSUME NEW j \in Jobs, LegacyDraft(j)
      PROVE  AnswerInv' /\ AttemptInv' /\ TrackedIsSubmitted' /\ CompletedHasOneResult'
  BY <1>33 DEF LegacyDraft, Handle, Transition, outVars, provVars, SetStatus,
               attVars
<1>34. ASSUME NEW j \in Jobs, LegacyReplay(j)
      PROVE  AnswerInv' /\ AttemptInv' /\ TrackedIsSubmitted' /\ CompletedHasOneResult'
  BY <1>34 DEF LegacyReplay, Handle, jobVars, attVars, outVars, provVars
<1>35. ASSUME NEW j \in Jobs, EnqueueVideo(j)
      PROVE  AnswerInv' /\ AttemptInv' /\ TrackedIsSubmitted' /\ CompletedHasOneResult'
  BY <1>35 DEF EnqueueVideo, InsertWithSnapshot, procVars, SetStatus,
               SetAttempt, outVars, provVars
<1>36. ASSUME NEW j \in Jobs, EnqueueImage(j)
      PROVE  AnswerInv' /\ AttemptInv' /\ TrackedIsSubmitted' /\ CompletedHasOneResult'
  BY <1>36 DEF EnqueueImage, Handle, InsertWithSnapshot, SetStatus,
               SetAttempt, outVars, provVars
<1>37. ASSUME NEW j \in Jobs, ReplayImage(j)
      PROVE  AnswerInv' /\ AttemptInv' /\ TrackedIsSubmitted' /\ CompletedHasOneResult'
  BY <1>37 DEF ReplayImage, Handle, jobVars, attVars, outVars, provVars
<1>38. ASSUME NEW j \in Jobs, Refresh(j)
      PROVE  AnswerInv' /\ AttemptInv' /\ TrackedIsSubmitted' /\ CompletedHasOneResult'
  BY <1>38 DEF Refresh, RefreshJob, procVars, Transition, CompleteWithResult,
               jobVars, attVars, outVars, provVars, SetStatus
<1>39. ASSUME NEW j \in Jobs, MarkOrphan(j)
      PROVE  AnswerInv' /\ AttemptInv' /\ TrackedIsSubmitted' /\ CompletedHasOneResult'
  BY <1>39 DEF MarkOrphan, CommitAccepted, Transition, Orphans, procVars,
               outVars, provVars, SetStatus, attVars, SetAttempt, CanCommit
<1>40. ASSUME NEW j \in Jobs, CancelUnavailable(j)
      PROVE  AnswerInv' /\ AttemptInv' /\ TrackedIsSubmitted' /\ CompletedHasOneResult'
  BY <1>40 DEF CancelUnavailable, Transition, procVars, outVars, provVars,
               SetStatus, attVars
<1>41. ASSUME NEW j \in Jobs, SubmitPrepare(j)
      PROVE  AnswerInv' /\ AttemptInv' /\ TrackedIsSubmitted' /\ CompletedHasOneResult'
  BY <1>41 DEF SubmitPrepare, SetAttempt, jobVars, outVars, provVars
<1>42. ASSUME NEW j \in Jobs, PollJob(j)
      PROVE  AnswerInv' /\ AttemptInv' /\ TrackedIsSubmitted' /\ CompletedHasOneResult'
  BY <1>42 DEF PollJob, RefreshJob, Transition, CompleteWithResult, jobVars,
               attVars, outVars, provVars, SetStatus
<1>43. ASSUME NEW j \in Jobs, Finish(j)
      PROVE  AnswerInv' /\ AttemptInv' /\ TrackedIsSubmitted' /\ CompletedHasOneResult'
  BY <1>43 DEF Finish, procVars, jobVars, attVars, outVars
<1>44. ASSUME NEW S \in SUBSET Jobs, PickPollable(S)
      PROVE  AnswerInv' /\ AttemptInv' /\ TrackedIsSubmitted' /\ CompletedHasOneResult'
  BY <1>44 DEF PickPollable, Orphans, jobVars, attVars, outVars, provVars
<1>45. ASSUME NEW S \in SUBSET Jobs, PickQueued(S)
      PROVE  AnswerInv' /\ AttemptInv' /\ TrackedIsSubmitted' /\ CompletedHasOneResult'
  BY <1>45 DEF PickQueued, jobVars, attVars, outVars, provVars
<1>46. ASSUME NEW mode \in Modes, Start(mode)
      PROVE  AnswerInv' /\ AttemptInv' /\ TrackedIsSubmitted' /\ CompletedHasOneResult'
  BY <1>46 DEF Start, Jobs, jobVars, attVars, outVars, provVars
<1>47. CASE UNCHANGED vars
  BY <1>47 DEF vars, procVars, jobVars, attVars, outVars, provVars
<1> QED
  BY <1>1, <1>2, <1>3, <1>4, <1>5, <1>6, <1>7, <1>8, <1>9, <1>10, <1>11,
     <1>12, <1>13, <1>14, <1>15, <1>16, <1>17, <1>18, <1>19, <1>20, <1>21,
     <1>22, <1>23, <1>24, <1>25, <1>26, <1>27, <1>28, <1>29, <1>30, <1>31,
     <1>32, <1>33, <1>34, <1>35, <1>36, <1>37, <1>38, <1>39, <1>40, <1>41,
     <1>42, <1>43, <1>44, <1>45, <1>46, <1>47 DEF Next, Boot, Request, Handler, Cycle

\* The three action properties, of one step.
NoForbiddenStep ==
    \A j \in Jobs :
        /\ submits'[j] # submits[j] =>
              status[j] = "submitting" /\ attempt[j] = "submitting" /\ Eligible(j)
        /\ status'[j] # status[j] => <<status[j], status'[j]>> \in AllowedStatus
        /\ (jobId[j] => jobId'[j]) /\ (attemptId[j] => attemptId'[j])

\* From a state of the invariant, no step is a forbidden one.
LEMMA ActionStep == ASSUME JobInv, [Next]_vars PROVE NoForbiddenStep
<1> USE DEF NoForbiddenStep, AllowedStatus, JobInv, SubmitInv, TypeOK,
            JobStatus, CurInv, TodoInv, BackfillRows, AnswerInv, AttemptInv,
            TrackedIsSubmitted, Eligible, Unclaimed, Tracked, SubmitLoop,
            ClaimedSteps, HandlerSteps
<1>1. ASSUME BackfillDone PROVE NoForbiddenStep
  BY <1>1 DEF BackfillDone, Goto, jobVars, attVars, outVars, provVars
<1>2. ASSUME RecoverDone PROVE NoForbiddenStep
  BY <1>2 DEF RecoverDone, Goto, jobVars, attVars, outVars, provVars
<1>3. ASSUME BootImageAsset PROVE NoForbiddenStep
  BY <1>3 DEF BootImageAsset, Return, EnsureAsset, provVars, jobVars, attVars
<1>4. ASSUME BootDone PROVE NoForbiddenStep
  BY <1>4 DEF BootDone, Goto, jobVars, attVars, outVars, provVars
<1>5. ASSUME NEW S \in Suppliers, DeleteCredential(S) PROVE NoForbiddenStep
  BY <1>5 DEF DeleteCredential, Referencing, procVars, attVars, outVars,
              provVars, Terminal
<1>6. ASSUME NEW S \in Suppliers, ReplaceCredential(S) PROVE NoForbiddenStep
  BY <1>6 DEF ReplaceCredential, procVars, attVars, outVars, provVars
<1>7. ASSUME LegacyQueue PROVE NoForbiddenStep
  BY <1>7 DEF LegacyQueue, Return, Transition, outVars, provVars, SetStatus,
              attVars
<1>8. ASSUME ClaimImage PROVE NoForbiddenStep
  BY <1>8 DEF ClaimImage, Goto, Return, SetStatus, SetAttempt, outVars,
              provVars
<1>9. ASSUME CallImage PROVE NoForbiddenStep
  BY <1>9 DEF CallImage, Goto, Return, jobVars, attVars, outVars
<1>10. ASSUME ImageAccepted PROVE NoForbiddenStep
  BY <1>10 DEF ImageAccepted, Goto, RecordAttempt, jobVars, outVars, provVars,
               SetAttempt
<1>11. ASSUME ImageCommitted PROVE NoForbiddenStep
  BY <1>11 DEF ImageCommitted, Goto, CommitAccepted, outVars, provVars,
               SetStatus, SetAttempt, CanCommit
<1>12. ASSUME ImageCompleted PROVE NoForbiddenStep
  BY <1>12 DEF ImageCompleted, Goto, CompleteWithResult, provVars, SetStatus,
               attVars
<1>13. ASSUME ImageAsset PROVE NoForbiddenStep
  BY <1>13 DEF ImageAsset, Return, EnsureAsset, provVars, jobVars, attVars
<1>14. ASSUME ImageUnknown PROVE NoForbiddenStep
  BY <1>14 DEF ImageUnknown, Goto, RecordAttempt, jobVars, outVars, provVars,
               SetAttempt
<1>15. ASSUME ImageFails PROVE NoForbiddenStep
  BY <1>15 DEF ImageFails, Return, Transition, outVars, provVars, SetStatus,
               attVars
<1>16. ASSUME CycleStart PROVE NoForbiddenStep
  BY <1>16 DEF CycleStart, Goto, jobVars, attVars, outVars, provVars
<1>17. ASSUME SubmitMark PROVE NoForbiddenStep
  BY <1>17 DEF SubmitMark, Goto, Transition, outVars, provVars, SetStatus,
               attVars
<1>18. ASSUME SubmitRecord PROVE NoForbiddenStep
  BY <1>18 DEF SubmitRecord, Goto, RecordAttempt, jobVars, outVars, provVars,
               SetAttempt
<1>19. ASSUME SubmitCall PROVE NoForbiddenStep
  BY <1>19 DEF SubmitCall, Goto, jobVars, attVars, outVars
<1>20. ASSUME SubmitAccepted PROVE NoForbiddenStep
  BY <1>20 DEF SubmitAccepted, Goto, RecordAttempt, jobVars, outVars,
               provVars, SetAttempt
<1>21. ASSUME SubmitCommit PROVE NoForbiddenStep
  BY <1>21 DEF SubmitCommit, Return, CommitAccepted, outVars, provVars,
               SetStatus, SetAttempt, CanCommit
<1>22. ASSUME SubmitError PROVE NoForbiddenStep
  BY <1>22 DEF SubmitError, Goto, RecordAttempt, jobVars, outVars, provVars,
               SetAttempt
<1>23. ASSUME SubmitFails PROVE NoForbiddenStep
  BY <1>23 DEF SubmitFails, Return, Transition, outVars, provVars, SetStatus,
               attVars
<1>24. ASSUME SubmitsDone PROVE NoForbiddenStep
  BY <1>24 DEF SubmitsDone, jobVars, attVars, outVars, provVars
<1>25. ASSUME PollAgain PROVE NoForbiddenStep
  BY <1>25 DEF PollAgain, Return, Transition, jobVars, attVars, outVars,
               provVars, SetStatus
<1>26. ASSUME CycleDone PROVE NoForbiddenStep
  BY <1>26 DEF CycleDone, Goto, jobVars, attVars, outVars, provVars
<1>27. ASSUME Crash PROVE NoForbiddenStep
  BY <1>27 DEF Crash, jobVars, attVars, outVars, provVars
<1>28. ASSUME NEW j \in Jobs, BackfillJob(j) PROVE NoForbiddenStep
  BY <1>28 DEF BackfillJob, SetStatus, attVars, outVars, provVars
<1>29. ASSUME NEW j \in Jobs, RecoverAccepted(j) PROVE NoForbiddenStep
  BY <1>29 DEF RecoverAccepted, CommitAccepted, procVars, outVars, provVars,
               SetStatus, SetAttempt, CanCommit
<1>30. ASSUME NEW j \in Jobs, RecoverRaises(j) PROVE NoForbiddenStep
  BY <1>30 DEF RecoverRaises, CanCommit, jobVars, attVars, outVars, provVars
<1>31. ASSUME NEW j \in Jobs, BootImage(j) PROVE NoForbiddenStep
  BY <1>31 DEF BootImage, CompleteWithResult, provVars, SetStatus, attVars
<1>32. ASSUME NEW j \in Jobs, BootImageRaises(j) PROVE NoForbiddenStep
  BY <1>32 DEF BootImageRaises, Goto, jobVars, attVars, outVars, provVars
<1>33. ASSUME NEW j \in Jobs, LegacyDraft(j) PROVE NoForbiddenStep
  BY <1>33 DEF LegacyDraft, Handle, Transition, outVars, provVars, SetStatus,
               attVars
<1>34. ASSUME NEW j \in Jobs, LegacyReplay(j) PROVE NoForbiddenStep
  BY <1>34 DEF LegacyReplay, Handle, jobVars, attVars, outVars, provVars
<1>35. ASSUME NEW j \in Jobs, EnqueueVideo(j) PROVE NoForbiddenStep
  BY <1>35 DEF EnqueueVideo, InsertWithSnapshot, procVars, SetStatus,
               SetAttempt, outVars, provVars
<1>36. ASSUME NEW j \in Jobs, EnqueueImage(j) PROVE NoForbiddenStep
  BY <1>36 DEF EnqueueImage, Handle, InsertWithSnapshot, SetStatus,
               SetAttempt, outVars, provVars
<1>37. ASSUME NEW j \in Jobs, ReplayImage(j) PROVE NoForbiddenStep
  BY <1>37 DEF ReplayImage, Handle, jobVars, attVars, outVars, provVars
<1>38. ASSUME NEW j \in Jobs, Refresh(j) PROVE NoForbiddenStep
  BY <1>38 DEF Refresh, RefreshJob, procVars, Transition, CompleteWithResult,
               jobVars, attVars, outVars, provVars, SetStatus
<1>39. ASSUME NEW j \in Jobs, MarkOrphan(j) PROVE NoForbiddenStep
  BY <1>39 DEF MarkOrphan, CommitAccepted, Transition, Orphans, procVars,
               outVars, provVars, SetStatus, attVars, SetAttempt, CanCommit
<1>40. ASSUME NEW j \in Jobs, CancelUnavailable(j) PROVE NoForbiddenStep
  BY <1>40 DEF CancelUnavailable, Transition, procVars, outVars, provVars,
               SetStatus, attVars
<1>41. ASSUME NEW j \in Jobs, SubmitPrepare(j) PROVE NoForbiddenStep
  BY <1>41 DEF SubmitPrepare, SetAttempt, jobVars, outVars, provVars
<1>42. ASSUME NEW j \in Jobs, PollJob(j) PROVE NoForbiddenStep
  BY <1>42 DEF PollJob, RefreshJob, Transition, CompleteWithResult, jobVars,
               attVars, outVars, provVars, SetStatus
<1>43. ASSUME NEW j \in Jobs, Finish(j) PROVE NoForbiddenStep
  BY <1>43 DEF Finish, procVars, jobVars, attVars, outVars
<1>44. ASSUME NEW S \in SUBSET Jobs, PickPollable(S) PROVE NoForbiddenStep
  BY <1>44 DEF PickPollable, Orphans, jobVars, attVars, outVars, provVars
<1>45. ASSUME NEW S \in SUBSET Jobs, PickQueued(S) PROVE NoForbiddenStep
  BY <1>45 DEF PickQueued, jobVars, attVars, outVars, provVars
<1>46. ASSUME NEW mode \in Modes, Start(mode) PROVE NoForbiddenStep
  BY <1>46 DEF Start, Jobs, jobVars, attVars, outVars, provVars
<1>47. CASE UNCHANGED vars
  BY <1>47 DEF vars, procVars, jobVars, attVars, outVars, provVars
<1> QED
  BY <1>1, <1>2, <1>3, <1>4, <1>5, <1>6, <1>7, <1>8, <1>9, <1>10, <1>11,
     <1>12, <1>13, <1>14, <1>15, <1>16, <1>17, <1>18, <1>19, <1>20, <1>21,
     <1>22, <1>23, <1>24, <1>25, <1>26, <1>27, <1>28, <1>29, <1>30, <1>31,
     <1>32, <1>33, <1>34, <1>35, <1>36, <1>37, <1>38, <1>39, <1>40, <1>41,
     <1>42, <1>43, <1>44, <1>45, <1>46, <1>47 DEF Next, Boot, Request, Handler, Cycle

\* The invariant holds of the empty database.
LEMMA InitInv == Init => JobInv
BY CrashAssumption, ModesAssumption
   DEF Init, JobInv, SubmitInv, TypeOK, CurInv, TodoInv, FreshInv, AnswerInv, AttemptInv,
       AtMostOneSubmit, TrackedIsSubmitted, CompletedHasOneResult, JobStatus, AttemptState,
       Steps, BootSteps, CycleSteps, HandlerSteps, Unclaimed, Tracked, SubmitLoop, ClaimedSteps

\* The invariant holds in every state the process, its tables and the
\* provider can reach.
THEOREM Invariant == Spec => []JobInv
<1>1. JobInv /\ [Next]_vars => JobInv'
  BY JobStep
<1> QED
  BY InitInv, <1>1, PTL DEF Spec

\* The variables keep their types.
THEOREM TypeCorrect == Spec => []TypeOK
<1>1. JobInv => TypeOK
  BY DEF JobInv, SubmitInv
<1> QED
  BY Invariant, <1>1, PTL

\* However handlers, the poller, crashes and starts of the server interleave, a
\* provider is asked at most once for a job.
THEOREM AtMostOnce == Spec => []AtMostOneSubmit
<1>1. JobInv => AtMostOneSubmit
  BY DEF JobInv, SubmitInv
<1> QED
  BY Invariant, <1>1, PTL

\* A job that is polled, or was completed, was submitted exactly once, and its
\* provider id is in both tables.
THEOREM TrackedWasSubmitted == Spec => []TrackedIsSubmitted
<1>1. JobInv => TrackedIsSubmitted
  BY DEF JobInv
<1> QED
  BY Invariant, <1>1, PTL

\* A completed job has exactly one result and at most one asset, whoever
\* completed it; no other job has any.
THEOREM OneResult == Spec => []CompletedHasOneResult
<1>1. JobInv => CompletedHasOneResult
  BY DEF JobInv
<1> QED
  BY Invariant, <1>1, PTL

\* A provider is called for a job only when both of its rows durably say
\* "submitting", and never for a snapshot job while supplier execution is off.
THEOREM ClaimedBeforeCall == Spec => SubmitOnlyWhenClaimed
<1>1. JobInv /\ [Next]_vars
        => [\A j \in Jobs : submits'[j] # submits[j] =>
              status[j] = "submitting" /\ attempt[j] = "submitting" /\ Eligible(j)]_vars
  BY ActionStep DEF NoForbiddenStep
<1> QED
  BY Invariant, <1>1, PTL DEF Spec, SubmitOnlyWhenClaimed

\* Every write of a status, through transition_generation_job or round it, is one
\* that GENERATION_JOB_TRANSITIONS allows.
THEOREM TableKept == Spec => StatusFollowsTable
<1>1. JobInv /\ [Next]_vars
        => [\A j \in Jobs : status'[j] # status[j] =>
              <<status[j], status'[j]>> \in AllowedStatus]_vars
  BY ActionStep DEF NoForbiddenStep
<1> QED
  BY Invariant, <1>1, PTL DEF Spec, StatusFollowsTable

\* A provider id on record is never erased.
THEOREM IdsKept == Spec => ProviderIdIsKept
<1>1. JobInv /\ [Next]_vars
        => [\A j \in Jobs : /\ jobId[j] => jobId'[j]
                            /\ attemptId[j] => attemptId'[j]]_vars
  BY ActionStep DEF NoForbiddenStep
<1> QED
  BY Invariant, <1>1, PTL DEF Spec, ProviderIdIsKept

(***************************************************************************)
(* What a start of the server may find.  An acceptance waits for its       *)
(* commit at one step of the process only, so that a death there is the    *)
(* one way to leave it behind.  To know how such a job ends the invariant  *)
(* counts deaths: an image is in the queue, outside its own handler, only  *)
(* after one, and the poller's kind of evidence on it survives to a start  *)
(* only through a second.                                                  *)
(***************************************************************************)

\* The steps at which the poller works on one job it has taken from the queue.
PollerSubmits == SubmitLoop \ {"cycleSubmit"}

RecoveryInv ==
    /\ poller = "running"
    /\ at \in {"backfill", "images", "bootImageCompleted"} => enabled
    /\ at = "drafted" => cur \in LegacyJobs
    /\ at \in PollerSubmits /\ cur \in ImageJobs => crashes > 0
    /\ \A j \in Jobs :
          /\ jobId[j] => attempt[j] = "committed"
          /\ attemptId[j] => evidence[j] # "none"
    /\ \A j \in ImageJobs :
          /\ status[j] = "queued" =>
                attempt[j] = "prepared" /\ (crashes > 0 \/ (at = "imageQueued" /\ cur = j))
          /\ evidence[j] = "video" => crashes > 0 /\ (at \in BootSteps => crashes > 1)
          /\ status[j] \in Tracked => crashes > 0 \/ (at = "imageCommitted" /\ cur = j)
    /\ AcceptedIsRecoverable
    /\ FailedStartIsExplained
    /\ CompletedImageHasAsset

\* A job has an asset or none.
LEMMA OneAsset == ASSUME JobInv, NEW j \in Jobs PROVE assets[j] \in {0, 1}
<1>1. results[j] \in {0, 1} /\ assets[j] <= results[j]
  BY DEF JobInv, CompletedHasOneResult
<1>2. assets[j] \in Nat
  BY DEF JobInv, SubmitInv, TypeOK
<1> QED
  BY <1>1, <1>2

\* Every step keeps what a start may find.
LEMMA RecoveryStep == ASSUME JobInv, RecoveryInv, [Next]_vars PROVE RecoveryInv'
<1> TypeOK'
  BY TypeStep DEF JobInv, SubmitInv
<1> USE KindsAssumption
        DEF JobInv, SubmitInv, TypeOK, CurInv, TodoInv, BackfillRows, AnswerInv, AttemptInv,
            TrackedIsSubmitted, Unclaimed, Tracked, SubmitLoop, ClaimedSteps, HandlerSteps,
            BootSteps, PollerSubmits, RecoveryInv, AcceptedIsRecoverable,
            FailedStartIsExplained, CompletedImageHasAsset, LostByBackfill, CanCommit,
            ImageBacklog, Jobs
<1>1. ASSUME BackfillDone PROVE RecoveryInv'
  BY <1>1 DEF BackfillDone, Goto, jobVars, attVars, outVars, provVars
<1>2. ASSUME RecoverDone PROVE RecoveryInv'
  BY <1>2 DEF RecoverDone, Goto, jobVars, attVars, outVars, provVars
<1>3. ASSUME BootImageAsset PROVE RecoveryInv'
  <2>1. cur \in Jobs
    BY <1>3 DEF BootImageAsset
  <2>2. assets'[cur] = 1 /\ \A k \in Jobs \ {cur} : assets'[k] = assets[k]
    BY <1>3, <2>1, OneAsset DEF BootImageAsset, EnsureAsset
  <2>3. UNCHANGED <<jobVars, attVars, crashes, enabled, poller>> /\ at' = "images"
    BY <1>3 DEF BootImageAsset, Return, EnsureAsset
  <2>4. CompletedImageHasAsset'
    BY <1>3, <2>2, <2>3 DEF BootImageAsset, jobVars
  <2> QED
    BY <1>3, <2>3, <2>4 DEF BootImageAsset, jobVars, attVars
<1>4. ASSUME BootDone PROVE RecoveryInv'
  BY <1>4 DEF BootDone, Goto, jobVars, attVars, outVars, provVars
<1>5. ASSUME NEW S \in Suppliers, DeleteCredential(S) PROVE RecoveryInv'
  BY <1>5 DEF DeleteCredential, Referencing, procVars, attVars, outVars,
              provVars, Terminal
<1>6. ASSUME NEW S \in Suppliers, ReplaceCredential(S) PROVE RecoveryInv'
  BY <1>6 DEF ReplaceCredential, procVars, attVars, outVars, provVars
<1>7. ASSUME LegacyQueue PROVE RecoveryInv'
  BY <1>7 DEF LegacyQueue, Return, Transition, outVars, provVars, SetStatus,
              attVars
<1>8. ASSUME ClaimImage PROVE RecoveryInv'
  BY <1>8 DEF ClaimImage, Goto, Return, SetStatus, SetAttempt, outVars,
              provVars
<1>9. ASSUME CallImage PROVE RecoveryInv'
  BY <1>9 DEF CallImage, Goto, Return, jobVars, attVars, outVars
<1>10. ASSUME ImageAccepted PROVE RecoveryInv'
  BY <1>10 DEF ImageAccepted, Goto, RecordAttempt, jobVars, outVars, provVars,
               SetAttempt
<1>11. ASSUME ImageCommitted PROVE RecoveryInv'
  BY <1>11 DEF ImageCommitted, Goto, CommitAccepted, outVars, provVars,
               SetStatus, SetAttempt, CanCommit
<1>12. ASSUME ImageCompleted PROVE RecoveryInv'
  BY <1>12 DEF ImageCompleted, Goto, CompleteWithResult, provVars, SetStatus,
               attVars
<1>13. ASSUME ImageAsset PROVE RecoveryInv'
  <2>1. cur \in Jobs
    BY <1>13 DEF ImageAsset
  <2>2. assets'[cur] = 1 /\ \A k \in Jobs \ {cur} : assets'[k] = assets[k]
    BY <1>13, <2>1, OneAsset DEF ImageAsset, EnsureAsset
  <2>3. UNCHANGED <<jobVars, attVars, crashes, enabled, poller>> /\ at' = "idle"
    BY <1>13 DEF ImageAsset, Return, EnsureAsset
  <2>4. CompletedImageHasAsset'
    BY <1>13, <2>2, <2>3 DEF ImageAsset, jobVars
  <2> QED
    BY <1>13, <2>3, <2>4 DEF ImageAsset, jobVars, attVars
<1>14. ASSUME ImageUnknown PROVE RecoveryInv'
  BY <1>14 DEF ImageUnknown, Goto, RecordAttempt, jobVars, outVars, provVars,
               SetAttempt
<1>15. ASSUME ImageFails PROVE RecoveryInv'
  BY <1>15 DEF ImageFails, Return, Transition, outVars, provVars, SetStatus,
               attVars
<1>16. ASSUME CycleStart PROVE RecoveryInv'
  BY <1>16 DEF CycleStart, Goto, jobVars, attVars, outVars, provVars
<1>17. ASSUME SubmitMark PROVE RecoveryInv'
  BY <1>17 DEF SubmitMark, Goto, Transition, outVars, provVars, SetStatus,
               attVars
<1>18. ASSUME SubmitRecord PROVE RecoveryInv'
  BY <1>18 DEF SubmitRecord, Goto, RecordAttempt, jobVars, outVars, provVars,
               SetAttempt
<1>19. ASSUME SubmitCall PROVE RecoveryInv'
  BY <1>19 DEF SubmitCall, Goto, jobVars, attVars, outVars
<1>20. ASSUME SubmitAccepted PROVE RecoveryInv'
  BY <1>20 DEF SubmitAccepted, Goto, RecordAttempt, jobVars, outVars,
               provVars, SetAttempt
<1>21. ASSUME SubmitCommit PROVE RecoveryInv'
  <2>1. PICK j \in Jobs : j = cur
    BY <1>21 DEF SubmitCommit
  <2>2. CommitAccepted(j) /\ at = "accepted" /\ at' = "cycleSubmit"
    BY <1>21, <2>1 DEF SubmitCommit, Return
  <2>3. UNCHANGED <<crashes, enabled, poller, outVars>>
    BY <1>21 DEF SubmitCommit, Return
  <2>4. AcceptedIsRecoverable' /\ FailedStartIsExplained'
    BY <2>1, <2>2 DEF CommitAccepted, SetStatus, SetAttempt
  <2>5. \A k \in ImageJobs : status'[k] = "queued" => status[k] = "queued" /\ k # j
    BY <2>1, <2>2 DEF CommitAccepted, SetStatus
  <2>6. attempt'[j] = "committed" /\ \A k \in Jobs \ {j} :
            jobId'[k] = jobId[k] /\ attempt'[k] = attempt[k]
    BY <2>1, <2>2 DEF CommitAccepted, SetAttempt
  <2>7. \A k \in Jobs : jobId'[k] => attempt'[k] = "committed"
    BY <2>6
  <2>8. CompletedImageHasAsset'
    BY <2>1, <2>2, <2>3 DEF CommitAccepted, SetStatus, outVars
  <2>9. \A k \in ImageJobs : status'[k] \in Tracked => crashes > 0
    BY <2>1, <2>2 DEF CommitAccepted, SetStatus
  <2> QED
    BY <2>1, <2>2, <2>3, <2>4, <2>5, <2>7, <2>8, <2>9 DEF CommitAccepted, SetAttempt
<1>22. ASSUME SubmitError PROVE RecoveryInv'
  BY <1>22 DEF SubmitError, Goto, RecordAttempt, jobVars, outVars, provVars,
               SetAttempt
<1>23. ASSUME SubmitFails PROVE RecoveryInv'
  BY <1>23 DEF SubmitFails, Return, Transition, outVars, provVars, SetStatus,
               attVars
<1>24. ASSUME SubmitsDone PROVE RecoveryInv'
  BY <1>24 DEF SubmitsDone, jobVars, attVars, outVars, provVars
<1>25. ASSUME PollAgain PROVE RecoveryInv'
  BY <1>25 DEF PollAgain, Return, Transition, jobVars, attVars, outVars,
               provVars, SetStatus
<1>26. ASSUME CycleDone PROVE RecoveryInv'
  BY <1>26 DEF CycleDone, Goto, jobVars, attVars, outVars, provVars
<1>27. ASSUME Crash PROVE RecoveryInv'
  BY <1>27 DEF Crash, jobVars, attVars, outVars, provVars
<1>28. ASSUME NEW j \in Jobs, BackfillJob(j) PROVE RecoveryInv'
  BY <1>28 DEF BackfillJob, SetStatus, attVars, outVars, provVars
<1>29. ASSUME NEW j \in Jobs, RecoverAccepted(j) PROVE RecoveryInv'
  <2>1. CommitAccepted(j) /\ at \in {"recover", "cycleRecover"}
    BY <1>29 DEF RecoverAccepted
  <2>2. UNCHANGED <<procVars, outVars>>
    BY <1>29 DEF RecoverAccepted
  <2>3. \A k \in Jobs \ {j} : LostByBackfill(k) => LostByBackfill(k)'
    BY <2>1, <2>2 DEF CommitAccepted, SetStatus, SetAttempt, procVars
  <2>4. AcceptedIsRecoverable' /\ FailedStartIsExplained'
    BY <2>1, <2>2, <2>3 DEF CommitAccepted, SetStatus, SetAttempt, procVars
  <2>5. \A k \in ImageJobs : status'[k] = "queued" => status[k] = "queued" /\ k # j
    BY <2>1, <2>2 DEF CommitAccepted, SetStatus
  <2>6. attempt'[j] = "committed" /\ \A k \in Jobs \ {j} :
            jobId'[k] = jobId[k] /\ attempt'[k] = attempt[k]
    BY <2>1, <2>2 DEF CommitAccepted, SetAttempt
  <2>7. \A k \in Jobs : jobId'[k] => attempt'[k] = "committed"
    BY <2>6
  <2> QED
    BY <2>1, <2>2, <2>4, <2>5, <2>7 DEF CommitAccepted, SetAttempt, procVars
<1>30. ASSUME NEW j \in Jobs, RecoverRaises(j) PROVE RecoveryInv'
  BY <1>30 DEF RecoverRaises, CanCommit, jobVars, attVars, outVars, provVars
<1>31. ASSUME NEW j \in Jobs, BootImage(j) PROVE RecoveryInv'
  BY <1>31 DEF BootImage, CompleteWithResult, provVars, SetStatus, attVars
<1>32. ASSUME NEW j \in Jobs, BootImageRaises(j) PROVE RecoveryInv'
  BY <1>32 DEF BootImageRaises, Goto, jobVars, attVars, outVars, provVars
<1>33. ASSUME NEW j \in Jobs, LegacyDraft(j) PROVE RecoveryInv'
  BY <1>33 DEF LegacyDraft, Handle, Transition, outVars, provVars, SetStatus,
               attVars
<1>34. ASSUME NEW j \in Jobs, LegacyReplay(j) PROVE RecoveryInv'
  BY <1>34 DEF LegacyReplay, Handle, jobVars, attVars, outVars, provVars
<1>35. ASSUME NEW j \in Jobs, EnqueueVideo(j) PROVE RecoveryInv'
  BY <1>35 DEF EnqueueVideo, InsertWithSnapshot, procVars, SetStatus,
               SetAttempt, outVars, provVars
<1>36. ASSUME NEW j \in Jobs, EnqueueImage(j) PROVE RecoveryInv'
  BY <1>36 DEF EnqueueImage, Handle, InsertWithSnapshot, SetStatus,
               SetAttempt, outVars, provVars
<1>37. ASSUME NEW j \in Jobs, ReplayImage(j) PROVE RecoveryInv'
  BY <1>37 DEF ReplayImage, Handle, jobVars, attVars, outVars, provVars
<1>38. ASSUME NEW j \in Jobs, Refresh(j) PROVE RecoveryInv'
  BY <1>38 DEF Refresh, RefreshJob, procVars, Transition, CompleteWithResult,
               jobVars, attVars, outVars, provVars, SetStatus
<1>39. ASSUME NEW j \in Jobs, MarkOrphan(j) PROVE RecoveryInv'
  BY <1>39 DEF MarkOrphan, CommitAccepted, Transition, Orphans, procVars,
               outVars, provVars, SetStatus, attVars, SetAttempt, CanCommit
<1>40. ASSUME NEW j \in Jobs, CancelUnavailable(j) PROVE RecoveryInv'
  BY <1>40 DEF CancelUnavailable, Transition, procVars, outVars, provVars,
               SetStatus, attVars
<1>41. ASSUME NEW j \in Jobs, SubmitPrepare(j) PROVE RecoveryInv'
  BY <1>41 DEF SubmitPrepare, SetAttempt, jobVars, outVars, provVars
<1>42. ASSUME NEW j \in Jobs, PollJob(j) PROVE RecoveryInv'
  BY <1>42 DEF PollJob, RefreshJob, Transition, CompleteWithResult, jobVars,
               attVars, outVars, provVars, SetStatus
<1>43. ASSUME NEW j \in Jobs, Finish(j) PROVE RecoveryInv'
  BY <1>43 DEF Finish, procVars, jobVars, attVars, outVars
<1>44. ASSUME NEW S \in SUBSET Jobs, PickPollable(S) PROVE RecoveryInv'
  BY <1>44 DEF PickPollable, Orphans, jobVars, attVars, outVars, provVars
<1>45. ASSUME NEW S \in SUBSET Jobs, PickQueued(S) PROVE RecoveryInv'
  BY <1>45 DEF PickQueued, jobVars, attVars, outVars, provVars
<1>46. ASSUME NEW mode \in Modes, Start(mode) PROVE RecoveryInv'
  BY <1>46 DEF Start, Jobs, jobVars, attVars, outVars, provVars
<1>47. CASE UNCHANGED vars
  BY <1>47 DEF vars, procVars, jobVars, attVars, outVars, provVars
<1> QED
  BY <1>1, <1>2, <1>3, <1>4, <1>5, <1>6, <1>7, <1>8, <1>9, <1>10, <1>11,
     <1>12, <1>13, <1>14, <1>15, <1>16, <1>17, <1>18, <1>19, <1>20, <1>21,
     <1>22, <1>23, <1>24, <1>25, <1>26, <1>27, <1>28, <1>29, <1>30, <1>31,
     <1>32, <1>33, <1>34, <1>35, <1>36, <1>37, <1>38, <1>39, <1>40, <1>41,
     <1>42, <1>43, <1>44, <1>45, <1>46, <1>47 DEF Next, Boot, Request, Handler, Cycle


\* A loss keeps the server in its starts: no handler and no cycle runs again.
LEMMA LostAtStart ==
    ASSUME JobInv, RecoveryInv, NEW j \in Jobs, LostByBackfill(j)
    PROVE  at \in {"down", "aborted", "backfill", "recover"}
BY DEF JobInv, SubmitInv, CurInv, ClaimedSteps, SubmitLoop, HandlerSteps, RecoveryInv,
       AcceptedIsRecoverable, LostByBackfill

\* Of the steps of a start, and a death, none undoes a loss.
LEMMA LossStep ==
    ASSUME JobInv, RecoveryInv, [Next]_vars, NEW j \in Jobs, LostByBackfill(j)
    PROVE  LostByBackfill(j)'
<1> TypeOK
  BY DEF JobInv, SubmitInv
<1>1. at \in {"down", "aborted", "backfill", "recover"}
  BY LostAtStart
<1> USE DEF LostByBackfill, TypeOK
<1>2. ASSUME Boot PROVE LostByBackfill(j)'
  <2>1. ASSUME NEW mode \in Modes, Start(mode) PROVE LostByBackfill(j)'
    BY <2>1 DEF Start, jobVars, attVars
  <2>2. ASSUME BackfillDone PROVE LostByBackfill(j)'
    BY <2>2 DEF BackfillDone, Goto, jobVars, attVars
  <2>3. ~RecoverDone
    BY DEF RecoverDone
  <2>4. ~BootImageAsset /\ ~BootDone
    BY <1>1 DEF BootImageAsset, BootDone
  <2>5. ASSUME NEW k \in Jobs, BackfillJob(k) PROVE LostByBackfill(j)'
    <3>1. k # j
      BY <2>5 DEF BackfillJob, BackfillRows, JobInv, SubmitInv, TodoInv, Tracked
    <3> QED
      BY <2>5, <3>1 DEF BackfillJob, SetStatus, attVars
  <2>6. ASSUME NEW k \in Jobs, RecoverAccepted(k) PROVE LostByBackfill(j)'
    <3>1. k # j
      BY <2>6 DEF RecoverAccepted, CommitAccepted, CanCommit
    <3> QED
      BY <2>6, <3>1 DEF RecoverAccepted, CommitAccepted, SetStatus, SetAttempt, procVars
  <2>7. ASSUME NEW k \in Jobs, RecoverRaises(k) PROVE LostByBackfill(j)'
    BY <2>7 DEF RecoverRaises, jobVars, attVars
  <2>8. \A k \in Jobs : ~BootImage(k) /\ ~BootImageRaises(k)
    BY <1>1 DEF BootImage, BootImageRaises
  <2> QED
    BY <1>2, <2>1, <2>2, <2>3, <2>4, <2>5, <2>6, <2>7, <2>8 DEF Boot
<1>3. ~Request
  BY <1>1
  DEF Request, DeleteCredential, ReplaceCredential, LegacyDraft, LegacyReplay, EnqueueVideo,
      EnqueueImage, ReplayImage, Refresh, Handle
<1>4. ~Handler
  BY <1>1 DEF Handler, LegacyQueue, ClaimImage, CallImage, ImageAccepted, ImageCommitted,
              ImageCompleted, ImageAsset, ImageUnknown, ImageFails
<1>5. ~Cycle
  BY <1>1 DEF Cycle, CycleStart, MarkOrphan, CancelUnavailable, SubmitPrepare, PollJob, PickPollable,
              PickQueued, SubmitMark, SubmitRecord, SubmitCall, SubmitAccepted, SubmitCommit,
              SubmitError, SubmitFails, SubmitsDone, PollAgain, CycleDone
<1>6. ASSUME Crash PROVE LostByBackfill(j)'
  BY <1>6, CrashAssumption DEF Crash, jobVars, attVars
<1>7. ASSUME NEW k \in Jobs, Finish(k) PROVE LostByBackfill(j)'
  BY <1>7 DEF Finish, procVars, jobVars, attVars
<1>8. ASSUME UNCHANGED vars PROVE LostByBackfill(j)'
  BY <1>8 DEF vars, procVars, jobVars, attVars
<1> QED
  BY <1>2, <1>3, <1>4, <1>5, <1>6, <1>7, <1>8 DEF Next

\* Both hold in every reachable state.
THEOREM RecoveryInvariant == Spec => [](JobInv /\ RecoveryInv)
<1>1. Init => RecoveryInv
  BY DEF Init, RecoveryInv, PollerSubmits, SubmitLoop, AcceptedIsRecoverable,
         FailedStartIsExplained, CompletedImageHasAsset, Tracked, Jobs
<1>2. JobInv /\ RecoveryInv /\ [Next]_vars => RecoveryInv'
  BY RecoveryStep
<1> QED
  BY Invariant, <1>1, <1>2, PTL DEF Spec

\* An acceptance on record is left behind by a death only, no handler or cycle
\* meets it, and the next recovery can commit it unless the backfill has failed
\* its legacy job before.
THEOREM AcceptanceSurvives == Spec => []AcceptedIsRecoverable
<1>1. RecoveryInv => AcceptedIsRecoverable
  BY DEF RecoveryInv
<1> QED
  BY RecoveryInvariant, <1>1, PTL

\* A start fails for a lost acceptance, or for an image that the poller submitted as
\* a video and that two deaths left without its result, and for nothing else.
THEOREM FailedStarts == Spec => []FailedStartIsExplained
<1>1. RecoveryInv => FailedStartIsExplained
  BY DEF RecoveryInv
<1> QED
  BY RecoveryInvariant, <1>1, PTL

\* Without a death an image is not tracked outside its handler, so that no poll, refresh
\* or orphan's recovery completes it, and its handler makes the asset.
THEOREM ImagesHaveAssets == Spec => []CompletedImageHasAsset
<1>1. RecoveryInv => CompletedImageHasAsset
  BY DEF RecoveryInv
<1> QED
  BY RecoveryInvariant, <1>1, PTL

\* Nothing, a restart with the other setting included, takes back a loss.
THEOREM LossStays == Spec => LossIsPermanent
<1>1. JobInv /\ RecoveryInv /\ [Next]_vars
        => [\A j \in Jobs : LostByBackfill(j) => LostByBackfill(j)']_vars
  BY LossStep
<1> QED
  BY RecoveryInvariant, <1>1, PTL DEF Spec, LossIsPermanent

\* The promise's phases, and a step it does not see.
Phases == [j \in Jobs |-> PhaseOf(j)]
Same == Phases' = Phases /\ submits' = submits

\* A step that changes the phase of one job advances it.
LEMMA OnePhase ==
    ASSUME NEW j \in Jobs, NEW CONSTANT old, NEW CONSTANT new,
           PhaseOf(j) = old, PhaseOf(j)' = new,
           \A k \in Jobs \ {j} : PhaseOf(k)' = PhaseOf(k)
    PROVE  Promise!Advance(j, {old}, new)
BY DEF Promise!Advance

\* A refresh of a tracked job ends it, completes it or is not seen.
LEMMA RefreshPromise ==
    ASSUME JobInv, NEW j \in Jobs, RefreshJob(j)
    PROVE  Promise!End({j}) \/ Promise!Complete(j) \/ Same
<1> USE DEF Phases, Same, PhaseOf, JobInv, SubmitInv, TypeOK, TrackedIsSubmitted, Tracked,
            Terminal
<1>1. /\ status[j] \in Tracked /\ attempt[j] = "committed" /\ submits[j] = 1
      /\ UNCHANGED <<attempt, submits>>
      /\ \/ status' = status
         \/ \E s \in {"polling", "failed", "completed"} : SetStatus(j, s)
  BY DEF RefreshJob, Transition, CompleteWithResult, SetStatus, jobVars, attVars, outVars,
         provVars
<1>2. CASE status' = status
  BY <1>1, <1>2
<1>3. ASSUME NEW s \in {"polling", "failed", "completed"}, SetStatus(j, s)
      PROVE  Promise!End({j}) \/ Promise!Complete(j) \/ Same
  <2>1. PhaseOf(j) = "tracked" /\ \A k \in Jobs \ {j} : PhaseOf(k)' = PhaseOf(k)
    BY <1>1, <1>3 DEF SetStatus
  <2>2. CASE s = "polling"
    <3>1. PhaseOf(j)' = "tracked"
      BY <1>1, <1>3, <2>2 DEF SetStatus
    <3> QED
      BY <1>1, <2>1, <3>1
  <2>3. CASE s = "failed"
    <3>1. PhaseOf(j)' = "ended"
      BY <1>1, <1>3, <2>3 DEF SetStatus
    <3> QED
      BY <1>1, <2>1, <3>1 DEF Promise!End
  <2>4. CASE s = "completed"
    <3>1. PhaseOf(j)' = "completed"
      BY <1>1, <1>3, <2>4 DEF SetStatus
    <3> QED
      BY <1>1, <2>1, <3>1, OnePhase DEF Promise!Complete
  <2> QED
    BY <2>2, <2>3, <2>4
<1> QED
  BY <1>1, <1>2, <1>3

\* Every step is a step of the promise or one it does not see.
LEMMA PromiseStep == ASSUME JobInv, [Next]_vars
                     PROVE  [Promise!PromiseNext]_(Promise!promiseVars)
<1> USE DEF Phases, Same, PhaseOf, Promise!End, JobInv, SubmitInv, TypeOK, CurInv, TodoInv,
            BackfillRows, FreshInv, AnswerInv, AttemptInv, TrackedIsSubmitted, Unclaimed, Tracked,
            Terminal, SubmitLoop, ClaimedSteps, HandlerSteps
<1>1. ASSUME BackfillDone PROVE Same
  BY <1>1 DEF BackfillDone, Goto, jobVars, attVars, outVars, provVars
<1>2. ASSUME RecoverDone PROVE Same
  BY <1>2 DEF RecoverDone, Goto, jobVars, attVars, outVars, provVars
<1>3. ASSUME BootImageAsset PROVE Same
  BY <1>3 DEF BootImageAsset, Return, EnsureAsset, provVars, jobVars, attVars
<1>4. ASSUME BootDone PROVE Same
  BY <1>4 DEF BootDone, Goto, jobVars, attVars, outVars, provVars
<1>5. ASSUME NEW S \in Suppliers, DeleteCredential(S) PROVE Promise!End(Referencing(S))
  BY <1>5 DEF DeleteCredential, Referencing, Suppliers, Jobs, procVars, attVars, outVars,
              provVars, Terminal
<1>6. ASSUME NEW S \in Suppliers, ReplaceCredential(S) PROVE Same
  BY <1>6 DEF ReplaceCredential, procVars, attVars, outVars, provVars
<1>7. ASSUME LegacyQueue PROVE Same
  BY <1>7 DEF LegacyQueue, Return, Transition, outVars, provVars, SetStatus,
              attVars
<1>8. ASSUME ClaimImage PROVE Same
  BY <1>8 DEF ClaimImage, Goto, Return, SetStatus, SetAttempt, outVars,
              provVars
<1>9. ASSUME CallImage PROVE cur \in Jobs /\ (Promise!Call(cur) \/ Same)
  <2>1. PICK j \in Jobs : j = cur
    BY <1>9 DEF CallImage, Goto, Return, jobVars, attVars, outVars
  <2>2. /\ submits[j] = 0 /\ status[j] = "submitting" /\ attempt[j] = "submitting"
        /\ UNCHANGED <<status, attempt>>
        /\ submits' = submits \/ submits' = [submits EXCEPT ![j] = 1]
    BY <1>9, <2>1 DEF CallImage, Goto, Return, jobVars, attVars, outVars
  <2>3. CASE submits' = submits
    BY <2>1, <2>2, <2>3
  <2>4. CASE submits' = [submits EXCEPT ![j] = 1]
    <3>1. PhaseOf(j) = "new"
      BY <2>2
    <3>2. PhaseOf(j)' = "called"
      BY <2>2, <2>4
    <3>3. \A k \in Jobs \ {j} : PhaseOf(k)' = PhaseOf(k)
      BY <2>2, <2>4
    <3>4. Promise!Advance(j, {"new"}, "called")
      BY <3>1, <3>2, <3>3, OnePhase
    <3> QED
      BY <2>1, <2>2, <2>4, <3>4 DEF Promise!Call
  <2> QED
    BY <2>2, <2>3, <2>4
<1>10. ASSUME ImageAccepted PROVE cur \in Jobs /\ Promise!Track(cur)
  <2>1. PICK j \in Jobs : j = cur
    BY <1>10 DEF ImageAccepted, Goto, RecordAttempt, jobVars, outVars,
                 provVars, SetAttempt
  <2>2. PhaseOf(j) = "called" /\ PhaseOf(j)' = "tracked"
    BY <1>10, <2>1 DEF ImageAccepted, Goto, RecordAttempt, jobVars, outVars,
                       provVars, SetAttempt
  <2>3. submits' = submits /\ \A k \in Jobs \ {j} : PhaseOf(k)' = PhaseOf(k)
    BY <1>10, <2>1 DEF ImageAccepted, Goto, RecordAttempt, jobVars, outVars,
                       provVars, SetAttempt
  <2>4. Promise!Advance(j, {"called"}, "tracked")
    BY <2>2, <2>3, OnePhase
  <2> QED
    BY <2>1, <2>3, <2>4 DEF Promise!Track
<1>11. ASSUME ImageCommitted PROVE Same
  BY <1>11 DEF ImageCommitted, Goto, CommitAccepted, outVars, provVars,
               SetStatus, SetAttempt, CanCommit
<1>12. ASSUME ImageCompleted PROVE cur \in Jobs /\ Promise!Complete(cur)
  BY <1>12 DEF ImageCompleted, Goto, CompleteWithResult, provVars, SetStatus,
               attVars,
      Promise!Complete, Promise!Advance
<1>13. ASSUME ImageAsset PROVE Same
  BY <1>13 DEF ImageAsset, Return, EnsureAsset, provVars, jobVars, attVars
<1>14. ASSUME ImageUnknown PROVE Same
  BY <1>14 DEF ImageUnknown, Goto, RecordAttempt, jobVars, outVars, provVars,
               SetAttempt
<1>15. ASSUME ImageFails PROVE cur \in Jobs /\ Promise!End({cur})
  BY <1>15 DEF ImageFails, Return, Transition, outVars, provVars, SetStatus,
               attVars
<1>16. ASSUME CycleStart PROVE Same
  BY <1>16 DEF CycleStart, Goto, jobVars, attVars, outVars, provVars
<1>17. ASSUME SubmitMark PROVE Same
  BY <1>17 DEF SubmitMark, Goto, Transition, outVars, provVars, SetStatus,
               attVars
<1>18. ASSUME SubmitRecord PROVE Same
  BY <1>18 DEF SubmitRecord, Goto, RecordAttempt, jobVars, outVars, provVars,
               SetAttempt
<1>19. ASSUME SubmitCall PROVE cur \in Jobs /\ (Promise!Call(cur) \/ Same)
  <2>1. PICK j \in Jobs : j = cur
    BY <1>19 DEF SubmitCall, Goto, jobVars, attVars, outVars
  <2>2. /\ submits[j] = 0 /\ status[j] = "submitting" /\ attempt[j] = "submitting"
        /\ UNCHANGED <<status, attempt>>
        /\ submits' = submits \/ submits' = [submits EXCEPT ![j] = 1]
    BY <1>19, <2>1 DEF SubmitCall, Goto, jobVars, attVars, outVars
  <2>3. CASE submits' = submits
    BY <2>1, <2>2, <2>3
  <2>4. CASE submits' = [submits EXCEPT ![j] = 1]
    <3>1. PhaseOf(j) = "new"
      BY <2>2
    <3>2. PhaseOf(j)' = "called"
      BY <2>2, <2>4
    <3>3. \A k \in Jobs \ {j} : PhaseOf(k)' = PhaseOf(k)
      BY <2>2, <2>4
    <3>4. Promise!Advance(j, {"new"}, "called")
      BY <3>1, <3>2, <3>3, OnePhase
    <3> QED
      BY <2>1, <2>2, <2>4, <3>4 DEF Promise!Call
  <2> QED
    BY <2>2, <2>3, <2>4
<1>20. ASSUME SubmitAccepted PROVE cur \in Jobs /\ Promise!Track(cur)
  <2>1. PICK j \in Jobs : j = cur
    BY <1>20 DEF SubmitAccepted, Goto, RecordAttempt, jobVars, outVars,
                 provVars, SetAttempt
  <2>2. PhaseOf(j) = "called" /\ PhaseOf(j)' = "tracked"
    BY <1>20, <2>1 DEF SubmitAccepted, Goto, RecordAttempt, jobVars, outVars,
                       provVars, SetAttempt
  <2>3. submits' = submits /\ \A k \in Jobs \ {j} : PhaseOf(k)' = PhaseOf(k)
    BY <1>20, <2>1 DEF SubmitAccepted, Goto, RecordAttempt, jobVars, outVars,
                       provVars, SetAttempt
  <2>4. Promise!Advance(j, {"called"}, "tracked")
    BY <2>2, <2>3, OnePhase
  <2> QED
    BY <2>1, <2>3, <2>4 DEF Promise!Track
<1>21. ASSUME SubmitCommit PROVE Same
  BY <1>21 DEF SubmitCommit, Return, CommitAccepted, outVars, provVars,
               SetStatus, SetAttempt, CanCommit
<1>22. ASSUME SubmitError PROVE Same
  BY <1>22 DEF SubmitError, Goto, RecordAttempt, jobVars, outVars, provVars,
               SetAttempt
<1>23. ASSUME SubmitFails PROVE cur \in Jobs /\ Promise!End({cur})
  BY <1>23 DEF SubmitFails, Return, Transition, outVars, provVars, SetStatus,
               attVars
<1>24. ASSUME SubmitsDone PROVE Same
  BY <1>24 DEF SubmitsDone, jobVars, attVars, outVars, provVars
<1>25. ASSUME PollAgain PROVE Same
  BY <1>25 DEF PollAgain, Return, Transition, jobVars, attVars, outVars,
               provVars, SetStatus
<1>26. ASSUME CycleDone PROVE Same
  BY <1>26 DEF CycleDone, Goto, jobVars, attVars, outVars, provVars
<1>27. ASSUME Crash PROVE Same
  BY <1>27 DEF Crash, jobVars, attVars, outVars, provVars
<1>28. ASSUME NEW j \in Jobs, BackfillJob(j) PROVE Promise!End({j}) \/ Same
  BY <1>28 DEF BackfillJob, SetStatus, attVars, outVars, provVars
<1>29. ASSUME NEW j \in Jobs, RecoverAccepted(j) PROVE Same
  BY <1>29 DEF RecoverAccepted, CommitAccepted, procVars, outVars, provVars,
               SetStatus, SetAttempt, CanCommit
<1>30. ASSUME NEW j \in Jobs, RecoverRaises(j) PROVE Same
  BY <1>30 DEF RecoverRaises, CanCommit, jobVars, attVars, outVars, provVars
<1>31. ASSUME NEW j \in Jobs, BootImage(j) PROVE Promise!Complete(j)
  BY <1>31 DEF BootImage, CompleteWithResult, provVars, SetStatus, attVars,
      Promise!Complete, Promise!Advance
<1>32. ASSUME NEW j \in Jobs, BootImageRaises(j) PROVE Same
  BY <1>32 DEF BootImageRaises, Goto, jobVars, attVars, outVars, provVars
<1>33. ASSUME NEW j \in Jobs, LegacyDraft(j) PROVE Same
  BY <1>33 DEF LegacyDraft, Handle, Transition, outVars, provVars, SetStatus,
               attVars
<1>34. ASSUME NEW j \in Jobs, LegacyReplay(j) PROVE Same
  BY <1>34 DEF LegacyReplay, Handle, jobVars, attVars, outVars, provVars
<1>35. ASSUME NEW j \in Jobs, EnqueueVideo(j) PROVE Same
  BY <1>35 DEF EnqueueVideo, InsertWithSnapshot, procVars, SetStatus,
               SetAttempt, outVars, provVars
<1>36. ASSUME NEW j \in Jobs, EnqueueImage(j) PROVE Same
  BY <1>36 DEF EnqueueImage, Handle, InsertWithSnapshot, SetStatus,
               SetAttempt, outVars, provVars
<1>37. ASSUME NEW j \in Jobs, ReplayImage(j) PROVE Same
  BY <1>37 DEF ReplayImage, Handle, jobVars, attVars, outVars, provVars
<1>38. ASSUME NEW j \in Jobs, Refresh(j)
      PROVE  Promise!End({j}) \/ Promise!Complete(j) \/ Same
  BY <1>38, RefreshPromise DEF Refresh
<1>39. ASSUME NEW j \in Jobs, MarkOrphan(j) PROVE Promise!End({j}) \/ Same
  BY <1>39 DEF MarkOrphan, CommitAccepted, Transition, Orphans, procVars,
               outVars, provVars, SetStatus, attVars, SetAttempt, CanCommit
<1>40. ASSUME NEW j \in Jobs, CancelUnavailable(j) PROVE Promise!End({j}) \/ Same
  BY <1>40 DEF CancelUnavailable, Transition, procVars, outVars, provVars,
               SetStatus, attVars
<1>41. ASSUME NEW j \in Jobs, SubmitPrepare(j) PROVE Same
  BY <1>41 DEF SubmitPrepare, SetAttempt, jobVars, outVars, provVars
<1>42. ASSUME NEW j \in Jobs, PollJob(j)
      PROVE  Promise!End({j}) \/ Promise!Complete(j) \/ Same
  BY <1>42, RefreshPromise DEF PollJob
<1>43. ASSUME NEW j \in Jobs, Finish(j) PROVE Same
  BY <1>43 DEF Finish, procVars, jobVars, attVars, outVars
<1>44. ASSUME NEW S \in SUBSET Jobs, PickPollable(S) PROVE Same
  BY <1>44 DEF PickPollable, Orphans, jobVars, attVars, outVars, provVars
<1>45. ASSUME NEW S \in SUBSET Jobs, PickQueued(S) PROVE Same
  BY <1>45 DEF PickQueued, jobVars, attVars, outVars, provVars
<1>46. ASSUME NEW mode \in Modes, Start(mode) PROVE Same
  BY <1>46 DEF Start, jobVars, attVars, outVars, provVars
<1>47. ASSUME UNCHANGED vars PROVE Same
  BY <1>47 DEF vars, procVars, jobVars, attVars, outVars, provVars
<1>48. Same => UNCHANGED Promise!promiseVars
  BY DEF Promise!promiseVars
<1> HIDE DEF Phases, Same, PhaseOf, Promise!End, JobInv
<1>49. ASSUME NEW j \in Jobs, Promise!Call(j) \/ Promise!Track(j) \/ Promise!Complete(j)
      PROVE  Promise!PromiseNext
  BY <1>49 DEF Promise!PromiseNext
<1>50. ASSUME NEW S \in SUBSET Jobs, Promise!End(S) PROVE Promise!PromiseNext
  BY <1>50 DEF Promise!PromiseNext
<1>51. (\A S \in Suppliers : Referencing(S) \in SUBSET Jobs) /\ \A j \in Jobs : {j} \in SUBSET Jobs
  BY DEF Referencing, Suppliers, Jobs
<1>52. Promise!PromiseNext \/ Same
  BY <1>1, <1>2, <1>3, <1>4, <1>5, <1>6, <1>7, <1>8, <1>9, <1>10, <1>11,
     <1>12, <1>13, <1>14, <1>15, <1>16, <1>17, <1>18, <1>19, <1>20, <1>21,
     <1>22, <1>23, <1>24, <1>25, <1>26, <1>27, <1>28, <1>29, <1>30, <1>31,
     <1>32, <1>33, <1>34, <1>35, <1>36, <1>37, <1>38, <1>39, <1>40, <1>41,
     <1>42, <1>43, <1>44, <1>45, <1>46, <1>47, <1>49, <1>50, <1>51
  DEF Next, Boot, Request, Handler, Cycle
<1> QED
  BY <1>48, <1>52

\* The tables, the process and its crashes implement SubmissionPromise.
THEOREM Refinement == Spec => KeepsPromise
<1>1. Init => Promise!PromiseInit
  BY DEF Init, Promise!PromiseInit, PhaseOf, Terminal
<1>2. JobInv /\ [Next]_vars => [Promise!PromiseNext]_(Promise!promiseVars)
  BY PromiseStep
<1> QED
  BY Invariant, <1>1, <1>2, PTL DEF Spec, KeepsPromise, Promise!PromiseSpec

=============================================================================
