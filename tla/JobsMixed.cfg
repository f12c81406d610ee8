SPECIFICATION Spec
CONSTANTS
    LegacyJobs = {l1}
    VideoJobs = {}
    ImageJobs = {i1}
    Modes = {TRUE, FALSE}
    MaxCrashes = 2
    NoJob = NoJob
INVARIANTS
    AtMostOneSubmit
    TrackedIsSubmitted
    CompletedHasOneResult
    AcceptedIsRecoverable
    FailedStartIsExplained
    CompletedImageHasAsset
PROPERTIES
    SubmitOnlyWhenClaimed
    StatusFollowsTable
    KeepsPromise
