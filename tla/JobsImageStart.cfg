SPECIFICATION Spec
CONSTANTS
    LegacyJobs = {}
    VideoJobs = {}
    ImageJobs = {i1}
    Modes = {TRUE}
    MaxCrashes = 2
    NoJob = NoJob
INVARIANT ServerStarts
