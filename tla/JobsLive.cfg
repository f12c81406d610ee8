SPECIFICATION FairSpec
CONSTANTS
    LegacyJobs = {}
    VideoJobs = {v1}
    ImageJobs = {i1}
    Modes = {TRUE}
    MaxCrashes = 1
    NoJob = NoJob
PROPERTY JobsMoveOn
