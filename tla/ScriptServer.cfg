SPECIFICATION FairSpec
CONSTANTS
    Sessions = {s1, s2}
    NoSession = none
    MaxFrames = 2
    MaxCrashes = 1
    MaxErrors = 1
INVARIANTS SubmittedOnce EndAgreesWithChain LogAgreesWithChain
PROPERTIES KeepsPromise SessionEnds
CHECK_DEADLOCK FALSE
