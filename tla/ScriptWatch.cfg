SPECIFICATION ViewFairSpec
CONSTANTS
    Sessions = {s1}
    NoSession = none
    Watched = s1
    MaxFrames = 2
    MaxCrashes = 1
    MaxErrors = 1
    MaxDrops = 1
    LateReplies = FALSE
INVARIANTS ShownIsLogPrefix ViewIsTruthful
PROPERTY ViewEnds
CHECK_DEADLOCK FALSE
