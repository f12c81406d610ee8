SPECIFICATION Spec
CONSTANTS
    Web = {server}
    Cli = {cli}
    Generators = {server}
    Deciders = {server, cli}
    Directories = {d1}
    NoDirectory = NoDirectory
    MaxRevisions = 3
    MaxDecisions = 3
    MaxExports = 1
    MaxCrashes = 1
INVARIANTS StatusAgreesWithLog SourceWasApproved RecordIsTrue
PROPERTIES ApprovalIsEarned
CHECK_DEADLOCK FALSE
