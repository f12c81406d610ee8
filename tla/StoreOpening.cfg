SPECIFICATION Spec
CONSTANTS
    Openers = {server, thread, tool}
    Servers = {server, thread}
    Nobody = Nobody
    MaxOpenings = 4
    MaxCrashes = 1
INVARIANTS WorksOnCurrent RefusedAfterDeath RowsComeBack
PROPERTIES RowsAreKept
CHECK_DEADLOCK FALSE
