SPECIFICATION Spec
CONSTANTS
    Objects = {o1, o2}
    Writers = {w1, w2}
    NoObject = NoObject
    MaxFiles = 2
    MaxBackups = 2
    MaxRestores = 1
    MaxCrashes = 1
INVARIANTS ReferencesResolve
PROPERTIES WholeIsKept
CHECK_DEADLOCK FALSE
