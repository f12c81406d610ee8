SPECIFICATION Spec
CONSTANTS
    Objects = {o1}
    Writers = {w1}
    NoObject = NoObject
    MaxFiles = 1
    MaxBackups = 0
    MaxRestores = 0
    MaxCrashes = 1
INVARIANT ReferencedIsWhole
CHECK_DEADLOCK FALSE
