SPECIFICATION Spec
CONSTANTS
    Tests = {t1, t2}
    NoTest = NoTest
    MaxVersions = 2
    MaxFaults = 1
    MaxCrashes = 2
INVARIANTS CurrentIsRecoverable RecoveryConverges DeletedIsLetGo OutcomeIsHonest
PROPERTIES EndIsFinal KeepsVault
CHECK_DEADLOCK FALSE
