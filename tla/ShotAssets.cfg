SPECIFICATION Spec
CONSTANTS
    Assets = {a1, a2}
    NoAsset = NoAsset
    NumNeeds = 1
    Boards = {b1}
    NoBoard = NoBoard
    MaxSets = 2
    MaxPrompts = 2
    MaxVideos = 1
    MaxCrashes = 1
INVARIANTS ReadyWasEarned AdoptedIsUsable
PROPERTIES VideoIsBacked
SYMMETRY Symmetry
CHECK_DEADLOCK FALSE
