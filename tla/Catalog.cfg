SPECIFICATION Spec
CONSTANTS
    BuiltIns = {b1, b2}
    Overlays = {o1}
    NoModel = NoModel
    Capabilities = {text}
    Overridable = {text}
    Names = {n1, n2}
    Projects = {p1}
    Keys = {k1}
    MaxCatalog = 3
    MaxBindings = 1
INVARIANTS NamesAreUnique ReferencesHold
PROPERTIES NoLostUpdate
SYMMETRY Symmetry
CHECK_DEADLOCK FALSE
