SPECIFICATION AccessSpec
CONSTANTS
    Ids = {u1, u2, u3}
    Names = {n1, n2, n3}
    None = None
    Unknown = Unknown
    EditorLimit = 2
    DefaultRole = "editor"
    Keys = {k}
    Calls = {a, b}
    MaxOps = 3
INVARIANT NamesUnique
INVARIANT KeysNarrow
INVARIANT LabelsFollow
PROPERTY DemotionLeavesAdmin
SYMMETRY Symmetry
CHECK_DEADLOCK FALSE
