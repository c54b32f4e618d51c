SPECIFICATION MCSpec
CONSTANTS
    Calls = {c1, c2}
    Users = {u1, u2}
    Pages = {p1, p2}
    Fields = {f1, f2}
    Values = {v}
    Slots = {logo, favicon}
    Exts = {e1, e2}
    EnvManaged = FALSE
    None = None
    MaxOps = 5
    MaxFaults = 2
INVARIANT OnlyRacesOrphan
INVARIANT ChoicesStand
SYMMETRY MCSymmetry
CHECK_DEADLOCK FALSE
