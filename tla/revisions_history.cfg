SPECIFICATION Spec
CONSTANTS
    Calls = {a, b}
    System = System
    Bodies = {b1, b2}
    Extras = {none, x}
    Titles = {t1, t2}
    NoExtra = none
    Names = {n1, n2}
    Files = {f1, f2}
    None = None
    MaxRevs = 2
    Coalesce = TRUE
    MaxOps = 3
    MaxFaults = 2
    MaxCrashes = 1
INVARIANT UploadsKept
PROPERTY HistoryKept
PROPERTY RestoreAllOrNothing
SYMMETRY Symmetry
CHECK_DEADLOCK FALSE
