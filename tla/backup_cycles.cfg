SPECIFICATION Spec
CONSTANTS
    p = p
    q = q
    a = a
    b = b
    Paths = {p, q}
    Contents = {a, b}
    None = None
    Starts <- FirstContents
    Http = Http
    MaxGens = 2
    MaxEvents = 3
INVARIANT SchedulerSound
PROPERTY EditsKept
PROPERTY SuccessMeansStored
PROPERTY ForceSeesWhatItDrops
SYMMETRY Symmetry
CHECK_DEADLOCK FALSE
