SPECIFICATION FairSpec
CONSTANTS
    s = s
    t = t
    Index = Index
    None = None
    Calls = {a}
    Paths <- Tree
    Packages <- Archives
    MaxRuns = 2
    MaxPlans = 2
    MaxEvents = 4
INVARIANT PlanTrue
PROPERTY OverwritesOnlyOwn
PROPERTY Ends
CHECK_DEADLOCK FALSE
