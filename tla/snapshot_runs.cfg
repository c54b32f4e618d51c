SPECIFICATION FairSpec
CONSTANTS
    Files = 2
    Retention = 1
    Calls = {a}
    None = None
    Torn = Torn
    MaxEvents = 3
    MaxSeconds = 1
PROPERTY ListTrue
PROPERTY ImplementsShelf
PROPERTY TriggerHonoured
CHECK_DEADLOCK FALSE
