SPECIFICATION MCFairSpec
CONSTANTS
    NItems <- MCNItems
    UsersDB <- MCUsersDB
    StateStores <- MCStateStores
    DBFiles <- MCDBFiles
    Dirs <- MCDirs
    Settings <- MCSettings
    BootCreates <- MCBootCreates
    Requests = {r1}
    Clients = {u1}
    Callers = {c1}
    MaxRuns = 1
    MaxBoots = 1
    SnapItems = 3
INVARIANT AllOrNothing
INVARIANT SwapIsSafe
INVARIANT ServesAgain
INVARIANT NoForeignLog
INVARIANT NoSessionFromBefore
PROPERTY RestoreEnds
CHECK_DEADLOCK FALSE
