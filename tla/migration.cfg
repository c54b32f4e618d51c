SPECIFICATION FairSpec
CONSTANTS
    Root = "root"
    Listing <- Names
    LegacyKids <- Kids
    Layouts <- Found
    Versions = {0, 3, 5, 6}
    Saved = {"kept", "lost", "unreadable"}
    Copied = "x"
    None = None
    Torn = Torn
    MaxBoots = 3
INVARIANT TreeStays
PROPERTY ServesInTheEnd
CHECK_DEADLOCK FALSE
