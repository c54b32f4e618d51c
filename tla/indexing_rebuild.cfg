SPECIFICATION Spec
CONSTANTS
    p1 = p1
    p2 = p2
    p3 = p3
    s = s
    t = t
    x = x
    y = y
    z = z
    g = g
    h = h
    Pages = {p1, p2, p3}
    Slugs = {s, t}
    Titles = {x, y, z}
    Tags = {g, h}
    Root = Root
    Up = Up
    None = None
    Gone = Gone
    Calls = {a, b}
    FirstTree <- Trees
    Drafts <- Typed
    MaxOps = 2
    MaxFiles = 1
    MaxResyncs = 2
    MaxEvents = 3
INVARIANT IndexesFollow
PROPERTY LinksKeepTarget
PROPERTY RewriteKeepsEdits
PROPERTY LinksSurviveMoves
SYMMETRY Symmetric
CHECK_DEADLOCK FALSE
