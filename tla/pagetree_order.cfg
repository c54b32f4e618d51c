SPECIFICATION Spec
CONSTANTS
    Nodes <- TwoNodes
    Slugs <- TwoSlugs
    Root = Root
    NoSlug = 0
    Failing <- OrderFails
    MaxFaults = 1
    MaxOps = 3
    MaxLoads = 1
INVARIANT MatchesDisk
INVARIANT UnmovedAreRead
CHECK_DEADLOCK FALSE
