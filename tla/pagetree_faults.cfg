SPECIFICATION Spec
CONSTANTS
    Nodes <- ThreeNodes
    Slugs <- TwoSlugs
    Root = Root
    NoSlug = 0
    Failing <- AllFail
    MaxFaults = 2
    MaxOps = 3
    MaxLoads = 0
PROPERTY PagesKept
PROPERTY VersionTracksContent
PROPERTY TreeSpec
CHECK_DEADLOCK FALSE
