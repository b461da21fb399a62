SPECIFICATION Spec
CONSTANTS
    MCEdges = 2
    Graphs <- MCGraphs
    Lookups <- MCLookups
    Contended <- MCContended
    Texts <- MCTexts
    Depths = {0, 2}
    NodeLimits = {2, 6}
    Limits = {1, 2}
    Hints <- MCHints
    Lines = {0, 3, 9}
    Live <- MCLive
    Slices <- MCSlices
    NewId <- MCNewId
    MaxItems <- MCMaxItems
    PropsNames <- MCPropsNames
    DepthCap = 2
    NodeCap = 5
    DominantCount = 2
    MaxCycles = 4
    MaxNodesPerCycle = 3
    MaxHops <- MCMaxHops
    MaxSubsystemFiles = 1
    Components <- MCComponents
    NamePrefix <- MCNamePrefix
    Lower <- MCLower
    Parts <- MCParts
    Keywords <- MCKeywords
    AliasOf <- MCAliasOf
    NameLikeness <- MCNameLikeness
    PathLikeness <- MCPathLikeness
    FileLikeness <- MCFileLikeness
    PathBoost <- MCPathBoost
    FileName <- MCFileName
    ScanCap = 1
    SeedLimit = 4
    ConceptCap = 1
    Precision = 1000000
    PathTraits <- MCPathTraits
    Capital = {2}
    MainName = 1
    RowLimit = 1
    MaxDeps = 1
    Shape <- MCShape
    Boilerplate = {11}
    Comments = {10}
INVARIANT UnattributedIgnored
