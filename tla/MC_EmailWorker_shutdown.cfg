CONSTANTS
    i1 = i1
    i2 = i2
    Ids <- MCIds
    InitIds <- MCShutdownInitIds
    IdSets <- MCIdSets
    MaxReloads = 0
SPECIFICATION Spec
INVARIANT CleanShutdown
